------------------------------ MODULE CfgStore ------------------------------
(***************************************************************************)
(* The configuration store: the network configuration file, the document   *)
(* that was read from it (jcfg.nw) and the trees of node_t objects         *)
(* (cfg/cfgdb.c, cfg/parser, and the commands of mng.c that reload it).    *)
(*                                                                         *)
(* The program writes the whole file whenever a field changes, and the     *)
(* user edits the same file with an editor.  The last modification time    *)
(* and the time of the last synchronization decide whether it is read      *)
(* again; both are kept in whole seconds.                                  *)
(*                                                                         *)
(* One operation is several steps: the trees and each written field, as    *)
(* the console reads the trees and the process may end in between.  What   *)
(* the configuration of a node consists of is left out; a device stands    *)
(* for its UUID and for the address it gets.                               *)
(***************************************************************************)
EXTENDS Naturals, FiniteSets

CONSTANTS
  Devs,   \* devices, by UUID
  Bare,   \* devices whose entry names no template
  Edits,  \* what the user does: "move" (an entry from the backlog to the subnet),
          \* "flag" (RM_Blacklist on or off), "done" (Done off)
  None

ASSUME CfgStoreAssumption ==
  /\ Bare \subseteq Devs /\ None \notin Devs
  /\ Edits \subseteq {"move", "flag", "done"}

VARIABLES
  file,    \* the file; per device: an entry in the subnet, in the backlog, and the
           \* fields of the former: has an address, RM_Blacklist, Done
  root,    \* jcfg.nw.gen.root
  unprov, nodes, backlog,  \* db.devdb
  marked, configured,  \* node_t of the devices in unprov and nodes: rmorbl, done
  step,    \* what the operation under way does next
  at,      \* ... and to which device
  up,      \* the process runs
  sync,    \* the manager works on its lists
  later,   \* the second of the last flush (gen.synctime) is over
  newer,   \* the file was modified after the second of gen.synctime
  blind    \* history: the user saved in the second of the last flush

vars == <<file, root, unprov, nodes, backlog, marked, configured, step, at, up, sync, later, newer, blind>>
trees == <<unprov, nodes, backlog, marked, configured>>
clock == <<later, newer, blind>>

Entry == [node : BOOLEAN, back : BOOLEAN, addr : BOOLEAN, flag : BOOLEAN, done : BOOLEAN]
Steps == {"idle", "addr on", "to nodes", "rm done", "rm tree", "bl tree", "bl done",
          "addr off", "done", "flag", "unflag", "clear", "clear load", "boot", "load",
          "load sync", "sync"}

Provisioned(f) == {d \in Devs : f[d].node /\ f[d].addr}
Unprovisioned(f) == {d \in Devs : f[d].node /\ ~f[d].addr}
Recorded(f) == {d \in Devs : f[d].back}

-----------------------------------------------------------------------------
(* What the requests of json_cfg_write make of a document f *)

\* set_node_addr
SetNodeAddr(f, d, v) == [f EXCEPT ![d].addr = v]

\* set_node_done
SetNodeDone(f, d, v) == [f EXCEPT ![d].done = v]

\* _backlog_node_add
BacklogNodeAdd(f, d) == [f EXCEPT ![d].back = TRUE]

\* rmall_nodes
RmallNodes(f) ==
  [d \in Devs |-> [f[d] EXCEPT !.flag = @ \/ d \in Provisioned(f)]]

\* rmbl_clr
RmblClr(f) ==
  [d \in Devs |-> [f[d] EXCEPT !.flag = @ /\ d \notin Unprovisioned(f)]]

\* nodes_clrctl
NodesClrctl(f) ==
  [d \in Devs |-> [f[d] EXCEPT !.addr = FALSE, !.flag = FALSE, !.done = FALSE]]

-----------------------------------------------------------------------------
(* json_cfg_flush, write_nodes *)

\* The time is taken first; the second may be over when the file is written.
Flush(f) ==
  /\ file' = f
  /\ later' \in BOOLEAN
  /\ newer' = later'
  /\ blind' = FALSE

\* A change of the document, flushed at once.
Write(f) == root' = f /\ Flush(f)

\* modify_node_field: without an entry in the subnet the error is only logged.
Modify(d, f) == IF root[d].node THEN Write(f) ELSE UNCHANGED <<root, file, clock>>

-----------------------------------------------------------------------------
(* The steps of nodes that come, change and go; each goes on with the next *)

\* The store is asked to do something only when the last request is over.
Idle == up /\ step = "idle"
Begin(s, d) == step' = s /\ at' = d
Goto(s) == step' = s /\ UNCHANGED at
Finish == step' = "idle" /\ at' = None

\* Mutant: the address is not flushed.
AddrOn_NoFlush ==
  /\ step = "addr on" /\ Goto("to nodes")
  /\ root' = SetNodeAddr(root, at, TRUE)
  /\ UNCHANGED <<file, trees, up, sync, clock>>

\* upl_nodeset_addr: the file first, ...
AddrOn ==
  /\ step = "addr on" /\ Goto("to nodes")
  /\ Modify(at, SetNodeAddr(root, at, TRUE))
  /\ UNCHANGED <<trees, up, sync>>

\* ... then the trees.  cfgdb_unpl_remove looks for a device that names no template
\* in the backlog (G_HTB): it stays among the unprovisioned ones as well.
ToNodes ==
  /\ step = "to nodes" /\ Finish
  /\ unprov' = unprov \ ({at} \ Bare)
  /\ backlog' = IF at \in Bare \ nodes THEN backlog \ {at} ELSE backlog
  /\ nodes' = nodes \cup {at}
  /\ UNCHANGED <<file, root, marked, configured, up, sync, clock>>

\* Mutant: a removed node stays marked as configured.
RmDone_Keep ==
  /\ step = "rm done" /\ Goto("rm tree")
  /\ UNCHANGED <<file, root, trees, up, sync, clock>>

\* __on_success of as_rmend.c and, in the other order, nodes_bl: not done any more, ...
RmDone ==
  /\ step \in {"rm done", "bl done"}
  /\ Goto(IF step = "rm done" THEN "rm tree" ELSE "addr off")
  /\ configured' = configured \ {at}
  /\ Modify(at, SetNodeDone(root, at, FALSE))
  /\ UNCHANGED <<unprov, nodes, backlog, marked, up, sync>>

\* ... out of the nodes, ...
ToUnprov ==
  /\ step \in {"rm tree", "bl tree"}
  /\ Goto(IF step = "bl tree" THEN "bl done" ELSE "addr off")
  /\ nodes' = nodes \ {at}
  /\ unprov' = unprov \cup {at}
  /\ configured' = configured \ {at}
  /\ UNCHANGED <<file, root, backlog, marked, up, sync, clock>>

\* ... and without an address.
AddrOff ==
  /\ step = "addr off" /\ Finish
  /\ Modify(at, SetNodeAddr(root, at, FALSE))
  /\ UNCHANGED <<trees, up, sync>>

\* nodeset_done
Done ==
  /\ step = "done" /\ Finish
  /\ configured' = configured \cup {at}
  /\ Modify(at, SetNodeDone(root, at, TRUE))
  /\ UNCHANGED <<unprov, nodes, backlog, marked, up, sync>>

-----------------------------------------------------------------------------
(* The steps that change all entries, and reading the file *)

\* clicb_rmall, clicb_rmblclr
FlagAll ==
  /\ \/ step = "flag" /\ Goto("load sync") /\ Write(RmallNodes(root))
     \/ step = "unflag" /\ Goto("load") /\ Write(RmblClr(root))
  /\ UNCHANGED <<trees, up, sync>>

\* __load_node_arr: the objects that are there are filled again, the others made.
LoadTrees(unprov0, nodes0) ==
  /\ unprov' = unprov0 \cup Unprovisioned(file)
  /\ nodes' = nodes0 \cup Provisioned(file)
  /\ backlog' = backlog \cup Recorded(file)
  /\ marked' = {d \in Devs : file[d].node /\ file[d].flag}
  /\ configured' = {d \in Devs : file[d].node /\ file[d].done}

\* The file is read, and written with the time of that.
Load(unprov0, nodes0) ==
  /\ root' = file
  /\ LoadTrees(unprov0, nodes0)
  /\ Flush(file)

\* cfg_clrctl: the file is read again if it was modified, and cleared; what was
\* written is read again by force (nodes_clrctl), before the program starts over.
ClearAll ==
  /\ step = "clear" /\ Goto("clear load")
  /\ IF newer THEN LoadTrees(unprov, nodes) ELSE UNCHANGED trees
  /\ Write(NodesClrctl(IF newer THEN file ELSE root))
  /\ UNCHANGED <<up, sync>>

\* The process ends, and with it all that it remembers.
End ==
  /\ up' = FALSE /\ sync' = FALSE
  /\ unprov' = {} /\ nodes' = {} /\ backlog' = {}
  /\ marked' = {} /\ configured' = {}
  /\ root' = [d \in Devs |-> [node |-> FALSE, back |-> FALSE, addr |-> FALSE,
                              flag |-> FALSE, done |-> FALSE]]
  /\ step' = "idle" /\ at' = None
  /\ UNCHANGED <<file, clock>>

\* The steps that read the file by force, and what comes after each.
LoadSteps == {"clear load", "boot", "load", "load sync"}
AfterLoad(s) ==
  IF s = "clear load" THEN "boot" ELSE IF s = "load sync" THEN "sync" ELSE "idle"

\* Mutant: the trees are not emptied.
ForcedLoad_Merge ==
  /\ step \in LoadSteps
  /\ Load(unprov, nodes)
  /\ step' = AfterLoad(step) /\ at' = None
  /\ UNCHANGED <<up, sync>>

\* load_cfg_file(.., 1): the trees but for the backlog are emptied first.
\* An object that is in both is freed twice.
ForcedLoad ==
  /\ step \in LoadSteps
  /\ IF nodes \cap unprov # {}
     THEN End
     ELSE /\ Load({}, {})
          /\ step' = AfterLoad(step) /\ at' = None
          /\ UNCHANGED <<up, sync>>

\* Mutant: the time of synchronization moves on, and the file is not read.
SyncLoad_Skip ==
  /\ step = "sync" /\ Finish
  /\ sync' = TRUE
  /\ newer' = FALSE
  /\ UNCHANGED <<file, root, trees, up, later, blind>>

\* mng_mainloop, starting: the file is read again if it was modified.
SyncLoad ==
  /\ step = "sync" /\ Finish
  /\ sync' = TRUE
  /\ IF newer THEN Load(unprov, nodes) ELSE UNCHANGED <<file, root, trees, clock>>
  /\ UNCHANGED up

-----------------------------------------------------------------------------
(* Operations *)

Unchanged == UNCHANGED <<file, root, trees, up, sync, clock>>

\* on_prov_success, of a device that on_beacon_recv let pass
AddressSet(d) ==
  /\ Idle /\ d \in unprov /\ d \notin marked
  /\ Begin("addr on", d) /\ Unchanged

\* __on_success of as_rmend.c
NodeRemoved(d) ==
  /\ Idle /\ sync /\ d \in nodes /\ d \in marked
  /\ Begin("rm done", d) /\ Unchanged

\* nodes_bl, called by on_bl_done
NodeBlacklisted(d) ==
  /\ Idle /\ sync /\ d \in nodes /\ d \in marked
  /\ Begin("bl tree", d) /\ Unchanged

\* __on_success of as_end.c
NodeConfigured(d) ==
  /\ Idle /\ sync /\ d \in nodes /\ d \notin marked \cup configured
  /\ Begin("done", d) /\ Unchanged

\* Mutant: the new object goes to the unprovisioned devices.
Record_Unprov(d) ==
  /\ Idle /\ d \notin unprov \cup backlog
  /\ Write(BacklogNodeAdd(root, d))
  /\ unprov' = unprov \cup {d}
  /\ UNCHANGED <<nodes, backlog, marked, configured, step, at, up, sync>>

\* on_beacon_recv in free mode 2, _backlog_node_add
Record(d) ==
  /\ Idle /\ d \notin unprov \cup backlog
  /\ Write(BacklogNodeAdd(root, d))
  /\ backlog' = backlog \cup {d}
  /\ UNCHANGED <<unprov, nodes, marked, configured, step, at, up, sync>>

\* clicb_sync
Sync == Idle /\ ~sync /\ Begin("sync", None) /\ Unchanged

SyncDone ==
  /\ Idle /\ sync
  /\ sync' = FALSE
  /\ UNCHANGED <<file, root, trees, step, at, up, clock>>

\* clicb_rmall, refused while a sync is under way; it starts one.
Rmall == Idle /\ ~sync /\ Begin("flag", None) /\ Unchanged

\* clicb_rmblclr
Rmblclr == Idle /\ Begin("unflag", None) /\ Unchanged

\* clicb_reset: the manager is cancelled wherever it is.
Reset(factory) ==
  /\ up /\ step \notin {"clear", "clear load", "boot"}
  /\ Begin(IF factory THEN "clear" ELSE "boot", None)
  /\ sync' = FALSE
  /\ UNCHANGED <<file, root, trees, up, clock>>

Start ==
  /\ ~up /\ up' = TRUE
  /\ Begin("boot", None)
  /\ UNCHANGED <<file, root, trees, sync, clock>>

Crash == up /\ End

-----------------------------------------------------------------------------
(* The user and the clock *)

Save(f) ==
  /\ file' = f
  /\ newer' = later
  /\ blind' = (blind \/ ~later)
  /\ UNCHANGED <<root, trees, step, at, up, sync, later>>

Moved(f, d) == [f EXCEPT ![d].node = TRUE, ![d].back = FALSE]
Flagged(f, d, v) == [f EXCEPT ![d].flag = v]

\* README.md, "Move Devices from Backlog to Primary Subnet"
EditMove(d) ==
  /\ "move" \in Edits /\ file[d].back /\ ~file[d].node
  /\ Save(Moved(file, d))

\* README.md, "Blacklisting Node(s)", "Removing Node(s)", and taking that back
EditFlag(d) ==
  /\ "flag" \in Edits /\ file[d].node
  /\ file[d].addr \/ file[d].flag
  /\ Save(Flagged(file, d, ~file[d].flag))

\* README.md, "Change Configuration to Node(s)"
EditDone(d) ==
  /\ "done" \in Edits /\ file[d].done
  /\ Save(SetNodeDone(file, d, FALSE))

Tick ==
  /\ ~later /\ later' = TRUE
  /\ UNCHANGED <<file, root, trees, step, at, up, sync, newer, blind>>

-----------------------------------------------------------------------------
Init ==
  /\ file = [d \in Devs |-> [node |-> FALSE, back |-> FALSE, addr |-> FALSE,
                             flag |-> FALSE, done |-> FALSE]]
  /\ root = file
  /\ unprov = {} /\ nodes = {} /\ backlog = {}
  /\ marked = {} /\ configured = {}
  /\ step = "idle" /\ at = None
  /\ up = FALSE /\ sync = FALSE
  /\ later = TRUE /\ newer = TRUE /\ blind = FALSE

Steppings ==
  \/ AddrOn \/ ToNodes \/ RmDone \/ ToUnprov \/ AddrOff \/ Done
  \/ FlagAll \/ ClearAll \/ ForcedLoad \/ SyncLoad

Operations ==
  \/ \E d \in Devs : AddressSet(d) \/ NodeRemoved(d) \/ NodeBlacklisted(d)
                     \/ NodeConfigured(d) \/ Record(d)
  \/ Sync \/ SyncDone \/ Rmall \/ Rmblclr
  \/ \E factory \in BOOLEAN : Reset(factory)
  \/ Start \/ Crash

User == Tick \/ \E d \in Devs : EditMove(d) \/ EditFlag(d) \/ EditDone(d)

Next == Steppings \/ Operations \/ User

Spec == Init /\ [][Next]_vars

-----------------------------------------------------------------------------
(* Properties *)

\* Types of the store; an object in memory has an entry in the document that was
\* read, so that a field that is set reaches the file (modify_node_field).
TypeOK ==
  /\ file \in [Devs -> Entry] /\ root \in [Devs -> Entry]
  /\ marked \subseteq Devs /\ configured \subseteq Devs
  /\ step \in Steps /\ at \in Devs \cup {None}
  /\ up \in BOOLEAN /\ sync \in BOOLEAN
  /\ later \in BOOLEAN /\ newer \in BOOLEAN /\ blind \in BOOLEAN
  /\ unprov \cup nodes \subseteq {d \in Devs : root[d].node}
  /\ backlog \subseteq {d \in Devs : root[d].node \/ root[d].back}

\* Between operations memory is what a restart would load from the document: each
\* device has one home, the one its address says, and its flag and its mark are
\* those of the document.  Cancelling the manager anywhere (clicb_reset) does not
\* change that.  A device that names no template is the exception, see ToNodes.
MemoryIsDocument ==
  Idle =>
    /\ nodes \ Bare = Provisioned(root) \ Bare
    /\ unprov \ Bare = Unprovisioned(root) \ Bare
    /\ Recorded(root) \ Bare \subseteq backlog
    /\ marked = {d \in Devs : root[d].node /\ root[d].flag}
    /\ configured = {d \in Devs : root[d].node /\ root[d].done}

\* A node that has its address in memory has it in the file, at every step: it
\* comes into the file first and leaves it last (upl_nodeset_addr, nodes_rm,
\* nodes_bl), so that a node is not forgotten when the process ends.  Only when all
\* is cleared (cfg_clrctl) the file comes first.
AddressIsSaved == step # "clear load" => nodes \subseteq Provisioned(file)

\* A device without an address is never marked as configured in the file, also if
\* the process ends within a removal or a blacklisting: load_lists would not
\* configure it after it was added again.
DoneHasAddress == \A d \in Devs : file[d].done => file[d].addr

\* The user's change is noticed by the next sync, unless it was saved in the second
\* of a flush ("By checking the last modification time against last synchronized
\* time to know if the configuration is changed out of the program").
ChangedOutsideIsKnown ==
  Idle /\ file # root => newer \/ blind
=============================================================================
