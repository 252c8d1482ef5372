-------------------------------- MODULE Mng ---------------------------------
(***************************************************************************)
(* The scheduler of the manager: mng/mng.c.                                *)
(*                                                                         *)
(* One thread repeats a round: poll one command of the user (poll_cmd),    *)
(* drain the events of the NCP target (bgevt_dispenser), do the work of    *)
(* the current state (mng_mainloop), choose the next state                 *)
(* (set_mng_state).  A sync loads four work lists from the database and    *)
(* then loads adding, removing and blacklisting in the order the user set  *)
(* with seqset.                                                            *)
(*                                                                         *)
(* The workers are abstract here: a slot of the configuration engine is    *)
(* taken and given back (AccEngine models it), blacklisting is busy and    *)
(* then done (DevBl models it), a device gets provisioned.                 *)
(***************************************************************************)
EXTENDS Naturals, Sequences, FiniteSets

CONSTANTS
  Nodes,          \* devices of the network configuration file
  MaxConcurrent,  \* MAX_CONCURRENT_CONFIG_NODES
  Orders,         \* sequences the user may set: 3 of "a", "r", "b", "-"
  Commands,       \* commands the user gives
  FreeMode,       \* devices are provisioned outside of adding, too (free_mode = 2)
  Faults          \* {"ddb"}: the NCP may not have a node of the database

ASSUME MngAssumption ==
  /\ MaxConcurrent \in Nat \ {0}
  /\ IsFiniteSet(Nodes)
  /\ Orders \subseteq [1..3 -> {"a", "r", "b", "-"}] /\ Orders # {}
  /\ Commands \subseteq {"sync 1", "sync 0", "rmall", "clrrb", "seqset"}
  /\ FreeMode \in BOOLEAN
  /\ Faults \subseteq {"ddb"}

VARIABLES
  state,    \* mng.state
  prios,    \* mng.status.seq.prios
  offs,     \* mng.status.seq.offs
  add, config, rm, bl,  \* mng.lists
  used,     \* mng.cache.config: nodes in slots, with what they are there for
  blBusy,   \* mng.cache.bl.state # bl_idle
  prov,     \* devices with an address
  done,     \* nodes that are configured
  flag,     \* the RM_Blacklist field of each device
  pc,       \* step of the main loop
  dead,     \* a node_t that does not exist (any more) is used
  \* what happened to the lists after the sync loaded them:
  late,     \* nodes provisioned after the phase that configures them
  reloaded  \* the lists have been loaded again (clrrb)

vars == <<state, prios, offs, add, config, rm, bl, used, blBusy, prov, done,
          flag, pc, dead, late, reloaded>>
hist == <<late, reloaded>>
lists == <<add, config, rm, bl>>
db == <<prov, done, flag>>

Task == [node : Nodes, type : {"config", "rm"}]
Accing == {"adding", "configuring", "removing"}    \* states in which acc_loop runs

-----------------------------------------------------------------------------
(* Lists *)

\* The nodes that load_lists comes to: at the first one the NCP does not have it
\* stops the walk over the nodes, and the sync goes on with what is filed.
Walked(P) == {S \in SUBSET P : S = P \/ "ddb" \in Faults}

\* Mutant: the blacklist and remove flags do not keep a node from configuring.
LoadLists_IgnoreFlag(P, D, F) ==
  \E S \in Walked(P) :
    /\ add' = {n \in Nodes \ P : F[n] = "none"}
    /\ bl' = {n \in S : F[n] = "bl"}
    /\ rm' = {n \in S : F[n] = "rm"}
    /\ config' = S \ D

\* mng_load_lists: __lists_clr, then load_lists on the devices, first those without
\* an address, then the nodes, whose priority is blacklist > remove > config.
LoadLists(P, D, F) ==
  \E S \in Walked(P) :
    /\ add' = {n \in Nodes \ P : F[n] = "none"}
    /\ bl' = {n \in S : F[n] = "bl"}
    /\ rm' = {n \in S : F[n] = "rm"}
    /\ config' = {n \in S \ D : F[n] = "none"}

\* __lists_clr
ListsClr == add' = {} /\ config' = {} /\ rm' = {} /\ bl' = {}

-----------------------------------------------------------------------------
(* poll_cmd *)

Polled == pc = "cmd" /\ pc' = "evt" /\ UNCHANGED <<used, blBusy, late>>

NoCmd == Polled /\ UNCHANGED <<state, prios, offs, lists, db, dead, reloaded>>

\* clicb_sync with 1
SyncStart ==
  /\ Polled /\ "sync 1" \in Commands
  /\ state = "configured"
  /\ state' = "starting"
  /\ UNCHANGED <<prios, offs, lists, db, dead, reloaded>>

\* clicb_sync with 0: the lists are dropped, nothing more is loaded.
SyncStop ==
  /\ Polled /\ "sync 0" \in Commands
  /\ state # "configured"
  /\ ListsClr
  /\ offs' = 3
  /\ UNCHANGED <<state, prios, db, dead, reloaded>>

\* clicb_rmall: mark all nodes, reload the file, kick off a sync.
RmAll ==
  /\ Polled /\ "rmall" \in Commands
  /\ state = "configured"
  /\ flag' = [n \in Nodes |-> IF n \in prov THEN "rm" ELSE flag[n]]
  /\ LoadLists(prov, done, flag')
  /\ state' = "starting"
  /\ UNCHANGED <<prios, offs, prov, done, dead, reloaded>>

\* clicb_rmblclr: unmark all devices that are not nodes and reload, in any state.
\* The reload frees every node_t, the ones the slots and the blacklist hold too.
RmBlClr ==
  /\ Polled /\ "clrrb" \in Commands
  /\ flag' = [n \in Nodes |-> IF n \in prov THEN flag[n] ELSE "none"]
  /\ LoadLists(prov, done, flag')
  /\ dead' = (used # {} \/ blBusy)
  /\ reloaded' = (reloaded \/ state \notin {"configured", "starting"})
  /\ UNCHANGED <<state, prios, offs, prov, done>>

\* clicb_seqset
SeqSet(s) ==
  /\ Polled /\ "seqset" \in Commands
  /\ state = "configured"
  /\ prios' = s
  /\ UNCHANGED <<state, offs, lists, db, dead, reloaded>>

\* The user edits the RM_Blacklist field of a node between two syncs; the next
\* one reloads the file.
Edit(n, f) ==
  /\ pc = "cmd" /\ state = "configured"
  /\ n \in prov
  /\ flag' = [flag EXCEPT ![n] = f]
  /\ UNCHANGED <<state, prios, offs, lists, used, blBusy, prov, done, pc, dead, hist>>

PollCmd == NoCmd \/ SyncStart \/ SyncStop \/ RmAll \/ RmBlClr \/ \E s \in Orders : SeqSet(s)

-----------------------------------------------------------------------------
(* bgevt_dispenser *)

\* on_prov_success, let through by dev_add_hdr
Provisioned(n) ==
  /\ pc = "evt"
  /\ state = "adding" \/ FreeMode
  /\ n \notin prov /\ flag[n] = "none"
  /\ prov' = prov \cup {n}
  /\ add' = add \ {n}
  /\ config' = config \cup {n}
  /\ late' = IF state \in {"removing", "blacklisting"} THEN late \cup {n} ELSE late
  /\ UNCHANGED <<state, prios, offs, rm, bl, used, blBusy, done, flag, pc, dead, reloaded>>

NoMoreEvents ==
  /\ pc = "evt" /\ pc' = "work"
  /\ UNCHANGED <<state, prios, offs, lists, used, blBusy, db, dead, hist>>

-----------------------------------------------------------------------------
(* mng_mainloop: the work of the state *)

\* starting: the file was edited or not, the lists are loaded either way.
Load ==
  /\ pc = "work" /\ pc' = "sched"
  /\ state = "starting"
  /\ LoadLists(prov, done, flag)
  /\ UNCHANGED <<state, prios, offs, used, blBusy, db, dead, hist>>

\* Mutant: a removed node keeps its done field.
AccEnd_KeepDone(t, ok) ==
  /\ pc = "work" /\ state \in Accing
  /\ t \in used
  /\ used' = used \ {t}
  /\ IF ~ok THEN UNCHANGED <<prov, done>>
     ELSE IF t.type = "config" THEN done' = done \cup {t.node} /\ UNCHANGED prov
     ELSE prov' = prov \ {t.node} /\ UNCHANGED done
  /\ UNCHANGED <<state, prios, offs, lists, blBusy, flag, pc, dead, hist>>

\* acc_loop, a slot comes to its end.
AccEnd(t, ok) ==
  /\ pc = "work" /\ state \in Accing
  /\ t \in used
  /\ used' = used \ {t}
  /\ IF ~ok THEN UNCHANGED <<prov, done>>
     ELSE IF t.type = "config" THEN done' = done \cup {t.node} /\ UNCHANGED prov
     ELSE prov' = prov \ {t.node} /\ done' = done \ {t.node}
  /\ UNCHANGED <<state, prios, offs, lists, blBusy, flag, pc, dead, hist>>

\* acc_loop, __caches_load: free slots are filled from the list of the state.
AccLoad ==
  LET type == IF state = "removing" THEN "rm" ELSE "config"
      list == IF state = "removing" THEN rm ELSE config
      free == MaxConcurrent - Cardinality(used)
  IN
  /\ pc = "work" /\ pc' = "sched"
  /\ state \in Accing
  /\ \E S \in SUBSET list :
       /\ Cardinality(S) <= free
       /\ Cardinality(S) = free \/ S = list
       /\ used' = used \cup [node : S, type : {type}]
       /\ IF type = "rm" THEN rm' = rm \ S /\ UNCHANGED config
                         ELSE config' = config \ S /\ UNCHANGED rm
  /\ UNCHANGED <<state, prios, offs, add, bl, blBusy, db, dead, hist>>

\* bl_loop: start, or go on.
BlLoop ==
  /\ pc = "work" /\ pc' = "sched"
  /\ state = "blacklisting"
  /\ blBusy' = (blBusy \/ bl # {})
  /\ UNCHANGED <<state, prios, offs, lists, used, db, dead, hist>>

\* bl_loop in state bl_done: on_bl_done takes the pushed nodes out of lists.bl,
\* which `sync 0' may have cleared in the meantime.
BlDone ==
  /\ pc = "work" /\ state = "blacklisting" /\ blBusy
  /\ dead' = (bl = {})
  /\ prov' = prov \ bl /\ done' = done \ bl
  /\ bl' = {}
  /\ blBusy' = FALSE
  /\ UNCHANGED <<state, prios, offs, add, config, rm, used, flag, pc, hist>>

Idle ==
  /\ pc = "work" /\ pc' = "sched"
  /\ state = "configured"
  /\ UNCHANGED <<state, prios, offs, lists, used, blBusy, db, dead, hist>>

-----------------------------------------------------------------------------
(* set_mng_state *)

\* Mutant: configuring is over when its list is empty, whatever the slots do.
Unfinished_NoSlots ==
  CASE state = "adding"       -> add # {}
    [] state = "configuring"  -> config # {}
    [] state = "removing"     -> rm # {} \/ used # {}
    [] state = "blacklisting" -> rm # {} \/ blBusy
    [] OTHER -> state = "configured"

\* Mutant: removing looks at the list of configurations.
Unfinished_WrongList ==
  CASE state = "adding"       -> add # {}
    [] state = "configuring"  -> config # {} \/ used # {}
    [] state = "removing"     -> config # {} \/ used # {}
    [] state = "blacklisting" -> rm # {} \/ blBusy
    [] OTHER -> state = "configured"

\* The early returns: the state goes on.
Unfinished ==
  CASE state = "adding"       -> add # {}
    [] state = "configuring"  -> config # {} \/ used # {}
    [] state = "removing"     -> rm # {} \/ used # {}
    [] state = "blacklisting" -> rm # {} \/ blBusy
    [] OTHER -> state = "configured"

\* The state that one letter of the order asks for, "none" if it has no work.
Loads(letter) ==
  CASE letter = "a" /\ add # {}                 -> "adding"
    [] letter = "a" /\ add = {} /\ config # {}  -> "configuring"
    [] letter = "r" /\ rm # {}                  -> "removing"
    [] letter = "b" /\ bl # {}                  -> "blacklisting"
    [] OTHER                                    -> "none"

\* Mutant: an action without work ends the sequence as "-" does.
NextOffs_StopEarly(from) ==
  {o \in from..2 : o = from /\ Loads(prios[o + 1]) # "none" /\ prios[o + 1] # "-"}

\* The position at which the loop finds work; none if "-" comes before.
NextOffs(from) ==
  {o \in from..2 : /\ Loads(prios[o + 1]) # "none"
                   /\ \A q \in from..(o - 1) : Loads(prios[q + 1]) = "none"
                   /\ \A q \in from..o : prios[q + 1] # "-"}

SetMngState ==
  LET from == IF state = "starting" THEN 0 ELSE offs IN
  /\ pc = "sched" /\ pc' = "cmd"
  /\ IF Unfinished
       THEN UNCHANGED <<state, offs>>
     ELSE IF state = "adding" /\ (config # {} \/ used # {})
       THEN state' = "configuring" /\ UNCHANGED offs
     ELSE IF NextOffs(from) # {}
       THEN \E o \in NextOffs(from) : state' = Loads(prios[o + 1]) /\ offs' = o + 1
     ELSE state' = "configured" /\ offs' = 0
  /\ late' = IF state' = "configured" THEN {} ELSE late
  /\ reloaded' = (reloaded /\ state' # "configured")
  /\ UNCHANGED <<prios, lists, used, blBusy, db, dead>>

-----------------------------------------------------------------------------
Init ==
  /\ state = "configured" /\ offs = 0
  /\ prios \in Orders
  /\ add = {} /\ config = {} /\ rm = {} /\ bl = {}
  /\ used = {} /\ blBusy = FALSE
  /\ prov = {} /\ done = {}
  /\ flag = [n \in Nodes |-> "none"]
  /\ pc = "cmd" /\ dead = FALSE
  /\ late = {} /\ reloaded = FALSE

Work == Load \/ AccLoad \/ BlLoop \/ Idle

Round == PollCmd \/ NoMoreEvents \/ Work \/ SetMngState

Next ==
  /\ ~dead
  /\ \/ Round
     \/ \E n \in Nodes, f \in {"rm", "bl"} : Edit(n, f)
     \/ \E n \in Nodes : Provisioned(n)
     \/ \E t \in used, ok \in BOOLEAN : AccEnd(t, ok)
     \/ BlDone

Spec == Init /\ [][Next]_vars

(***************************************************************************)
(* The loop goes on; a device that is to be added shows up and gets        *)
(* provisioned in the end; a slot comes to its end (EveryNodeEnds of       *)
(* AccEngine); key refresh completes.                                      *)
(***************************************************************************)
Fairness ==
  /\ WF_vars(~dead /\ Round)
  /\ \A n \in Nodes : SF_vars(~dead /\ Provisioned(n))
  /\ \A t \in Task : SF_vars(~dead /\ \E ok \in BOOLEAN : AccEnd(t, ok))
  /\ SF_vars(~dead /\ BlDone)

FairSpec == Spec /\ Fairness

-----------------------------------------------------------------------------
(* Properties *)

\* Types of the scheduler's variables (mng_t).
TypeOK ==
  /\ state \in {"configured", "starting", "blacklisting"} \cup Accing
  /\ prios \in Orders /\ offs \in 0..3
  /\ add \subseteq Nodes /\ config \subseteq Nodes /\ rm \subseteq Nodes /\ bl \subseteq Nodes
  /\ used \subseteq Task /\ Cardinality(used) <= MaxConcurrent
  /\ blBusy \in BOOLEAN /\ dead \in BOOLEAN
  /\ prov \subseteq Nodes /\ done \subseteq prov
  /\ flag \in [Nodes -> {"none", "rm", "bl"}]
  /\ pc \in {"cmd", "evt", "work", "sched"}
  /\ late \subseteq Nodes /\ reloaded \in BOOLEAN

\* The three kinds of work exclude each other: slots hold removals only while
\* removing and configurations only while adding or configuring, and key refresh
\* runs only while blacklisting, with all slots free.
WorkMatchesState ==
  /\ \A t \in used : IF t.type = "rm" THEN state = "removing"
                                      ELSE state \in {"adding", "configuring"}
  /\ blBusy => state = "blacklisting"

\* A node that is marked for removal or blacklisting is not configured: it is in
\* no slot for that, whatever was loaded before it was marked.
MarkedNotConfigured ==
  \A t \in used : t.type = "config" => flag[t.node] = "none"

\* Letter l is in the order before the first "-".
Asked(l) == \E o \in 1..3 : prios[o] = l /\ \A q \in 1..o : prios[q] # "-"

\* "Sync Done" is only reported when there is nothing left to do in the actions
\* the order names, and none of it is still going on.  The one thing that may be
\* left is to configure devices that got provisioned too late for this sync, and
\* whatever clrrb brings back when it loads the lists in the middle of it.  (A node
\* that load_lists did not come to is in no list: it is left undone, silently.)
SyncDoneMeansDone ==
  [][state # "configured" /\ state' = "configured" =>
       /\ used = {} /\ ~blBusy
       /\ ~reloaded => /\ Asked("a") => add = {} /\ config \subseteq late
                       /\ Asked("r") => rm = {}
                       /\ Asked("b") => bl = {}]_vars

\* Stopping a sync at any moment is safe: README, "Start or stop synchronizing".
StopIsSafe == ~dead

\* A sync comes to its end: README, "Type "sync", once it finishes, you will get
\* the result", and mng.c:215.
SyncFinishes == (state = "starting") ~> (state = "configured")

\* Everything that is to be removed is removed before blacklisting begins.
RemovesFirst ==
  \A b \in 1..3 : prios[b] = "b" /\ Asked("b") => \E r \in 1..b : prios[r] = "r"

\* A sync whose order removes before it blacklists comes to its end, whatever
\* commands the user gives meanwhile, unless a stop or clrrb brings the program
\* down (StopIsSafe) or clrrb loads work again and again.
SyncFinishesInOrder ==
  (state = "starting" /\ RemovesFirst) ~> (state = "configured" \/ dead \/ reloaded)

\* If everything is removed before blacklisting begins, nothing is left in lists.rm, at
\* which set_mng_state looks to see whether blacklisting is over.
NotHeldUp == state = "blacklisting" /\ RemovesFirst /\ ~reloaded => rm = {}

\* Without a stop or clrrb, a node in lists.rm makes blacklisting go on for ever.
HeldUp == [][state = "blacklisting" /\ rm # {} => state' = state /\ rm' = rm]_vars
=============================================================================
