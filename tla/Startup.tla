------------------------------ MODULE Startup -------------------------------
(***************************************************************************)
(* Start-up, reset and factory reset: utils/startup.c, mng/nwk.c and the   *)
(* control fields of the configuration files (cfg/parser).                 *)
(*                                                                         *)
(* The network lives twice: in the NCP target, and in the control fields   *)
(* of two files, `done' of each key and the address of each node.  Every   *)
(* start compares them and completes what is missing; a factory reset      *)
(* clears both.  The process may end at any step; what it wrote stays.     *)
(*                                                                         *)
(* A file is always written as a whole from memory, so that memory and     *)
(* file agree but for the steps named here.  The NCP target is external.   *)
(***************************************************************************)
EXTENDS Naturals, FiniteSets

CONSTANTS
  Nodes,    \* devices of the network configuration file
  NumKeys,  \* appkey_num: application keys in the provisioner's file
  Cap,      \* application keys the NCP has room for
  Faults    \* "crash": the process ends; "init", "key", "client", "erase": the NCP
            \* refuses a call about the network, an application key, a client model,
            \* its flash; "flush": the provisioner's file cannot be written

ASSUME StartupAssumption ==
  /\ IsFiniteSet(Nodes)
  /\ NumKeys \in Nat /\ Cap \in Nat
  /\ Faults \subseteq {"crash", "init", "key", "client", "erase", "flush"}

VARIABLES
  pc,      \* step of cli_proc
  state,   \* mng.state; "busy" stands for starting and everything above
  addr,    \* provisioner's file: address
  net,     \* ... done of the network key
  keys,    \* ... application keys that are done
  nodes,   \* network configuration file: nodes with an address
  ncpAddr, ncpNet, ncpKeys,  \* NCP: its address, the network exists, its keys
  ddb,     \* NCP: devices in its database
  i,       \* new_appkeys: the key it is at
  active,  \* active_appkey_num
  pend,    \* NCP: devices it provisioned, the event is not handled yet
  del,     \* as_rmend: nodes out of the file and not yet out of the NCP's database
  failed,  \* history: the NCP or the file system failed since the last start
  forced   \* history: a sync was started before the network was configured

vars == <<pc, state, addr, net, keys, nodes, ncpAddr, ncpNet, ncpKeys, ddb, i,
          active, pend, del, failed, forced>>
file == <<addr, net, keys, nodes>>
ncp == <<ncpAddr, ncpNet, ncpKeys, ddb>>
hist == <<failed, forced>>
work == <<pend, del>>

Keys == 1..NumKeys
Steps == {"clrprov", "clrnodes", "erase", "ncp", "cfg", "prov", "net", "netkey", "netdone",
          "appkey", "appdone", "client"}

-----------------------------------------------------------------------------
(* Start, end and reset of the process *)

\* main
Start ==
  /\ pc = "down" /\ pc' = "ncp"
  /\ state' = "nil" /\ active' = 0
  /\ UNCHANGED <<file, ncp, i, work, hist>>

\* The process ends: exit on an error of an init function, clicb_quit, a crash.
\* What memory held is gone, the events in the queue with it.
End ==
  /\ pc' = "down" /\ state' = "nil"
  /\ pend' = {} /\ del' = {}

Quit == pc = "run" /\ End /\ UNCHANGED <<file, ncp, i, active, hist>>

Crash ==
  /\ "crash" \in Faults /\ pc # "down"
  /\ End
  /\ UNCHANGED <<file, ncp, i, active, hist>>

\* clicb_reset, longjmp to cli_proc: the thread of the manager is cancelled.
Reset(factory) ==
  /\ pc = "run"
  /\ pc' = IF factory THEN "clrprov" ELSE "ncp"
  /\ state' = "nil"
  /\ pend' = {} /\ del' = {}
  /\ UNCHANGED <<file, ncp, i, active, hist>>

-----------------------------------------------------------------------------
(* clr_all *)

NcpErased == ncpAddr' = "none" /\ ncpNet' = FALSE /\ ncpKeys' = {} /\ ddb' = {}

\* Mutant: the flash of the NCP is erased before the files are cleared.
ClrProv_EraseFirst ==
  /\ pc = "clrprov" /\ pc' = "clrnodes"
  /\ NcpErased
  /\ UNCHANGED <<state, file, i, active, work, hist>>

\* __provself_clrctl
ClrProv ==
  /\ pc = "clrprov" /\ pc' = "clrnodes"
  /\ addr' = "none" /\ net' = FALSE /\ keys' = {}
  /\ UNCHANGED <<state, nodes, ncp, i, active, work, hist>>

\* nodes_clrctl
ClrNodes ==
  /\ pc = "clrnodes" /\ pc' = "erase"
  /\ nodes' = {}
  /\ UNCHANGED <<state, addr, net, keys, ncp, i, active, work, hist>>

\* Mutant: it is not noticed that the flash could not be erased.
EraseAll_Ignore ==
  /\ pc = "erase" /\ pc' = "ncp"
  /\ NcpErased \/ ("erase" \in Faults /\ UNCHANGED ncp)
  /\ UNCHANGED <<state, file, i, active, work, hist>>

\* The flash of the NCP is erased; if that fails, the process ends.
EraseAll ==
  /\ pc = "erase"
  /\ \/ /\ pc' = "ncp"
        /\ NcpErased
        /\ UNCHANGED <<state, work>>
     \/ "erase" \in Faults /\ End /\ UNCHANGED ncp
  /\ UNCHANGED <<file, i, active, hist>>

-----------------------------------------------------------------------------
(* init_ncp, cfg_init, mng_init *)

\* sync_host_and_ncp_target: the NCP is reset until it reports its boot.
SyncHostAndNcp ==
  /\ pc = "ncp" /\ pc' = "cfg"
  /\ UNCHANGED <<state, file, ncp, i, active, work, hist>>

\* cfg_init reads the files, mng_init clears mng.
MngInit ==
  /\ pc = "cfg" /\ pc' = "prov"
  /\ state' = "nil"
  /\ failed' = FALSE /\ forced' = FALSE
  /\ UNCHANGED <<file, ncp, i, active, work>>

-----------------------------------------------------------------------------
(* nwk_init *)

\* nwk_init returns an error, which is only logged: the thread of the manager is
\* started all the same.
GiveUp == pc' = "run" /\ failed' = TRUE

Continue(step) == pc' = step /\ UNCHANGED failed

ProvInit ==
  /\ pc = "prov"
  /\ \/ Continue("net") /\ state' = "initialized"
     \/ "init" \in Faults /\ GiveUp /\ UNCHANGED state
  /\ UNCHANGED <<file, ncp, i, active, work, forced>>

\* on_initialized_config: the NCP has no network and an address (or an IV index,
\* left out here) is asked for.
\* `already initialized', from a start that did not get further, is fine.
InitializeNetwork ==
  /\ pc = "net" /\ ~ncpNet
  /\ \/ /\ Continue("netkey")
        /\ ncpAddr' = IF ncpAddr = "none" THEN addr ELSE ncpAddr
     \/ /\ addr # "none" /\ "init" \in Faults
        /\ GiveUp /\ UNCHANGED ncpAddr
  /\ UNCHANGED <<state, file, ncpNet, ncpKeys, ddb, i, active, work, forced>>

\* Mutant: any network of the NCP is a mismatch.
NetkeyMismatch_Always ==
  /\ pc = "net" /\ ncpNet
  /\ pc' = "run"
  /\ UNCHANGED <<state, file, ncp, i, active, work, hist>>

\* "**NETKEY MISMATCH**, NEED FACTORY RESET?"
NetkeyMismatch ==
  /\ pc = "net" /\ ncpNet /\ ~net
  /\ pc' = "run"
  /\ UNCHANGED <<state, file, ncp, i, active, work, hist>>

\* The network exists and the file knows: take over the address of the NCP.
AdoptAddress ==
  /\ pc = "net" /\ ncpNet /\ net
  /\ \/ Continue("netkey") /\ addr' = ncpAddr
     \/ addr # ncpAddr /\ "flush" \in Faults /\ GiveUp /\ UNCHANGED addr
  /\ UNCHANGED <<state, net, keys, nodes, ncp, i, active, work, forced>>

\* new_netkey: done, or create it.  Without an address the NCP takes its own.
NewNetkey ==
  /\ pc = "netkey"
  /\ \/ net /\ Continue("appkey") /\ i' = 1 /\ UNCHANGED <<ncpNet, ncpAddr>>
     \/ /\ ~net /\ Continue("netdone")
        /\ ncpNet' = TRUE
        /\ ncpAddr' = IF ncpAddr = "none" THEN "default" ELSE ncpAddr
        /\ UNCHANGED i
     \/ ~net /\ "init" \in Faults /\ GiveUp /\ UNCHANGED <<ncpNet, ncpAddr, i>>
  /\ UNCHANGED <<state, file, ncpKeys, ddb, active, work, forced>>

\* new_netkey, provset_netkeydone
NetkeyDone ==
  /\ pc = "netdone"
  /\ \/ Continue("appkey") /\ net' = TRUE /\ i' = 1
     \/ "flush" \in Faults /\ GiveUp /\ UNCHANGED <<net, i>>
  /\ UNCHANGED <<state, addr, keys, nodes, ncp, active, work, forced>>

\* Mutant: a key that the NCP has no room for counts as done.
NewAppkey_CountAll ==
  /\ pc = "appkey" /\ i \in Keys
  /\ Continue("appdone")
  /\ ncpKeys' = IF Cardinality(ncpKeys) < Cap THEN ncpKeys \cup {i} ELSE ncpKeys
  /\ UNCHANGED <<state, file, ncpAddr, ncpNet, ddb, i, active, work, forced>>

\* new_appkeys, one round of its loop: the key is done, gets created or exists
\* from an earlier start, or is refused.
NewAppkey ==
  /\ pc = "appkey" /\ i \in Keys
  /\ \/ i \in keys /\ Continue("appkey") /\ i' = i + 1 /\ UNCHANGED ncpKeys
     \/ /\ i \notin keys
        /\ i \in ncpKeys \/ Cardinality(ncpKeys) < Cap
        /\ Continue("appdone")
        /\ ncpKeys' = ncpKeys \cup {i}
        /\ UNCHANGED i
     \/ /\ i \notin keys \cup ncpKeys
        /\ Cardinality(ncpKeys) >= Cap \/ "key" \in Faults
        /\ Continue("appkey") /\ i' = i + 1 /\ UNCHANGED ncpKeys
  /\ UNCHANGED <<state, file, ncpAddr, ncpNet, ddb, active, work, forced>>

\* new_appkeys, provset_appkeydone
AppkeyDone ==
  /\ pc = "appdone"
  /\ \/ Continue("appkey") /\ keys' = keys \cup {i} /\ i' = i + 1
     \/ "flush" \in Faults /\ GiveUp /\ UNCHANGED <<keys, i>>
  /\ UNCHANGED <<state, addr, net, nodes, ncp, active, work, forced>>

\* Mutant: the index behind the last key is taken for the number of keys.
Configured_Index ==
  /\ pc = "appkey" /\ i \notin Keys
  /\ Continue("client")
  /\ active' = i
  /\ state' = "configured"
  /\ ddb' = ddb \cap nodes
  /\ UNCHANGED <<file, ncpAddr, ncpNet, ncpKeys, i, work, forced>>

\* The end of new_appkeys; nwk_init goes on and loads the lists, as Sync does.
Configured ==
  /\ pc = "appkey" /\ i \notin Keys
  /\ Continue("client")
  /\ active' = Cardinality(keys)
  /\ state' = "configured"
  /\ ddb' = ddb \cap nodes
  /\ UNCHANGED <<file, ncpAddr, ncpNet, ncpKeys, i, work, forced>>

\* The client models are initialized; the thread of the manager is started.
ClientInit ==
  /\ pc = "client"
  /\ \/ Continue("run")
     \/ "client" \in Faults /\ GiveUp
  /\ UNCHANGED <<state, file, ncp, i, active, work, forced>>

-----------------------------------------------------------------------------
(* The manager at work *)

\* clicb_sync: whatever came of nwk_init.  load_lists takes the devices without
\* an address out of the NCP's database (DevAdd has sessions that outlive a sync).
Sync ==
  /\ pc = "run" /\ state # "busy"
  /\ state' = "busy"
  /\ forced' = (forced \/ state # "configured")
  /\ ddb' = ddb \cap nodes
  /\ UNCHANGED <<pc, file, ncpAddr, ncpNet, ncpKeys, i, active, work, failed>>

\* "Sync Done"
SyncDone ==
  /\ pc = "run" /\ state = "busy" /\ pend = {} /\ del = {}
  /\ state' = "configured"
  /\ UNCHANGED <<pc, file, ncp, i, active, work, hist>>

\* The NCP has provisioned a device.
Provisioned(n) ==
  /\ pc = "run" /\ state = "busy" /\ ncpNet
  /\ n \notin ddb
  /\ ddb' = ddb \cup {n}
  /\ pend' = pend \cup {n}
  /\ UNCHANGED <<pc, state, file, ncpAddr, ncpNet, ncpKeys, i, active, del, hist>>

\* on_prov_success, upl_nodeset_addr
AddressSet(n) ==
  /\ pc = "run" /\ n \in pend
  /\ pend' = pend \ {n}
  /\ nodes' = nodes \cup {n}
  /\ UNCHANGED <<pc, state, addr, net, keys, ncp, i, active, del, hist>>

\* as_rmend: nodes_rm, ...
NodesRm(n) ==
  /\ pc = "run" /\ state = "busy" /\ del = {}
  /\ n \in nodes
  /\ nodes' = nodes \ {n}
  /\ del' = {n}
  /\ UNCHANGED <<pc, state, addr, net, keys, ncp, i, active, pend, hist>>

\* ... then ddb_delete, in the same thread.
DdbDelete(n) ==
  /\ pc = "run" /\ n \in del
  /\ del' = {}
  /\ ddb' = ddb \ {n}
  /\ UNCHANGED <<pc, state, file, ncpAddr, ncpNet, ncpKeys, i, active, pend, hist>>

-----------------------------------------------------------------------------
Init ==
  /\ pc = "down" /\ state = "nil"
  /\ addr \in {"none", "user"} /\ net = FALSE /\ keys = {} /\ nodes = {}
  /\ ncpAddr = "none" /\ ncpNet = FALSE /\ ncpKeys = {} /\ ddb = {}
  /\ i = 1 /\ active = 0
  /\ pend = {} /\ del = {}
  /\ failed = FALSE /\ forced = FALSE

ClrAll == ClrProv \/ ClrNodes \/ EraseAll

NwkInit ==
  \/ ProvInit \/ InitializeNetwork \/ NetkeyMismatch \/ AdoptAddress
  \/ NewNetkey \/ NetkeyDone \/ NewAppkey \/ AppkeyDone \/ Configured \/ ClientInit

Boot == ClrAll \/ SyncHostAndNcp \/ MngInit \/ NwkInit

Manager ==
  \/ Sync \/ SyncDone
  \/ \E n \in Nodes : Provisioned(n) \/ AddressSet(n) \/ NodesRm(n) \/ DdbDelete(n)

Next ==
  \/ Start \/ Quit \/ Crash
  \/ \E factory \in BOOLEAN : Reset(factory)
  \/ Boot \/ Manager

\* cli_proc goes on: no call of the NCP blocks for ever.
Spec == Init /\ [][Next]_vars /\ WF_vars(Boot)

-----------------------------------------------------------------------------
(* Properties *)

\* Types of the state of a start.
TypeOK ==
  /\ pc \in Steps \cup {"down", "run"}
  /\ state \in {"nil", "initialized", "configured", "busy"}
  /\ {addr, ncpAddr} \subseteq {"none", "user", "default"}
  /\ net \in BOOLEAN /\ ncpNet \in BOOLEAN
  /\ keys \subseteq Keys /\ ncpKeys \subseteq Keys
  /\ nodes \subseteq Nodes /\ ddb \subseteq Nodes
  /\ i \in 1..(NumKeys + 1) /\ active \in 0..NumKeys
  /\ pend \subseteq Nodes /\ del \subseteq Nodes
  /\ failed \in BOOLEAN /\ forced \in BOOLEAN

\* The files never claim what the NCP does not have, wherever a start, a removal
\* or a factory reset is cut off: a key is marked done and a node gets its address
\* after the NCP has them, and loses them before (new_netkey, new_appkeys,
\* as_rmend, clr_all).  Otherwise the next start would not create them again.
FileFollowsNcp ==
  /\ net => ncpNet
  /\ keys \subseteq ncpKeys
  /\ nodes \subseteq ddb

\* The manager gets to `configured' only with a network of its own: the NCP has it,
\* the file knows it and asks for no other address, and the keys that
\* appkey_by_refid looks at, the first active_appkey_num, exist in the NCP, as long
\* as it only refuses keys it has no room for.  A sync that is started before is
\* not held back by anything, and is the exception.
ConfiguredMeansReady ==
  state \in {"configured", "busy"} /\ ~forced =>
    /\ ncpNet /\ net
    /\ addr \in {"none", ncpAddr}
    /\ "key" \notin Faults => 1..active \subseteq ncpKeys

\* A start that fails without an error of the NCP or the file system does so because
\* an earlier one was cut off between creating the network and noting that, or a
\* factory reset before erasing the NCP: "NEED FACTORY RESET?" is the right question.
StuckOnlyOnMismatch ==
  pc = "run" /\ state \in {"nil", "initialized"} /\ ~failed => ncpNet /\ ~net

\* ... and a factory reset is the right answer: it ends with the network configured,
\* unless something fails again.
FactoryResetRecovers ==
  (pc = "erase") ~> (pc = "down" \/ (pc = "run" /\ (failed \/ state = "configured")))
=============================================================================
