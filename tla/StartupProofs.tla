--------------------------- MODULE StartupProofs ----------------------------
(***************************************************************************)
(* Proofs about Startup: a start, a reset or a factory reset that is cut   *)
(* off anywhere leaves files that claim nothing the NCP does not have, and *)
(* the one way to get stuck is the mismatch the program reports.           *)
(***************************************************************************)
EXTENDS Startup, FiniteSetTheorems, TLAPS

-----------------------------------------------------------------------------
(* The inductive invariant *)

\* What a step of cli_proc may rely on when it writes to a file: the NCP already
\* has it; and, before the flash is erased, that the files are cleared.
StepKnows ==
  /\ pc = "netdone" => ncpNet
  /\ pc \in {"appkey", "appdone", "client"} => net
  /\ pc = "appdone" => i \in Keys /\ i \in ncpKeys
  /\ pc \in {"clrnodes", "erase"} => ~net /\ keys = {}
  /\ pc = "erase" => nodes = {}

\* The work of the manager in progress: there is none outside of a sync.
WorkKnows ==
  /\ pend \subseteq ddb /\ del \subseteq ddb
  /\ del \cap (nodes \cup pend) = {}
  /\ pend \cap nodes = {}
  /\ ~(pc = "run" /\ state = "busy") => pend = {} /\ del = {}

\* A start that gets to the manager without being configured gave up, or found the
\* mismatch; a configured one knows its network.
StateKnows ==
  /\ pc = "run" /\ state \in {"nil", "initialized"} /\ ~failed => ncpNet /\ ~net
  /\ state \in {"configured", "busy"} => pc \in {"client", "run"}
  /\ state \in {"configured", "busy"} /\ ~forced => net
  /\ pc = "client" => state = "configured"
  /\ pc \in Steps \ {"prov", "client", "net"} => state \in {"nil", "initialized"}

\* The address of the NCP is the one the file asks for, if it asks for one.
AddrKnows ==
  /\ addr = "none" \/ ncpAddr \in {"none", addr}
  /\ ncpNet => ncpAddr # "none"
  /\ pc \in {"netkey", "netdone", "appkey", "appdone", "client"} /\ ncpAddr = "none" =>
       addr = "none"

\* The NCP has the keys from the first one on, up to its capacity: the loop of
\* new_appkeys has left a key out only if there was no room for it.
KeysKnow ==
  "key" \notin Faults =>
    /\ \E k \in 0..NumKeys : ncpKeys = 1..k
    /\ pc \in {"appkey", "appdone"} =>
         1..(i - 1) \subseteq ncpKeys \/ Cardinality(ncpKeys) >= Cap
    /\ state \in {"configured", "busy"} /\ ~forced => 1..active \subseteq ncpKeys

IInv == TypeOK /\ FileFollowsNcp /\ StepKnows /\ WorkKnows /\ StateKnows /\ AddrKnows

-----------------------------------------------------------------------------
(* Every step preserves it *)

\* The loop of new_appkeys counts from the first key to the one behind the last.
LEMMA KeyIndex ==
  /\ 1 \in 1..(NumKeys + 1) /\ 0 \in 0..NumKeys
  /\ \A k \in Keys : k + 1 \in 1..(NumKeys + 1)
  BY StartupAssumption DEF StartupAssumption, Keys

\* active_appkey_num is at most appkey_num.
LEMMA KeyCount == ASSUME NEW S, S \subseteq Keys PROVE Cardinality(S) \in 0..NumKeys
<1>1. NumKeys \in Nat
  BY StartupAssumption DEF StartupAssumption
<1>2. IsFiniteSet(Keys) /\ Cardinality(Keys) = NumKeys
  BY <1>1, FS_Interval DEF Keys
<1> QED
  BY <1>1, <1>2, FS_Subset, FS_CardinalityType

\* The first start finds no network and nothing noted.
LEMMA InitIInv == Init => IInv
<1> SUFFICES ASSUME Init PROVE IInv
  OBVIOUS
<1>1. TypeOK
  BY StartupAssumption, KeyIndex DEF StartupAssumption, Init, TypeOK, Steps
<1>2. FileFollowsNcp /\ StepKnows /\ WorkKnows /\ StateKnows /\ AddrKnows
  BY DEF Init, FileFollowsNcp, StepKnows, WorkKnows, StateKnows, AddrKnows, Steps
<1> QED
  BY <1>1, <1>2 DEF IInv

\* Types
LEMMA TypeStep ==
  ASSUME TypeOK, StepKnows, [Next]_vars PROVE TypeOK'
<1> USE KeyIndex, KeyCount DEF TypeOK, StepKnows, Steps, file, ncp, hist, work
<1>1. CASE Start \/ Quit \/ Crash \/ \E factory \in BOOLEAN : Reset(factory)
  BY <1>1 DEF Start, Quit, Crash, Reset, End
<1>2. CASE ClrAll
  BY <1>2 DEF ClrAll, ClrProv, ClrNodes, EraseAll, End, NcpErased
<1>3. CASE SyncHostAndNcp \/ MngInit \/ ProvInit
  BY <1>3 DEF SyncHostAndNcp, MngInit, ProvInit, GiveUp, Continue
<1>4. CASE InitializeNetwork \/ NetkeyMismatch \/ AdoptAddress
  BY <1>4 DEF InitializeNetwork, NetkeyMismatch, AdoptAddress, GiveUp, Continue
<1>5. CASE NewNetkey \/ NetkeyDone
  BY <1>5 DEF NewNetkey, NetkeyDone, GiveUp, Continue
<1>6. CASE NewAppkey \/ AppkeyDone
  BY <1>6 DEF NewAppkey, AppkeyDone, GiveUp, Continue
<1>7. CASE Configured \/ ClientInit
  BY <1>7 DEF Configured, ClientInit, GiveUp, Continue
<1>8. CASE Sync \/ SyncDone
  BY <1>8 DEF Sync, SyncDone
<1>9. CASE \E n \in Nodes : Provisioned(n) \/ AddressSet(n)
  BY <1>9 DEF Provisioned, AddressSet
<1>10. CASE \E n \in Nodes : NodesRm(n) \/ DdbDelete(n)
  BY <1>10 DEF NodesRm, DdbDelete
<1>11. CASE UNCHANGED vars
  BY <1>11 DEF vars
<1> QED
  BY <1>1, <1>2, <1>3, <1>4, <1>5, <1>6, <1>7, <1>8, <1>9, <1>10, <1>11
     DEF Next, Boot, NwkInit, Manager

\* What is noted was created before, and is taken back before it is deleted.
LEMMA FileStep ==
  ASSUME FileFollowsNcp, StepKnows, WorkKnows, [Next]_vars PROVE FileFollowsNcp'
<1> USE DEF FileFollowsNcp, StepKnows, WorkKnows, file, ncp, hist, work
<1>1. CASE Start \/ Quit \/ Crash \/ \E factory \in BOOLEAN : Reset(factory)
  BY <1>1 DEF Start, Quit, Crash, Reset, End
<1>2. CASE ClrAll
  BY <1>2 DEF ClrAll, ClrProv, ClrNodes, EraseAll, End, NcpErased
<1>3. CASE SyncHostAndNcp \/ MngInit \/ ProvInit
  BY <1>3 DEF SyncHostAndNcp, MngInit, ProvInit, GiveUp, Continue
<1>4. CASE InitializeNetwork \/ NetkeyMismatch \/ AdoptAddress
  BY <1>4 DEF InitializeNetwork, NetkeyMismatch, AdoptAddress, GiveUp, Continue
<1>5. CASE NewNetkey \/ NetkeyDone
  BY <1>5 DEF NewNetkey, NetkeyDone, GiveUp, Continue
<1>6. CASE NewAppkey \/ AppkeyDone
  BY <1>6 DEF NewAppkey, AppkeyDone, GiveUp, Continue
<1>7. CASE Configured \/ ClientInit
  BY <1>7 DEF Configured, ClientInit, GiveUp, Continue
<1>8. CASE Sync \/ SyncDone
  BY <1>8 DEF Sync, SyncDone
<1>9. CASE \E n \in Nodes : Provisioned(n) \/ AddressSet(n)
  BY <1>9 DEF Provisioned, AddressSet
<1>10. CASE \E n \in Nodes : NodesRm(n) \/ DdbDelete(n)
  BY <1>10 DEF NodesRm, DdbDelete
<1>11. CASE UNCHANGED vars
  BY <1>11 DEF vars
<1> QED
  BY <1>1, <1>2, <1>3, <1>4, <1>5, <1>6, <1>7, <1>8, <1>9, <1>10, <1>11
     DEF Next, Boot, NwkInit, Manager

\* Each step finds what the one before it left.
LEMMA StepStep ==
  ASSUME TypeOK, StepKnows, [Next]_vars PROVE StepKnows'
<1> USE DEF TypeOK, StepKnows, Keys, Steps, file, ncp, hist, work
<1>1. CASE Start \/ Quit \/ Crash \/ \E factory \in BOOLEAN : Reset(factory)
  BY <1>1 DEF Start, Quit, Crash, Reset, End
<1>2. CASE ClrAll
  <2>1. CASE ClrProv
    BY <2>1 DEF ClrProv
  <2>2. CASE ClrNodes
    BY <2>2 DEF ClrNodes
  <2>3. CASE EraseAll
    BY <2>3 DEF EraseAll, End, NcpErased
  <2> QED
    BY <1>2, <2>1, <2>2, <2>3 DEF ClrAll
<1>3. CASE SyncHostAndNcp \/ MngInit \/ ProvInit
  BY <1>3 DEF SyncHostAndNcp, MngInit, ProvInit, GiveUp, Continue
<1>4. CASE InitializeNetwork \/ NetkeyMismatch \/ AdoptAddress
  BY <1>4 DEF InitializeNetwork, NetkeyMismatch, AdoptAddress, GiveUp, Continue
<1>5. CASE NewNetkey \/ NetkeyDone
  BY <1>5 DEF NewNetkey, NetkeyDone, GiveUp, Continue
<1>6. CASE NewAppkey \/ AppkeyDone
  BY <1>6 DEF NewAppkey, AppkeyDone, GiveUp, Continue
<1>7. CASE Configured \/ ClientInit
  BY <1>7 DEF Configured, ClientInit, GiveUp, Continue
<1>8. CASE Sync \/ SyncDone
  BY <1>8 DEF Sync, SyncDone
<1>9. CASE \E n \in Nodes : Provisioned(n) \/ AddressSet(n)
  BY <1>9 DEF Provisioned, AddressSet
<1>10. CASE \E n \in Nodes : NodesRm(n) \/ DdbDelete(n)
  BY <1>10 DEF NodesRm, DdbDelete
<1>11. CASE UNCHANGED vars
  BY <1>11 DEF vars
<1> QED
  BY <1>1, <1>2, <1>3, <1>4, <1>5, <1>6, <1>7, <1>8, <1>9, <1>10, <1>11
     DEF Next, Boot, NwkInit, Manager

\* Nodes on their way into the file or out of it are in the database of the NCP.
LEMMA WorkStep ==
  ASSUME FileFollowsNcp, WorkKnows, StateKnows, [Next]_vars PROVE WorkKnows'
<1> USE DEF FileFollowsNcp, WorkKnows, StateKnows, Steps, file, ncp, hist, work
<1>1. CASE Start \/ Quit \/ Crash \/ \E factory \in BOOLEAN : Reset(factory)
  BY <1>1 DEF Start, Quit, Crash, Reset, End
<1>2. CASE ClrAll
  BY <1>2 DEF ClrAll, ClrProv, ClrNodes, EraseAll, End, NcpErased
<1>3. CASE SyncHostAndNcp \/ MngInit \/ ProvInit
  BY <1>3 DEF SyncHostAndNcp, MngInit, ProvInit, GiveUp, Continue
<1>4. CASE InitializeNetwork \/ NetkeyMismatch \/ AdoptAddress
  BY <1>4 DEF InitializeNetwork, NetkeyMismatch, AdoptAddress, GiveUp, Continue
<1>5. CASE NewNetkey \/ NetkeyDone
  BY <1>5 DEF NewNetkey, NetkeyDone, GiveUp, Continue
<1>6. CASE NewAppkey \/ AppkeyDone
  BY <1>6 DEF NewAppkey, AppkeyDone, GiveUp, Continue
<1>7. CASE Configured \/ ClientInit
  BY <1>7 DEF Configured, ClientInit, GiveUp, Continue
<1>8. CASE Sync \/ SyncDone
  BY <1>8 DEF Sync, SyncDone
<1>9. CASE \E n \in Nodes : Provisioned(n) \/ AddressSet(n)
  BY <1>9 DEF Provisioned, AddressSet
<1>10. CASE \E n \in Nodes : NodesRm(n) \/ DdbDelete(n)
  BY <1>10 DEF NodesRm, DdbDelete
<1>11. CASE UNCHANGED vars
  BY <1>11 DEF vars
<1> QED
  BY <1>1, <1>2, <1>3, <1>4, <1>5, <1>6, <1>7, <1>8, <1>9, <1>10, <1>11
     DEF Next, Boot, NwkInit, Manager

\* A start that is not configured gave up or met the mismatch.
LEMMA StateStep ==
  ASSUME StepKnows, StateKnows, FileFollowsNcp, TypeOK, [Next]_vars PROVE StateKnows'
<1> USE DEF StepKnows, FileFollowsNcp, StateKnows, TypeOK, Steps, file, ncp, hist, work
<1>1. CASE Start \/ Quit \/ Crash \/ \E factory \in BOOLEAN : Reset(factory)
  BY <1>1 DEF Start, Quit, Crash, Reset, End
<1>2. CASE ClrAll
  BY <1>2 DEF ClrAll, ClrProv, ClrNodes, EraseAll, End, NcpErased
<1>3. CASE SyncHostAndNcp \/ MngInit \/ ProvInit
  BY <1>3 DEF SyncHostAndNcp, MngInit, ProvInit, GiveUp, Continue
<1>4. CASE InitializeNetwork \/ NetkeyMismatch \/ AdoptAddress
  BY <1>4 DEF InitializeNetwork, NetkeyMismatch, AdoptAddress, GiveUp, Continue
<1>5. CASE NewNetkey \/ NetkeyDone
  BY <1>5 DEF NewNetkey, NetkeyDone, GiveUp, Continue
<1>6. CASE NewAppkey \/ AppkeyDone
  BY <1>6 DEF NewAppkey, AppkeyDone, GiveUp, Continue
<1>7. CASE Configured \/ ClientInit
  BY <1>7 DEF Configured, ClientInit, GiveUp, Continue
<1>8. CASE Sync \/ SyncDone
  BY <1>8 DEF Sync, SyncDone
<1>9. CASE \E n \in Nodes : Provisioned(n) \/ AddressSet(n)
  BY <1>9 DEF Provisioned, AddressSet
<1>10. CASE \E n \in Nodes : NodesRm(n) \/ DdbDelete(n)
  BY <1>10 DEF NodesRm, DdbDelete
<1>11. CASE UNCHANGED vars
  BY <1>11 DEF vars
<1> QED
  BY <1>1, <1>2, <1>3, <1>4, <1>5, <1>6, <1>7, <1>8, <1>9, <1>10, <1>11
     DEF Next, Boot, NwkInit, Manager

\* The NCP takes the address of the file, or the file that of the NCP.
LEMMA AddrStep ==
  ASSUME AddrKnows, TypeOK, [Next]_vars PROVE AddrKnows'
<1> USE DEF AddrKnows, TypeOK, Steps, file, ncp, hist, work
<1>1. CASE Start \/ Quit \/ Crash \/ \E factory \in BOOLEAN : Reset(factory)
  BY <1>1 DEF Start, Quit, Crash, Reset, End
<1>2. CASE ClrAll
  BY <1>2 DEF ClrAll, ClrProv, ClrNodes, EraseAll, End, NcpErased
<1>3. CASE SyncHostAndNcp \/ MngInit \/ ProvInit
  BY <1>3 DEF SyncHostAndNcp, MngInit, ProvInit, GiveUp, Continue
<1>4. CASE InitializeNetwork \/ NetkeyMismatch \/ AdoptAddress
  BY <1>4 DEF InitializeNetwork, NetkeyMismatch, AdoptAddress, GiveUp, Continue
<1>5. CASE NewNetkey \/ NetkeyDone
  BY <1>5 DEF NewNetkey, NetkeyDone, GiveUp, Continue
<1>6. CASE NewAppkey \/ AppkeyDone
  BY <1>6 DEF NewAppkey, AppkeyDone, GiveUp, Continue
<1>7. CASE Configured \/ ClientInit
  BY <1>7 DEF Configured, ClientInit, GiveUp, Continue
<1>8. CASE Sync \/ SyncDone
  BY <1>8 DEF Sync, SyncDone
<1>9. CASE \E n \in Nodes : Provisioned(n) \/ AddressSet(n)
  BY <1>9 DEF Provisioned, AddressSet
<1>10. CASE \E n \in Nodes : NodesRm(n) \/ DdbDelete(n)
  BY <1>10 DEF NodesRm, DdbDelete
<1>11. CASE UNCHANGED vars
  BY <1>11 DEF vars
<1> QED
  BY <1>1, <1>2, <1>3, <1>4, <1>5, <1>6, <1>7, <1>8, <1>9, <1>10, <1>11
     DEF Next, Boot, NwkInit, Manager

\* The inductive invariant.
LEMMA StepIInv == IInv /\ [Next]_vars => IInv'
  BY TypeStep, FileStep, StepStep, WorkStep, StateStep, AddrStep DEF IInv

\* ... in every state.
LEMMA SpecIInv == Spec => []IInv
  BY InitIInv, StepIInv, PTL DEF Spec

-----------------------------------------------------------------------------
(* The theorems *)

\* The state of a start has its types, for any number of nodes and keys.
THEOREM TypeCorrect == Spec => []TypeOK
  BY SpecIInv, PTL DEF IInv

\* What the files claim is there: a key marked done and a node with an address are
\* in the NCP, wherever the process ended (new_netkey, new_appkeys, clr_all).
THEOREM FilesFollow == Spec => []FileFollowsNcp
  BY SpecIInv, PTL DEF IInv

\* Nothing but the mismatch of the network key keeps a start from configuring the
\* network when the NCP and the file system work (on_initialized_config).
THEOREM OnlyMismatch == Spec => []StuckOnlyOnMismatch
<1>1. IInv => StuckOnlyOnMismatch
  BY DEF IInv, StateKnows, StuckOnlyOnMismatch
<1> QED
  BY <1>1, SpecIInv, PTL

-----------------------------------------------------------------------------
(* The keys that are looked at *)

\* A prefix of the keys that misses key k, and everything before k is in, ends
\* before k.
LEMMA PrefixGrows ==
  ASSUME NEW k \in Nat, NEW m \in Nat, m \notin 1..k, m > 0, 1..(m - 1) \subseteq 1..k
  PROVE  1..k \cup {m} = 1..m
<1>1. m = k + 1
  <2>1. m > k
    OBVIOUS
  <2>2. CASE m = 1
    BY <2>1, <2>2
  <2>3. CASE m > 1
    <3>1. m - 1 \in 1..(m - 1)
      BY <2>3
    <3> QED
      BY <3>1, <2>1
  <2> QED
    BY <2>2, <2>3
<1> QED
  BY <1>1

\* The NCP has no key at first.
LEMMA InitKeys == Init => KeysKnow
  BY StartupAssumption DEF StartupAssumption, Init, KeysKnow

\* The step of the loop that adds a key to those of the NCP: the loop has passed
\* all the keys before it, and would have found the NCP full at the first that
\* was missing.
LEMMA NewAppkeyKeys ==
  ASSUME IInv, KeysKnow, "key" \notin Faults, NewAppkey PROVE KeysKnow'
<1> PICK k \in 0..NumKeys : ncpKeys = 1..k
  BY DEF KeysKnow
<1>1. k \in Nat /\ NumKeys \in Nat /\ i \in Nat /\ i > 0 /\ i \in 1..NumKeys
  BY StartupAssumption DEF StartupAssumption, NewAppkey, Keys
<1>2. state \notin {"configured", "busy"} /\ state' = state
  BY DEF NewAppkey, IInv, StateKnows, Steps
<1>3. CASE i \in keys /\ pc' = "appkey" /\ i' = i + 1 /\ UNCHANGED ncpKeys
  <2>1. i \in ncpKeys
    BY <1>3 DEF IInv, FileFollowsNcp
  <2>2. 1..(i' - 1) = 1..(i - 1) \cup {i}
    BY <1>1, <1>3
  <2> QED
    BY <1>2, <1>3, <2>1, <2>2 DEF KeysKnow, NewAppkey
<1>4. CASE i \in ncpKeys /\ pc' = "appdone" /\ ncpKeys' = ncpKeys \cup {i} /\ UNCHANGED i
  <2>1. ncpKeys' = ncpKeys
    BY <1>4
  <2> QED
    BY <1>2, <1>4, <2>1 DEF KeysKnow, NewAppkey
<1>5. CASE /\ i \notin ncpKeys /\ Cardinality(ncpKeys) < Cap
           /\ pc' = "appdone" /\ ncpKeys' = ncpKeys \cup {i} /\ UNCHANGED i
  <2>1. Cardinality(ncpKeys) \in Nat /\ Cap \in Nat
    BY <1>1, FS_Interval, StartupAssumption DEF StartupAssumption
  <2>2. 1..(i - 1) \subseteq ncpKeys
    BY <1>5, <2>1 DEF KeysKnow, NewAppkey
  <2>3. ncpKeys' = 1..i
    BY <1>1, <1>5, <2>2, PrefixGrows
  <2>4. i \in 0..NumKeys /\ 1..(i - 1) \subseteq 1..i
    BY <1>1
  <2> QED
    BY <1>2, <1>5, <2>3, <2>4 DEF KeysKnow
<1>6. CASE Cardinality(ncpKeys) >= Cap /\ pc' = "appkey" /\ i' = i + 1 /\ UNCHANGED ncpKeys
  BY <1>2, <1>6 DEF KeysKnow
<1> QED
  BY <1>3, <1>4, <1>5, <1>6 DEF NewAppkey, Continue

\* The loop goes on to the next key when the one it is at is noted.
LEMMA AppkeyDoneKeys ==
  ASSUME IInv, KeysKnow, "key" \notin Faults, AppkeyDone PROVE KeysKnow'
<1>1. i \in Nat /\ i > 0 /\ i \in ncpKeys
  BY StartupAssumption DEF StartupAssumption, IInv, TypeOK, StepKnows, AppkeyDone
<1>2. state \notin {"configured", "busy"} /\ state' = state
  BY DEF AppkeyDone, IInv, StateKnows, Steps
<1>3. CASE pc' = "appkey" /\ i' = i + 1
  <2>1. 1..(i' - 1) = 1..(i - 1) \cup {i}
    BY <1>1, <1>3
  <2> QED
    BY <1>1, <1>2, <1>3, <2>1 DEF KeysKnow, AppkeyDone, ncp
<1>4. CASE pc' = "run"
  BY <1>2, <1>4 DEF KeysKnow, AppkeyDone, ncp
<1> QED
  BY <1>3, <1>4 DEF AppkeyDone, Continue, GiveUp

\* At the end of the loop, at most as many keys are noted as the NCP has.
LEMMA ConfiguredKeys ==
  ASSUME IInv, KeysKnow, "key" \notin Faults, Configured PROVE KeysKnow'
<1> PICK k \in 0..NumKeys : ncpKeys = 1..k
  BY DEF KeysKnow
<1>1. k \in Nat
  BY StartupAssumption DEF StartupAssumption
<1>2. IsFiniteSet(ncpKeys) /\ Cardinality(ncpKeys) = k
  BY <1>1, FS_Interval
<1>3. IsFiniteSet(keys) /\ Cardinality(keys) <= k
  BY <1>2, FS_Subset DEF IInv, FileFollowsNcp
<1>4. 1..Cardinality(keys) \subseteq 1..k
  BY <1>1, <1>3, FS_CardinalityType
<1> QED
  BY <1>4 DEF KeysKnow, Configured, Continue, ncp

\* All steps together.
LEMMA StepKeys == IInv /\ KeysKnow /\ [Next]_vars => KeysKnow'
<1> SUFFICES ASSUME IInv, KeysKnow, [Next]_vars, "key" \notin Faults PROVE KeysKnow'
  BY DEF KeysKnow
<1>1. CASE NewAppkey \/ AppkeyDone \/ Configured
  BY <1>1, NewAppkeyKeys, AppkeyDoneKeys, ConfiguredKeys
<1>2. CASE EraseAll
  <2>1. NumKeys \in Nat /\ 1..0 = {} /\ state \notin {"configured", "busy"}
    BY <1>2, StartupAssumption DEF StartupAssumption, EraseAll, IInv, StateKnows
  <2>2. CASE NcpErased /\ pc' = "ncp" /\ UNCHANGED state
    BY <2>1, <2>2 DEF NcpErased, KeysKnow
  <2>3. CASE End /\ UNCHANGED ncp
    BY <2>3 DEF End, KeysKnow, ncp
  <2> QED
    BY <1>2, <2>2, <2>3 DEF EraseAll
<1>3. CASE Start \/ Quit \/ Crash \/ (\E factory \in BOOLEAN : Reset(factory)) \/ MngInit
  BY <1>3 DEF Start, Quit, Crash, Reset, MngInit, End, KeysKnow, ncp
<1>4. CASE NewNetkey \/ NetkeyDone
  <2>1. 1..(1 - 1) = {} /\ state \notin {"configured", "busy"}
    BY <1>4 DEF NewNetkey, NetkeyDone, IInv, StateKnows
  <2> QED
    BY <1>4, <2>1 DEF NewNetkey, NetkeyDone, Continue, GiveUp, KeysKnow, ncp
<1>5. CASE ClrProv \/ ClrNodes \/ SyncHostAndNcp
  BY <1>5 DEF ClrProv, ClrNodes, SyncHostAndNcp, KeysKnow, ncp, hist
<1>6. CASE ProvInit \/ InitializeNetwork \/ NetkeyMismatch \/ AdoptAddress \/ ClientInit
  BY <1>6 DEF ProvInit, InitializeNetwork, NetkeyMismatch, AdoptAddress, ClientInit,
     Continue, GiveUp, KeysKnow, ncp, hist
<1>7. CASE Manager
  BY <1>7 DEF Manager, Sync, SyncDone, Provisioned, AddressSet, NodesRm, DdbDelete,
     KeysKnow, ncp, hist
<1>8. CASE UNCHANGED vars
  BY <1>8 DEF vars, KeysKnow
<1> QED
  BY <1>1, <1>2, <1>3, <1>4, <1>5, <1>6, <1>7, <1>8 DEF Next, Boot, ClrAll, NwkInit

\* ... in every state.
LEMMA SpecKeys == Spec => []KeysKnow
<1>1. Init => KeysKnow
  BY InitKeys
<1> QED
  BY <1>1, SpecIInv, StepKeys, PTL DEF Spec

\* A manager that is configured has its network, its address and its keys, for any
\* number of keys and any capacity of the NCP.
THEOREM ConfiguredReady == Spec => []ConfiguredMeansReady
<1>1. IInv /\ KeysKnow => ConfiguredMeansReady
  BY DEF IInv, FileFollowsNcp, StateKnows, AddrKnows, KeysKnow, ConfiguredMeansReady
<1> QED
  BY <1>1, SpecIInv, SpecKeys, PTL
=============================================================================
