---------------------------- MODULE DevBlProofs -----------------------------
(***************************************************************************)
(* Proofs about DevBl for any network: the host comes out of every key     *)
(* refresh with the key of the NCP target, also if the sync was stopped or *)
(* the key refresh failed, and what it then takes out of the database was  *)
(* pushed before.                                                          *)
(***************************************************************************)
EXTENDS DevBl, FiniteSetTheorems, SequenceTheorems, TLAPS

-----------------------------------------------------------------------------
(* The inductive invariant *)

\* Blacklisting looks active as long as there is a key refresh (IsBlActive), so that
\* its completion is not dropped.
RefreshIsKnown == kr # "off" => st = "busy"

\* Only a key refresh that completed well, and is not yet handled, makes the keys differ.
KeysAgree == kr # "ok" => key = ncpKey /\ ("getkey" \notin Faults => val = key)

\* A sync finds the counters reset.
IdleIsReset == st = "idle" => offset = 0 /\ tail = 0

IInv == TypeOK /\ RefreshIsKnown /\ KeysAgree /\ IdleIsReset /\ DoneNodesWerePushed

-----------------------------------------------------------------------------
(* Lists of nodes *)

\* A list of distinct members of S is no longer than S.
LEMMA ListsAreSeqs ==
  ASSUME NEW S, IsFiniteSet(S), NEW s \in Lists(S) \cup {<<>>}
  PROVE  s \in Seq(S) /\ Len(s) \in 0..Cardinality(S)
<1>1. Cardinality(S) \in Nat  BY FS_CardinalityType
<1>2. CASE s = <<>>  BY <1>1, <1>2
<1>3. CASE s \in Lists(S)
  <2>1. PICK k \in 1..Cardinality(S) : s \in [1..k -> S]  BY <1>3 DEF Lists
  <2>2. s \in Seq(S) /\ Len(s) = k  BY <2>1, <1>1
  <2> QED  BY <2>1, <2>2, <1>1
<1> QED  BY <1>2, <1>3

\* A list of provisioned nodes is a list of nodes.
LEMMA ListsGrow ==
  ASSUME NEW S, IsFiniteSet(S), NEW T \in SUBSET S
  PROVE  Lists(T) \subseteq Lists(S)
<1>1. /\ IsFiniteSet(T) /\ Cardinality(T) \in Nat /\ Cardinality(S) \in Nat
      /\ Cardinality(T) <= Cardinality(S)
  BY FS_Subset, FS_CardinalityType
<1> SUFFICES ASSUME NEW s \in Lists(T) PROVE s \in Lists(S)
  OBVIOUS
<1>2. PICK k \in 1..Cardinality(T) : s \in [1..k -> T]  BY DEF Lists
<1>3. k \in 1..Cardinality(S) /\ s \in [1..k -> S]  BY <1>1, <1>2
<1>4. Injective(s)  BY DEF Lists
<1> QED  BY <1>3, <1>4 DEF Lists

-----------------------------------------------------------------------------
LEMMA InitInv == Init => IInv
<1> SUFFICES ASSUME Init PROVE IInv
  OBVIOUS
<1>1. Cardinality(Nodes) \in Nat  BY BlAssumption, FS_CardinalityType
<1>2. TypeOK  BY <1>1 DEF Init, TypeOK, NoRem, Steps
<1> QED
  BY <1>1, <1>2 DEF Init, IInv, RefreshIsKnown, KeysAgree, IdleIsReset, DoneNodesWerePushed

\* What the steps of the invariant use of the types.
LEMMA Types ==
  ASSUME TypeOK
  PROVE  /\ Cardinality(Nodes) \in Nat
         /\ list \in Seq(Nodes) /\ Len(list) \in 0..Cardinality(Nodes)
         /\ offset \in Nat /\ tail \in Nat /\ tail <= offset
<1>1. Cardinality(Nodes) \in Nat  BY BlAssumption, FS_CardinalityType
<1>2. list \in Seq(Nodes) /\ Len(list) \in 0..Cardinality(Nodes)
  BY BlAssumption, ListsAreSeqs DEF TypeOK
<1>3. offset \in 0..Cardinality(Nodes) /\ tail \in 0..offset  BY DEF TypeOK
<1> QED  BY <1>1, <1>2, <1>3

\* The nodes up to the new offset were pushed now or before.
LEMMA PushKeeps ==
  ASSUME IInv, NEW k \in 0..(Len(list) - offset), BlTillOom(k),
         UNCHANGED <<list, tail, excluded>>
  PROVE  /\ DoneNodesWerePushed'
         /\ offset' \in 0..Cardinality(Nodes) /\ tail' \in 0..offset'
         /\ pushed' \subseteq Nodes
<1> USE Types DEF IInv
<1>1. offset' = offset + k /\ offset' <= Len(list)  BY DEF BlTillOom
<1>2. pushed' = pushed \cup {list[i] : i \in offset + 1..offset + k}  BY DEF BlTillOom
<1>3. \A i \in offset + 1..offset + k : list[i] \in Nodes  BY <1>1
<1>4. pushed' \subseteq Nodes  BY <1>2, <1>3 DEF TypeOK
<1>5. ASSUME NEW i \in tail + 1..offset' PROVE list[i] \in pushed' \cup excluded
  <2>1. CASE i <= offset  BY <2>1, <1>1, <1>2, <1>5 DEF DoneNodesWerePushed
  <2>2. CASE i > offset
    <3>1. i \in offset + 1..offset + k  BY <2>2, <1>1, <1>5
    <3> QED  BY <3>1, <1>2
  <2> QED  BY <2>1, <2>2, <1>5
<1> QED  BY <1>1, <1>4, <1>5 DEF DoneNodesWerePushed

LEMMA BlIdleInv == IInv /\ BlIdle => IInv'
<1> SUFFICES ASSUME IInv, BlIdle PROVE IInv'
  OBVIOUS
<1>1. PICK k \in 0..(Len(list) - offset) : BlTillOom(k)  BY DEF BlIdle
<1>2. UNCHANGED <<list, tail, prov, key, val, kr, ncpKey, excluded, abort>>
  BY DEF BlIdle, ncp
<1>3. st = "idle" /\ st' \in {"starting", "prepare"}  BY DEF BlIdle
<1>4. DOMAIN phase' \subseteq Nodes /\ \A n \in DOMAIN phase' : phase'[n] \in Steps
  <2>1. phase' = phase \/ phase' = [n \in prov \ Members(list) |-> "ff"]
    BY DEF BlIdle, LoadRemaining
  <2> QED  BY <2>1 DEF IInv, TypeOK, Steps
<1>5. TypeOK'  BY <1>1, <1>2, <1>3, <1>4, PushKeeps DEF IInv, TypeOK
<1> QED
  BY <1>1, <1>2, <1>3, <1>5, PushKeeps
  DEF IInv, RefreshIsKnown, KeysAgree, IdleIsReset

LEMMA BlPrepareInv == IInv /\ BlPrepare => IInv'
<1> SUFFICES ASSUME IInv, BlPrepare PROVE IInv'
  OBVIOUS
<1>1. UNCHANGED <<list, tail, phase, prov, key, val, kr, ncpKey, excluded, abort>>
  BY DEF BlPrepare, ncp
<1>2. st = "prepare" /\ st' \in {"starting", "prepare"}  BY DEF BlPrepare
<1>3. CASE list = <<>>
  <2>1. UNCHANGED <<offset, pushed>>  BY <1>3 DEF BlPrepare
  <2> QED
    BY <1>1, <1>2, <2>1
    DEF IInv, TypeOK, RefreshIsKnown, KeysAgree, IdleIsReset, DoneNodesWerePushed
<1>4. CASE list # <<>>
  <2>1. PICK k \in 0..(Len(list) - offset) : BlTillOom(k)  BY <1>4 DEF BlPrepare
  <2>2. TypeOK'  BY <1>1, <1>2, <2>1, PushKeeps DEF IInv, TypeOK
  <2> QED
    BY <1>1, <1>2, <2>1, <2>2, PushKeeps
    DEF IInv, RefreshIsKnown, KeysAgree, IdleIsReset
<1> QED  BY <1>3, <1>4

LEMMA BlStartingInv == IInv /\ BlStarting => IInv'
  BY DEF BlStarting, IInv, TypeOK, RefreshIsKnown, KeysAgree, IdleIsReset,
         DoneNodesWerePushed

LEMMA BlDoneInv == IInv /\ BlDone => IInv'
<1> SUFFICES ASSUME IInv, BlDone PROVE IInv'
  OBVIOUS
<1>1. st = "done" /\ kr = "off"  BY DEF BlDone, IInv, RefreshIsKnown
<1>2. UNCHANGED <<key, val, pushed, kr, ncpKey, excluded>>  BY DEF BlDone, ncp
<1>3. offset \in Nat /\ tail \in Nat /\ tail <= offset /\ Len(list) \in Nat
       /\ Cardinality(Nodes) \in Nat
  BY Types DEF IInv
<1>4. CASE offset > Len(list)
  <2>1. abort' = "no list item" /\ UNCHANGED <<list, st, offset, tail, phase, prov>>
    BY <1>4 DEF BlDone
  <2> QED
    BY <1>1, <1>2, <2>1
    DEF IInv, TypeOK, RefreshIsKnown, KeysAgree, IdleIsReset, DoneNodesWerePushed
<1>5. CASE ~(offset > Len(list)) /\ offset # Len(list)
  <2>1. /\ prov' \subseteq prov /\ st' = "starting" /\ tail' = offset
        /\ UNCHANGED <<list, offset, phase, abort>>
    BY <1>5 DEF BlDone
  <2>2. tail' \in 0..offset'  BY <1>3, <2>1
  <2>3. DoneNodesWerePushed'  BY <1>3, <2>1 DEF DoneNodesWerePushed
  <2>4. TypeOK'  BY <1>2, <2>1, <2>2 DEF IInv, TypeOK
  <2> QED
    BY <1>1, <1>2, <2>1, <2>3, <2>4 DEF IInv, RefreshIsKnown, KeysAgree, IdleIsReset
<1>6. CASE offset = Len(list)
  <2>1. /\ prov' \subseteq prov /\ list' = <<>> /\ st' = "idle"
        /\ offset' = 0 /\ tail' = 0 /\ phase' = NoRem /\ UNCHANGED abort
    <3>1. ~(offset > Len(list)) /\ ~(offset # Len(list))  BY <1>3, <1>6
    <3>2. prov' \subseteq prov  BY <3>1 DEF BlDone
    <3>3. /\ list' = <<>> /\ st' = "idle"
          /\ offset' = 0 /\ tail' = 0 /\ phase' = NoRem /\ UNCHANGED abort
      BY ONLY <3>1, BlDone DEF BlDone
    <3> QED  BY <3>2, <3>3
  <2>2. /\ DOMAIN phase' \subseteq Nodes /\ \A n \in DOMAIN phase' : phase'[n] \in Steps
        /\ offset' \in 0..Cardinality(Nodes) /\ tail' \in 0..offset'
        /\ prov' \subseteq Nodes
    <3>1. DOMAIN phase' = {}  BY <2>1 DEF NoRem
    <3>2. prov \subseteq Nodes  BY DEF IInv, TypeOK
    <3> QED  BY <1>3, <2>1, <3>1, <3>2
  <2>3. DoneNodesWerePushed'  BY <2>1 DEF DoneNodesWerePushed
  <2>4. TypeOK'  BY <1>2, <2>1, <2>2 DEF IInv, TypeOK
  <2> QED
    BY <1>1, <1>2, <2>1, <2>3, <2>4 DEF IInv, RefreshIsKnown, KeysAgree, IdleIsReset
<1> QED  BY <1>4, <1>5, <1>6

LEMMA KrNodeUpdateInv ==
  ASSUME IInv, NEW n \in Nodes, KrNodeUpdate(n) PROVE IInv'
<1>1. UNCHANGED <<list, st, offset, tail, prov, key, val, pushed, kr, ncpKey, excluded, abort>>
  BY DEF KrNodeUpdate, ncp
<1>2. DOMAIN phase' \subseteq Nodes /\ \A m \in DOMAIN phase' : phase'[m] \in Steps
  BY DEF KrNodeUpdate, IInv, TypeOK, Steps
<1> QED
  BY <1>1, <1>2
  DEF IInv, TypeOK, RefreshIsKnown, KeysAgree, IdleIsReset, DoneNodesWerePushed

\* The event finds st = "busy", whatever became of the list.
LEMMA KrFinishInv ==
  ASSUME IInv, NEW got \in BOOLEAN, KrFinish(got) PROVE IInv'
<1>1. st = "busy" /\ IsBlActive  BY DEF KrFinish, IInv, RefreshIsKnown, IsBlActive
<1>2. /\ kr \in {"ok", "failed"} /\ kr' = "off" /\ (got \/ "getkey" \in Faults)
      /\ st' = "done"
      /\ key' = IF kr = "ok" THEN ncpKey ELSE key
      /\ val' = IF kr = "ok" /\ got THEN ncpKey ELSE val
      /\ UNCHANGED <<list, offset, tail, phase, prov, pushed, ncpKey, excluded, abort>>
  BY <1>1 DEF KrFinish
<1> QED
  BY <1>2 DEF IInv, TypeOK, RefreshIsKnown, KeysAgree, IdleIsReset, DoneNodesWerePushed

LEMMA CompleteInv ==
  ASSUME IInv, NEW ok \in BOOLEAN, Complete(ok) PROVE IInv'
<1>1. kr = "on" /\ st = "busy"  BY DEF Complete, IInv, RefreshIsKnown
<1>2. UNCHANGED <<list, st, offset, tail, phase, prov, key, val, abort>>  BY DEF Complete
<1>3. CASE ok
  <2>1. /\ kr' = "ok" /\ ncpKey' = 1 - ncpKey /\ excluded' = excluded \cup pushed
        /\ pushed' = {}
    BY <1>3 DEF Complete
  <2>2. {key', val', ncpKey'} \subseteq {0, 1}
    <3>1. key \in {0, 1} /\ val \in {0, 1} /\ ncpKey \in {0, 1}  BY DEF IInv, TypeOK
    <3> QED  BY <1>2, <2>1, <3>1
  <2>3. TypeOK'  BY <1>2, <2>1, <2>2 DEF IInv, TypeOK
  <2> QED
    BY <1>1, <1>2, <2>1, <2>3
    DEF IInv, RefreshIsKnown, KeysAgree, IdleIsReset, DoneNodesWerePushed
<1>4. CASE ~ok
  <2>1. kr' = "failed" /\ UNCHANGED <<ncpKey, excluded, pushed>>  BY <1>4 DEF Complete
  <2> QED
    BY <1>1, <1>2, <2>1
    DEF IInv, TypeOK, RefreshIsKnown, KeysAgree, IdleIsReset, DoneNodesWerePushed
<1> QED  BY <1>3, <1>4

LEMMA SyncInv ==
  ASSUME IInv, NEW l \in Lists(prov), Sync(l) PROVE IInv'
<1>1. /\ st = "idle" /\ list' = l
      /\ UNCHANGED <<st, offset, tail, phase, prov, key, val, pushed, kr, ncpKey, excluded, abort>>
  BY DEF Sync, ncp
<1>2. l \in Lists(Nodes)  BY BlAssumption, ListsGrow DEF IInv, TypeOK
<1>3. TypeOK'  BY <1>1, <1>2 DEF IInv, TypeOK
<1> QED
  BY <1>1, <1>3 DEF IInv, RefreshIsKnown, KeysAgree, IdleIsReset, DoneNodesWerePushed

LEMMA SyncStopInv == IInv /\ SyncStop => IInv'
<1> SUFFICES ASSUME IInv, SyncStop PROVE IInv'
  OBVIOUS
<1>1. /\ list' = <<>>
      /\ UNCHANGED <<st, offset, tail, phase, prov, key, val, pushed, kr, ncpKey, excluded, abort>>
  BY DEF SyncStop, ncp
<1>2. TypeOK'  BY <1>1 DEF IInv, TypeOK
<1>3. offset \in Nat /\ tail \in Nat  BY Types DEF IInv
<1>4. DoneNodesWerePushed'  BY <1>1, <1>3 DEF DoneNodesWerePushed
<1> QED  BY <1>1, <1>2, <1>4 DEF IInv, RefreshIsKnown, KeysAgree, IdleIsReset

LEMMA NextInv == IInv /\ [Next]_vars => IInv'
<1> SUFFICES ASSUME IInv, [Next]_vars PROVE IInv'
  OBVIOUS
<1>1. CASE BlLoop
  BY <1>1, BlIdleInv, BlPrepareInv, BlStartingInv, BlDoneInv DEF BlLoop
<1>2. CASE \E n \in Nodes : KrNodeUpdate(n)  BY <1>2, KrNodeUpdateInv
<1>3. CASE \E got \in BOOLEAN : KrFinish(got)  BY <1>3, KrFinishInv
<1>4. CASE \E ok \in BOOLEAN : Complete(ok)  BY <1>4, CompleteInv
<1>5. CASE \E l \in Lists(prov) : Sync(l)  BY <1>5, SyncInv
<1>6. CASE SyncStop  BY <1>6, SyncStopInv
<1>7. CASE UNCHANGED vars
  BY <1>7 DEF vars, ncp, IInv, TypeOK, RefreshIsKnown, KeysAgree, IdleIsReset,
              DoneNodesWerePushed
<1> QED  BY <1>1, <1>2, <1>3, <1>4, <1>5, <1>6, <1>7 DEF Next

-----------------------------------------------------------------------------
\* Everything below follows from the inductive invariant of bl_loop and bl_hdr.
THEOREM BlInvariant == Spec => []IInv
  BY InitInv, NextInv, PTL DEF Spec

\* The state of bl_cache_t is well-formed: the tail never passes the offset, and the
\* list never holds a node twice.
THEOREM TypeCorrect == Spec => []TypeOK
  BY BlInvariant, PTL DEF IInv

\* kr_finish is never dropped by bl_hdr: the host ends up with the key of the NCP
\* target, for any number of key refreshes, failed ones and stopped syncs.
THEOREM HostHasKey == Spec => []KeyFollowsNcp
<1>1. IInv => KeyFollowsNcp  BY DEF IInv, KeysAgree, KeyFollowsNcp
<1> QED  BY <1>1, BlInvariant, PTL

\* on_bl_done only takes nodes out of the database that bl_till_oom has pushed.
THEOREM DoneWerePushed == Spec => []DoneNodesWerePushed
  BY BlInvariant, PTL DEF IInv
-----------------------------------------------------------------------------
(***************************************************************************)
(* Which misbehaviour of the NCP target, or command of the user, it takes  *)
(* for each thing that can go wrong, in any network.                       *)
(***************************************************************************)

\* Unless a key refresh fails, the NCP target has excluded what it was pushed when
\* the completion is handled, and so whatever has left the database.
ExclInv ==
  "fail" \notin Faults =>
    /\ kr # "failed"
    /\ kr = "ok" \/ st = "done" => pushed = {}
    /\ BlacklistedIsExcluded

\* Unless a push fails, the first round pushes the whole list, and every key refresh
\* is for nodes pushed since the last one.
WholeInv ==
  "oom" \notin Faults =>
    /\ st # "prepare"
    /\ st # "idle" => Len(list) <= offset /\ tail < offset

\* Unless the user stops a sync, the pushed nodes are still in the list.
ListedInv == ~Stops => offset <= Len(list)

CauseInv ==
  /\ abort = "nothing pushed" => "oom" \in Faults
  /\ abort = "no list item" => Stops
  /\ abort = "kr_start" => "start" \in Faults

Causes == ExclInv /\ WholeInv /\ ListedInv /\ CauseInv
CInv == IInv /\ Causes

LEMMA InitCauses == Init => Causes
<1> SUFFICES ASSUME Init PROVE Causes
  OBVIOUS
<1>1. list = <<>> /\ offset = 0 /\ st = "idle" /\ kr = "off" /\ prov = Nodes /\ abort = "no"
  BY DEF Init
<1>2. Len(list) = 0  BY <1>1
<1> QED
  BY <1>1, <1>2 DEF Causes, ExclInv, WholeInv, ListedInv, CauseInv, BlacklistedIsExcluded

\* A step that has nothing to do with lists, key refresh or database.
LEMMA SameCauses ==
  ASSUME CInv, UNCHANGED <<list, st, offset, tail, prov, pushed, kr, excluded, abort>>
  PROVE  Causes'
BY DEF CInv, Causes, ExclInv, WholeInv, ListedInv, CauseInv, BlacklistedIsExcluded

\* Pushing: no key refresh is under way then.
LEMMA PushCauses == CInv /\ (BlIdle \/ BlPrepare) => Causes'
<1> SUFFICES ASSUME CInv, BlIdle \/ BlPrepare PROVE Causes'
  OBVIOUS
<1>1. UNCHANGED <<list, tail, prov, kr, excluded, abort>>
  BY DEF BlIdle, BlPrepare, ncp
<1>2. st \in {"idle", "prepare"} /\ kr = "off"
  BY DEF BlIdle, BlPrepare, CInv, IInv, RefreshIsKnown
<1>3. st' \in {"starting", "prepare"}  BY DEF BlIdle, BlPrepare
<1>4. ExclInv'  BY <1>1, <1>2, <1>3 DEF CInv, Causes, ExclInv, BlacklistedIsExcluded
<1>5. /\ offset \in Nat /\ tail \in Nat /\ tail <= offset /\ Len(list) \in Nat
      /\ list \in Seq(Nodes)
  BY Types DEF CInv, IInv
<1>6. WholeInv'
  <2> SUFFICES ASSUME "oom" \notin Faults PROVE WholeInv'
    BY DEF WholeInv
  <2>1. st = "idle" /\ list # <<>>
    BY <1>2 DEF CInv, Causes, WholeInv, BlIdle, BlPrepare
  <2>2. offset = 0 /\ tail = 0  BY <2>1 DEF CInv, IInv, IdleIsReset
  <2>3. PICK k \in 0..(Len(list) - offset) : BlTillOom(k)
    BY <2>1 DEF BlIdle, BlPrepare
  <2>4. k = Len(list) /\ offset' = Len(list)  BY <1>5, <2>2, <2>3 DEF BlTillOom
  <2>5. st' = "starting"  BY <1>1, <2>1, <2>4 DEF BlIdle, BlPrepare
  <2>6. Len(list) # 0  BY <1>5, <2>1
  <2> QED  BY <1>1, <1>5, <2>2, <2>4, <2>5, <2>6 DEF WholeInv
<1>7. ListedInv'
  <2> SUFFICES ASSUME ~Stops PROVE offset' <= Len(list')
    BY DEF ListedInv
  <2>1. \/ offset' = offset
        \/ \E k \in 0..(Len(list) - offset) : BlTillOom(k)
    BY DEF BlIdle, BlPrepare
  <2>2. offset <= Len(list)  BY DEF CInv, Causes, ListedInv
  <2> QED  BY <1>1, <1>5, <2>1, <2>2 DEF BlTillOom
<1>8. CauseInv'  BY <1>1 DEF CInv, Causes, CauseInv
<1> QED  BY <1>4, <1>6, <1>7, <1>8 DEF Causes

\* The ASSERT of bl_loop, or the key refresh.
LEMMA StartingCauses == CInv /\ BlStarting => Causes'
<1> SUFFICES ASSUME CInv, BlStarting PROVE Causes'
  OBVIOUS
<1>1. st = "starting" /\ st' \in {"starting", "busy"}
      /\ UNCHANGED <<list, offset, tail, prov, pushed, excluded>>
      /\ kr' \in {kr, "on"}
  BY DEF BlStarting
<1>2. \/ abort' = abort
      \/ abort' = "nothing pushed" /\ offset = tail
      \/ abort' = "kr_start" /\ "start" \in Faults
  BY DEF BlStarting
<1>3. kr = "off"  BY <1>1 DEF CInv, IInv, RefreshIsKnown
<1>4. ExclInv'  BY <1>1, <1>3 DEF CInv, Causes, ExclInv, BlacklistedIsExcluded
<1>5. WholeInv' /\ ListedInv'  BY <1>1 DEF CInv, Causes, WholeInv, ListedInv
<1>6. offset \in Nat /\ tail \in Nat  BY Types DEF CInv, IInv
<1>7. CauseInv'
  <2>1. CASE abort' = abort  BY <2>1 DEF CInv, Causes, CauseInv
  <2>2. CASE abort' = "nothing pushed" /\ offset = tail
    <3>1. ASSUME "oom" \notin Faults PROVE FALSE
      <4>1. WholeInv  BY DEF CInv, Causes
      <4>2. tail < offset  BY <1>1, <3>1, <4>1 DEF WholeInv
      <4>3. offset = tail  BY <2>2
      <4> QED  BY <1>6, <4>2, <4>3
    <3> QED  BY <2>2, <3>1 DEF CauseInv
  <2>3. CASE abort' = "kr_start" /\ "start" \in Faults  BY <2>3 DEF CauseInv
  <2> QED  BY <1>2, <2>1, <2>2, <2>3
<1> QED  BY <1>4, <1>5, <1>7 DEF Causes

\* The nodes leave the database.
LEMMA DoneCauses == CInv /\ BlDone => Causes'
<1> SUFFICES ASSUME CInv, BlDone PROVE Causes'
  OBVIOUS
<1>1. st = "done" /\ UNCHANGED <<pushed, kr, excluded>>  BY DEF BlDone, ncp
<1>2. offset \in Nat /\ tail \in Nat /\ tail <= offset /\ Len(list) \in Nat
  BY Types DEF CInv, IInv
<1>3. CASE offset > Len(list)
  <2>1. abort' = "no list item" /\ UNCHANGED <<list, st, offset, tail, phase, prov>>
    BY <1>3 DEF BlDone
  <2>2. Stops  BY <1>2, <1>3 DEF CInv, Causes, ListedInv
  <2> QED
    BY <1>1, <2>1, <2>2
    DEF CInv, Causes, ExclInv, WholeInv, ListedInv, CauseInv, BlacklistedIsExcluded
<1>4. CASE ~(offset > Len(list))
  <2>1. prov' = prov \ {list[i] : i \in tail + 1..offset} /\ UNCHANGED abort
    BY <1>4 DEF BlDone
  <2>2. \/ offset # Len(list) /\ st' = "starting" /\ tail' = offset /\ UNCHANGED <<list, offset>>
        \/ list' = <<>> /\ st' = "idle" /\ offset' = 0
    BY ONLY <1>4, BlDone DEF BlDone
  <2>3. \A i \in tail + 1..offset : list[i] \in pushed \cup excluded
    BY <1>2, <1>4 DEF CInv, IInv, DoneNodesWerePushed
  <2>4. ExclInv'
    <3> SUFFICES ASSUME "fail" \notin Faults PROVE ExclInv'
      BY DEF ExclInv
    <3>1. kr # "failed" /\ pushed = {} /\ BlacklistedIsExcluded
      BY <1>1 DEF CInv, Causes, ExclInv
    <3>2. BlacklistedIsExcluded'
      BY <1>1, <2>1, <2>3, <3>1 DEF BlacklistedIsExcluded
    <3> QED  BY <1>1, <3>1, <3>2 DEF ExclInv
  <2>5. WholeInv'
    <3> SUFFICES ASSUME "oom" \notin Faults PROVE WholeInv'
      BY DEF WholeInv
    <3>1. offset = Len(list)  BY <1>1, <1>2, <1>4 DEF CInv, Causes, WholeInv
    <3> QED  BY <2>2, <3>1 DEF WholeInv
  <2>6. ListedInv'
    <3>1. CASE list' = <<>> /\ offset' = 0
      <4>1. Len(list') = 0  BY <3>1
      <4> QED  BY <3>1, <4>1 DEF ListedInv
    <3>2. CASE UNCHANGED <<list, offset>>
      BY <3>2 DEF CInv, Causes, ListedInv
    <3> QED  BY <2>2, <3>1, <3>2
  <2>7. CauseInv'  BY <2>1 DEF CInv, Causes, CauseInv
  <2> QED  BY <2>4, <2>5, <2>6, <2>7 DEF Causes
<1> QED  BY <1>3, <1>4

LEMMA KrFinishCauses ==
  ASSUME CInv, NEW got \in BOOLEAN, KrFinish(got) PROVE Causes'
<1>1. st = "busy" /\ IsBlActive  BY DEF KrFinish, CInv, IInv, RefreshIsKnown, IsBlActive
<1>2. /\ kr \in {"ok", "failed"} /\ kr' = "off" /\ st' = "done"
      /\ UNCHANGED <<list, offset, tail, prov, pushed, excluded, abort>>
  BY <1>1 DEF KrFinish
<1> QED
  BY <1>1, <1>2
  DEF CInv, Causes, ExclInv, WholeInv, ListedInv, CauseInv, BlacklistedIsExcluded

LEMMA CompleteCauses ==
  ASSUME CInv, NEW ok \in BOOLEAN, Complete(ok) PROVE Causes'
<1>1. st = "busy" /\ UNCHANGED <<list, st, offset, tail, prov, abort>>
  BY DEF Complete, CInv, IInv, RefreshIsKnown
<1>2. WholeInv' /\ ListedInv' /\ CauseInv'
  BY <1>1 DEF CInv, Causes, WholeInv, ListedInv, CauseInv
<1>3. CASE ok
  <2>1. kr' = "ok" /\ excluded' = excluded \cup pushed /\ pushed' = {}
    BY <1>3 DEF Complete
  <2>2. ExclInv'  BY <1>1, <2>1 DEF CInv, Causes, ExclInv, BlacklistedIsExcluded
  <2> QED  BY <1>2, <2>2 DEF Causes
<1>4. CASE ~ok
  <2>1. "fail" \in Faults  BY <1>4 DEF Complete
  <2> QED  BY <1>2, <2>1 DEF Causes, ExclInv
<1> QED  BY <1>3, <1>4

\* The commands change the list: a sync when all is reset, a stop on purpose.
LEMMA CommandCauses ==
  ASSUME CInv, (\E l \in Lists(prov) : Sync(l)) \/ SyncStop PROVE Causes'
<1>1. UNCHANGED <<st, offset, tail, prov, pushed, kr, excluded, abort>>
  BY DEF Sync, SyncStop, ncp
<1>2. ExclInv' /\ CauseInv'
  BY <1>1 DEF CInv, Causes, ExclInv, CauseInv, BlacklistedIsExcluded
<1>3. offset \in Nat /\ tail \in Nat  BY Types DEF CInv, IInv
<1>4. CASE \E l \in Lists(prov) : Sync(l)
  <2>1. PICK l \in Lists(prov) : Sync(l)  BY <1>4
  <2>2. st = "idle" /\ list' = l  BY <2>1 DEF Sync
  <2>3. offset = 0  BY <2>2 DEF CInv, IInv, IdleIsReset
  <2>4. Len(l) \in Nat
    <3>1. prov \subseteq Nodes  BY DEF CInv, IInv, TypeOK
    <3>2. l \in Lists(Nodes)  BY <2>1, <3>1, BlAssumption, ListsGrow
    <3>3. Len(l) \in 0..Cardinality(Nodes)  BY <3>2, BlAssumption, ListsAreSeqs
    <3> QED  BY <3>3, BlAssumption, FS_CardinalityType
  <2> QED  BY <1>1, <1>2, <2>2, <2>3, <2>4 DEF CInv, Causes, WholeInv, ListedInv
<1>5. CASE SyncStop
  <2>1. Stops /\ list' = <<>>  BY <1>5 DEF SyncStop
  <2>2. Len(list') = 0  BY <2>1
  <2> QED  BY <1>1, <1>2, <1>3, <2>1, <2>2 DEF CInv, Causes, WholeInv, ListedInv
<1> QED  BY <1>4, <1>5

LEMMA NextCauses == CInv /\ [Next]_vars => CInv'
<1> SUFFICES ASSUME CInv, [Next]_vars PROVE CInv'
  OBVIOUS
<1>1. IInv'  BY NextInv DEF CInv
<1>2. Causes'
  <2>1. CASE BlLoop
    BY <2>1, PushCauses, StartingCauses, DoneCauses DEF BlLoop
  <2>2. CASE \E n \in Nodes : KrNodeUpdate(n)  BY <2>2, SameCauses DEF KrNodeUpdate, ncp
  <2>3. CASE \E got \in BOOLEAN : KrFinish(got)  BY <2>3, KrFinishCauses
  <2>4. CASE \E ok \in BOOLEAN : Complete(ok)  BY <2>4, CompleteCauses
  <2>5. CASE (\E l \in Lists(prov) : Sync(l)) \/ SyncStop  BY <2>5, CommandCauses
  <2>6. CASE UNCHANGED vars  BY <2>6, SameCauses DEF vars, ncp
  <2> QED  BY <2>1, <2>2, <2>3, <2>4, <2>5, <2>6 DEF Next
<1> QED  BY <1>1, <1>2 DEF CInv

LEMMA CausesHold == Spec => []CInv
<1>1. Init => CInv  BY InitInv, InitCauses DEF CInv
<1> QED  BY <1>1, NextCauses, PTL DEF Spec

\* on_bl_done only takes nodes out of the database that a completed key refresh has
\* excluded from the network, also across stopped syncs, unless a key refresh fails:
\* kr_finish treats that as done, too.
THEOREM ExcludedUnlessFailed ==
  ASSUME "fail" \notin Faults
  PROVE  Spec => []BlacklistedIsExcluded
<1>1. CInv => BlacklistedIsExcluded  BY DEF CInv, Causes, ExclInv
<1> QED  BY <1>1, CausesHold, PTL

\* bl_loop never starts a key refresh for which nothing was pushed, unless the nodes
\* do not fit into one: only the first round pushes.
THEOREM PushedUnlessOom ==
  ASSUME "oom" \notin Faults
  PROVE  Spec => []SomethingPushed
<1>1. CInv => SomethingPushed  BY DEF CInv, Causes, CauseInv, SomethingPushed
<1> QED  BY <1>1, CausesHold, PTL

\* Blacklisting never ends the process if all nodes fit, key refreshes start, and no
\* sync is stopped; a key refresh may fail, and a key may not be read.
THEOREM BlNoAbort ==
  ASSUME Faults \subseteq {"fail", "getkey"}, ~Stops
  PROVE  Spec => []Alive
<1>1. CInv => Alive
  <2>1. "oom" \notin Faults /\ "start" \notin Faults  OBVIOUS
  <2> QED  BY <2>1 DEF CInv, IInv, TypeOK, Causes, CauseInv, Alive
<1> QED  BY <1>1, CausesHold, PTL
=============================================================================
