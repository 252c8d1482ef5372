----------------------------- MODULE MngProofs ------------------------------
(***************************************************************************)
(* Proofs about Mng for any devices, any number of slots and any orders:   *)
(* the kinds of work exclude each other, a marked node is never configured *)
(* and `Sync Done' is reported only when the work of the order is over.    *)
(*                                                                         *)
(* The last follows the order: PastDone says of each action the loop of    *)
(* set_mng_state has passed that it is the one at work, or has no work     *)
(* left.                                                                   *)
(***************************************************************************)
EXTENDS Mng, FiniteSetTheorems, TLAPS

-----------------------------------------------------------------------------
(* The inductive invariant *)

WorkStates == {"adding", "configuring", "removing", "blacklisting"}

\* A device is in one list or slot, and only nodes with an address are worked at.
Separate ==
  /\ add \cap prov = {}
  /\ config \cup rm \cup bl \subseteq prov
  /\ config \cap rm = {} /\ config \cap bl = {} /\ rm \cap bl = {}
  /\ \A t \in used : t.node \in prov \ (config \cup rm \cup bl)
  /\ \A t, u \in used : t.node = u.node => t = u

\* clrrb in the middle of a sync loads the lists anew, slots or not (dead).
ListInv == ~dead => Separate

\* The list of configurations may be older than the marks only outside of a sync.
FreshConfig ==
  state \in WorkStates \/ (state = "starting" /\ pc = "sched") =>
    \A n \in config : flag[n] = "none"

Before(o) == \A q \in 1..o : prios[q] # "-"

\* What the loop has passed is at work or has no work left.
Passed(o) ==
  /\ prios[o] = "a" => state \in {"adding", "configuring"} \/ (add = {} /\ config \subseteq late)
  /\ prios[o] = "r" => state = "removing" \/ rm = {}
  /\ prios[o] = "b" => state = "blacklisting" \/ bl = {}

PastDone ==
  /\ \A o \in 1..offs : Before(o) => Passed(o)
  /\ state = "configuring" => add = {}
  /\ state = "blacklisting" /\ pc = "sched" => blBusy \/ bl = {}

OrderInv == state \in WorkStates /\ ~reloaded => PastDone

IInv ==
  TypeOK /\ WorkMatchesState /\ MarkedNotConfigured /\ ListInv /\ FreshConfig /\ OrderInv

\* Outside of adding, configuring and removing all slots are free.
LEMMA NoSlots ==
  ASSUME TypeOK, WorkMatchesState, state \notin Accing PROVE used = {}
<1> SUFFICES ASSUME NEW t \in used PROVE FALSE
  OBVIOUS
<1>1. t.type \in {"config", "rm"}  BY DEF TypeOK, Task
<1> QED  BY <1>1 DEF WorkMatchesState, Accing

\* What LoadLists makes of the database fits together.
LEMMA LoadSeparates ==
  ASSUME NEW P \in SUBSET Nodes, NEW D, NEW F, LoadLists(P, D, F), used = {},
         prov' = P, used' = used
  PROVE  Separate'
  BY DEF LoadLists, Walked, Separate

LEMMA LoadTypes ==
  ASSUME NEW P \in SUBSET Nodes, NEW D, NEW F, LoadLists(P, D, F)
  PROVE  /\ add' \subseteq Nodes /\ config' \subseteq Nodes
         /\ rm' \subseteq Nodes /\ bl' \subseteq Nodes
  BY DEF LoadLists, Walked

\* As many tasks of one kind as nodes.
LEMMA TasksOf ==
  ASSUME NEW S \in SUBSET Nodes, NEW type
  PROVE  /\ IsFiniteSet([node : S, type : {type}])
         /\ Cardinality([node : S, type : {type}]) <= Cardinality(S)
<1> DEFINE T == [node : S, type : {type}]
           f == [t \in T |-> t.node]
<1>1. f \in [T -> S]  OBVIOUS
<1>2. \A t, u \in T : f[t] = f[u] => t = u  OBVIOUS
<1>3. f \in Injection(T, S)
  <2> HIDE DEF f, T
  <2> QED  BY <1>1, <1>2 DEF Injection, IsInjective
<1>4. IsFiniteSet(S)  BY MngAssumption, FS_Subset DEF MngAssumption
<1> HIDE DEF f, T
<1>5. IsFiniteSet(T) /\ Cardinality(T) <= Cardinality(S)  BY <1>3, <1>4, FS_Injection
<1> QED  BY <1>5 DEF T

LEMMA SlotsFinite == ASSUME used \subseteq Task PROVE IsFiniteSet(used)
<1> DEFINE C == [node : Nodes, type : {"config"}]
           R == [node : Nodes, type : {"rm"}]
<1>1. Task = C \cup R  BY DEF Task
<1>2. IsFiniteSet(C) /\ IsFiniteSet(R)  BY TasksOf
<1> HIDE DEF C, R
<1>3. IsFiniteSet(C \cup R)  BY <1>2, FS_Union
<1> QED  BY <1>1, <1>3, FS_Subset

LEMMA InitInv == Init => IInv
<1> SUFFICES ASSUME Init PROVE IInv
  OBVIOUS
<1>1. TypeOK
  <2>1. Cardinality(used) = 0  BY FS_EmptySet DEF Init
  <2>2. MaxConcurrent \in Nat \ {0}  BY MngAssumption DEF MngAssumption
  <2>3. Cardinality(used) <= MaxConcurrent
    <3> HIDE DEF Init
    <3> QED  BY <2>1, <2>2
  <2>4. flag \in [Nodes -> {"none", "rm", "bl"}]  BY DEF Init
  <2>5. offs \in 0..3  BY DEF Init
  <2> QED  BY <2>3, <2>4, <2>5, Zenon DEF Init, TypeOK, Accing
<1> QED
  BY <1>1 DEF Init, IInv, WorkMatchesState, MarkedNotConfigured, ListInv, Separate,
              FreshConfig, OrderInv, WorkStates

-----------------------------------------------------------------------------
(* Commands *)

\* The database and the slots stay as they are; the lists may be dropped.
LEMMA NoCmdInv == IInv /\ NoCmd => IInv'
  BY DEF NoCmd, Polled, lists, db, IInv, TypeOK, WorkMatchesState, MarkedNotConfigured,
         ListInv, Separate, FreshConfig, OrderInv, PastDone, Passed, Before, WorkStates

LEMMA SyncStartInv == IInv /\ SyncStart => IInv'
<1> SUFFICES ASSUME IInv, SyncStart PROVE IInv'
  OBVIOUS
<1>1. state = "configured" /\ state' = "starting" /\ pc' = "evt"
      /\ UNCHANGED <<prios, offs, add, config, rm, bl, used, blBusy, prov, done, flag, dead,
                     late, reloaded>>
  BY DEF SyncStart, Polled, lists, db
<1>2. used = {} /\ ~blBusy  BY <1>1, NoSlots DEF IInv, Accing, WorkMatchesState
<1> QED
  BY <1>1, <1>2 DEF IInv, TypeOK, WorkMatchesState, MarkedNotConfigured, ListInv, Separate,
                    FreshConfig, OrderInv, WorkStates

LEMMA SyncStopInv == IInv /\ SyncStop => IInv'
<1> SUFFICES ASSUME IInv, SyncStop PROVE IInv'
  OBVIOUS
<1>1. pc' = "evt" /\ offs' = 3 /\ add' = {} /\ config' = {} /\ rm' = {} /\ bl' = {}
      /\ UNCHANGED <<state, prios, used, blBusy, prov, done, flag, dead, late, reloaded>>
  BY DEF SyncStop, Polled, ListsClr, db
<1>2. TypeOK'  BY <1>1 DEF IInv, TypeOK
<1>3. WorkMatchesState' /\ MarkedNotConfigured'
  BY <1>1 DEF IInv, WorkMatchesState, MarkedNotConfigured
<1>4. ListInv' /\ FreshConfig'
  BY <1>1 DEF IInv, ListInv, Separate, FreshConfig
<1>5. OrderInv'  BY <1>1 DEF OrderInv, PastDone, Passed
<1> QED  BY <1>2, <1>3, <1>4, <1>5 DEF IInv

LEMMA RmAllInv == IInv /\ RmAll => IInv'
<1> SUFFICES ASSUME IInv, RmAll PROVE IInv'
  OBVIOUS
<1>1. /\ state = "configured" /\ state' = "starting" /\ pc' = "evt"
      /\ LoadLists(prov, done, flag')
      /\ flag' = [n \in Nodes |-> IF n \in prov THEN "rm" ELSE flag[n]]
      /\ UNCHANGED <<prios, offs, used, blBusy, prov, done, dead, late, reloaded>>
  BY DEF RmAll, Polled
<1>2. used = {} /\ ~blBusy  BY <1>1, NoSlots DEF IInv, Accing, WorkMatchesState
<1>3. prov \in SUBSET Nodes  BY DEF IInv, TypeOK
<1>4. TypeOK'
  <2>1. flag' \in [Nodes -> {"none", "rm", "bl"}]  BY <1>1 DEF IInv, TypeOK
  <2> QED  BY <1>1, <1>3, <2>1, LoadTypes DEF IInv, TypeOK
<1>5. Separate'  BY <1>1, <1>2, <1>3, LoadSeparates
<1> QED
  BY <1>1, <1>2, <1>4, <1>5 DEF IInv, WorkMatchesState, MarkedNotConfigured, ListInv,
                                FreshConfig, OrderInv, WorkStates

LEMMA RmBlClrInv == IInv /\ RmBlClr => IInv'
<1> SUFFICES ASSUME IInv, RmBlClr PROVE IInv'
  OBVIOUS
<1>1. /\ pc' = "evt" /\ LoadLists(prov, done, flag')
      /\ flag' = [n \in Nodes |-> IF n \in prov THEN flag[n] ELSE "none"]
      /\ dead' = (used # {} \/ blBusy)
      /\ reloaded' = (reloaded \/ state \notin {"configured", "starting"})
      /\ UNCHANGED <<state, prios, offs, used, blBusy, prov, done, late>>
  BY DEF RmBlClr, Polled
<1>2. prov \in SUBSET Nodes  BY DEF IInv, TypeOK
<1>3. flag' \in [Nodes -> {"none", "rm", "bl"}]  BY <1>1 DEF IInv, TypeOK
<1>4. TypeOK'  BY <1>1, <1>2, <1>3, LoadTypes DEF IInv, TypeOK
<1>5. ~dead' => Separate'
  <2> SUFFICES ASSUME ~dead' PROVE Separate'
    OBVIOUS
  <2>1. used = {}  BY <1>1
  <2> QED  BY <1>1, <1>2, <2>1, LoadSeparates
<1>6. WorkMatchesState'  BY <1>1 DEF IInv, WorkMatchesState
<1>7. MarkedNotConfigured'
  <2> SUFFICES ASSUME NEW t \in used, t.type = "config" PROVE flag'[t.node] = "none"
    BY <1>1 DEF MarkedNotConfigured
  <2>1. t.node \in Nodes  BY DEF IInv, TypeOK, Task
  <2>2. flag[t.node] = "none"  BY DEF IInv, MarkedNotConfigured
  <2> QED  BY <1>1, <2>1, <2>2
<1>8. FreshConfig'  BY <1>1 DEF LoadLists, Walked, FreshConfig
<1>9. OrderInv'  BY <1>1 DEF OrderInv, WorkStates
<1> QED  BY <1>4, <1>5, <1>6, <1>7, <1>8, <1>9 DEF IInv, ListInv

LEMMA SeqSetInv == ASSUME IInv, NEW s \in Orders, SeqSet(s) PROVE IInv'
  BY DEF SeqSet, Polled, lists, db, IInv, TypeOK, WorkMatchesState, MarkedNotConfigured,
         ListInv, Separate, FreshConfig, OrderInv, WorkStates

LEMMA EditInv ==
  ASSUME IInv, NEW n \in Nodes, NEW f \in {"rm", "bl"}, Edit(n, f) PROVE IInv'
<1>1. /\ state = "configured" /\ flag' = [flag EXCEPT ![n] = f]
      /\ UNCHANGED <<state, prios, offs, add, config, rm, bl, used, blBusy, prov, done, pc,
                     dead, late, reloaded>>
  BY DEF Edit, lists, hist
<1>2. used = {}  BY <1>1, NoSlots DEF IInv, Accing
<1>3. TypeOK'
  <2>1. flag' \in [Nodes -> {"none", "rm", "bl"}]  BY <1>1 DEF IInv, TypeOK
  <2> QED  BY <1>1, <2>1 DEF IInv, TypeOK
<1> QED
  BY <1>1, <1>2, <1>3 DEF IInv, WorkMatchesState, MarkedNotConfigured, ListInv, Separate,
                          FreshConfig, OrderInv, WorkStates

-----------------------------------------------------------------------------
(* Events *)

LEMMA ProvisionedInv ==
  ASSUME IInv, ~dead, NEW n \in Nodes, Provisioned(n) PROVE IInv'
<1>1. /\ pc = "evt" /\ n \notin prov /\ flag[n] = "none"
      /\ prov' = prov \cup {n} /\ add' = add \ {n} /\ config' = config \cup {n}
      /\ late' = IF state \in {"removing", "blacklisting"} THEN late \cup {n} ELSE late
      /\ UNCHANGED <<state, prios, offs, rm, bl, used, blBusy, done, flag, pc, dead, reloaded>>
  BY DEF Provisioned
<1>2. TypeOK'  BY <1>1 DEF IInv, TypeOK
<1>3. WorkMatchesState' /\ MarkedNotConfigured'
  BY <1>1 DEF IInv, WorkMatchesState, MarkedNotConfigured
<1>4. Separate'  BY <1>1 DEF IInv, ListInv, Separate
<1>5. FreshConfig'  BY <1>1 DEF IInv, FreshConfig
<1>6. OrderInv'
  <2> SUFFICES ASSUME state \in WorkStates, ~reloaded PROVE PastDone'
    BY <1>1 DEF OrderInv
  <2>1. PastDone  BY DEF IInv, OrderInv
  <2>2. ASSUME NEW o \in 1..offs, Before(o) PROVE Passed(o)'
    <3>1. Passed(o)  BY <2>1, <2>2 DEF PastDone
    <3> QED  BY <1>1, <3>1 DEF Passed, WorkStates
  <2> QED  BY <1>1, <2>1, <2>2 DEF PastDone, Before
<1> QED  BY <1>2, <1>3, <1>4, <1>5, <1>6 DEF IInv, ListInv

LEMMA NoMoreEventsInv == IInv /\ NoMoreEvents => IInv'
  BY DEF NoMoreEvents, lists, db, hist, IInv, TypeOK, WorkMatchesState, MarkedNotConfigured,
         ListInv, Separate, FreshConfig, OrderInv, PastDone, Passed, Before, WorkStates

-----------------------------------------------------------------------------
(* Work *)

LEMMA LoadInv == IInv /\ Load => IInv'
<1> SUFFICES ASSUME IInv, Load PROVE IInv'
  OBVIOUS
<1>1. /\ state = "starting" /\ pc' = "sched" /\ LoadLists(prov, done, flag)
      /\ UNCHANGED <<state, prios, offs, used, blBusy, prov, done, flag, dead, late, reloaded>>
  BY DEF Load, db, hist
<1>2. used = {}  BY <1>1, NoSlots DEF IInv, Accing
<1>3. prov \in SUBSET Nodes  BY DEF IInv, TypeOK
<1>4. TypeOK'  BY <1>1, <1>3, LoadTypes DEF IInv, TypeOK
<1>5. Separate'  BY <1>1, <1>2, <1>3, LoadSeparates
<1>6. FreshConfig'  BY <1>1 DEF LoadLists, Walked, FreshConfig
<1> QED
  BY <1>1, <1>4, <1>5, <1>6 DEF IInv, WorkMatchesState, MarkedNotConfigured, ListInv,
                                OrderInv, WorkStates

LEMMA AccEndInv ==
  ASSUME IInv, ~dead, NEW t \in used, NEW ok \in BOOLEAN, AccEnd(t, ok) PROVE IInv'
<1>1. /\ state \in Accing /\ pc = "work" /\ used' = used \ {t}
      /\ UNCHANGED <<state, prios, offs, add, config, rm, bl, blBusy, flag, pc, dead, late,
                     reloaded>>
  BY DEF AccEnd, lists, hist
<1>2. \/ UNCHANGED <<prov, done>>
      \/ done' = done \cup {t.node} /\ UNCHANGED prov
      \/ prov' = prov \ {t.node} /\ done' = done \ {t.node}
  BY DEF AccEnd
<1>3. Separate /\ t.node \in prov \ (config \cup rm \cup bl)  BY DEF IInv, ListInv, Separate
<1>4. TypeOK'
  <2>1. IsFiniteSet(used)  BY SlotsFinite DEF IInv, TypeOK
  <2>2. Cardinality(used') <= MaxConcurrent
    <3>1. Cardinality(used') <= Cardinality(used)  BY <1>1, <2>1, FS_Subset
    <3>2. Cardinality(used') \in Nat /\ Cardinality(used) \in Nat
      BY <1>1, <2>1, FS_Subset, FS_CardinalityType
    <3>3. Cardinality(used) <= MaxConcurrent  BY DEF IInv, TypeOK
    <3>4. MaxConcurrent \in Nat  BY MngAssumption DEF MngAssumption
    <3> HIDE DEF IInv
    <3> QED  BY <3>1, <3>2, <3>3, <3>4
  <2>3. prov' \subseteq Nodes /\ done' \subseteq prov'  BY <1>2, <1>3 DEF IInv, TypeOK
  <2>4. used' \subseteq Task  BY <1>1 DEF IInv, TypeOK
  <2> QED  BY <1>1, <2>2, <2>3, <2>4 DEF IInv, TypeOK
<1>5. WorkMatchesState' /\ MarkedNotConfigured'
  BY <1>1 DEF IInv, WorkMatchesState, MarkedNotConfigured
<1>6. Separate'  BY <1>1, <1>2, <1>3 DEF Separate
<1>7. FreshConfig'  BY <1>1 DEF IInv, FreshConfig
<1>8. OrderInv'
  BY <1>1 DEF IInv, OrderInv, PastDone, Passed, Before, Accing
<1> QED  BY <1>4, <1>5, <1>6, <1>7, <1>8 DEF IInv, ListInv

LEMMA BlLoopInv == IInv /\ BlLoop => IInv'
<1> SUFFICES ASSUME IInv, BlLoop PROVE IInv'
  OBVIOUS
<1>1. /\ state = "blacklisting" /\ pc' = "sched" /\ blBusy' = (blBusy \/ bl # {})
      /\ UNCHANGED <<state, prios, offs, add, config, rm, bl, used, prov, done, flag, dead,
                     late, reloaded>>
  BY DEF BlLoop, lists, db, hist
<1>2. OrderInv'  BY <1>1 DEF IInv, OrderInv, PastDone, Passed, Before
<1>3. TypeOK'  BY <1>1 DEF IInv, TypeOK
<1> QED
  BY <1>1, <1>2, <1>3 DEF IInv, WorkMatchesState, MarkedNotConfigured, ListInv, Separate,
                          FreshConfig

LEMMA BlDoneInv == IInv /\ ~dead /\ BlDone => IInv'
<1> SUFFICES ASSUME IInv, ~dead, BlDone PROVE IInv'
  OBVIOUS
<1>1. /\ state = "blacklisting" /\ pc = "work" /\ dead' = (bl = {}) /\ bl' = {}
      /\ prov' = prov \ bl /\ done' = done \ bl /\ blBusy' = FALSE
      /\ UNCHANGED <<state, prios, offs, add, config, rm, used, flag, pc, late, reloaded>>
  BY DEF BlDone, hist
<1>2. used = {}  BY <1>1, NoSlots DEF IInv, Accing
<1>3. TypeOK'  BY <1>1 DEF IInv, TypeOK
<1>4. Separate'  BY <1>1, <1>2 DEF IInv, ListInv, Separate
<1>5. FreshConfig'  BY <1>1 DEF IInv, FreshConfig
<1>6. OrderInv'  BY <1>1 DEF IInv, OrderInv, PastDone, Passed, Before
<1> QED
  BY <1>1, <1>2, <1>3, <1>4, <1>5, <1>6
  DEF IInv, WorkMatchesState, MarkedNotConfigured, ListInv

LEMMA IdleInv == IInv /\ Idle => IInv'
  BY DEF Idle, lists, db, hist, IInv, TypeOK, WorkMatchesState, MarkedNotConfigured,
         ListInv, Separate, FreshConfig, OrderInv, WorkStates

\* Filling the slots from one list: AccLoad while list is of kind type.
LEMMA AccLoadInv == IInv /\ ~dead /\ AccLoad => IInv'
<1> DEFINE type == IF state = "removing" THEN "rm" ELSE "config"
           list == IF state = "removing" THEN rm ELSE config
           free == MaxConcurrent - Cardinality(used)
<1> SUFFICES ASSUME IInv, ~dead, AccLoad PROVE IInv'
  OBVIOUS
<1>1. PICK S \in SUBSET list :
        /\ Cardinality(S) <= free
        /\ used' = used \cup [node : S, type : {type}]
        /\ IF type = "rm" THEN rm' = rm \ S /\ UNCHANGED config
                          ELSE config' = config \ S /\ UNCHANGED rm
  BY DEF AccLoad
<1>2. /\ state \in Accing /\ pc = "work" /\ pc' = "sched"
      /\ UNCHANGED <<state, prios, offs, add, bl, blBusy, prov, done, flag, dead, late,
                     reloaded>>
  BY DEF AccLoad, db, hist
<1>3. Separate  BY DEF IInv, ListInv
<1>4. S \subseteq Nodes /\ S \subseteq list  BY <1>1 DEF IInv, TypeOK
<1>5. TypeOK'
  <2>1. used' \subseteq Task /\ rm' \subseteq Nodes /\ config' \subseteq Nodes
    BY <1>1, <1>4 DEF IInv, TypeOK, Task
  <2>2. Cardinality(used') <= MaxConcurrent
    <3> DEFINE T == [node : S, type : {type}]
    <3>1. IsFiniteSet(used)  BY SlotsFinite DEF IInv, TypeOK
    <3>2. IsFiniteSet(T) /\ Cardinality(T) <= Cardinality(S)  BY <1>4, TasksOf
    <3>3. IsFiniteSet(S)  BY <1>4, MngAssumption, FS_Subset DEF MngAssumption
    <3> HIDE DEF T
    <3>4. Cardinality(used \cup T) = Cardinality(used) + Cardinality(T) - Cardinality(used \cap T)
      BY <3>1, <3>2, FS_Union
    <3>5. IsFiniteSet(used \cap T)  BY <3>1, FS_Subset
    <3>6. /\ Cardinality(used) \in Nat /\ Cardinality(T) \in Nat
          /\ Cardinality(S) \in Nat /\ Cardinality(used \cap T) \in Nat
      BY <3>1, <3>2, <3>3, <3>5, FS_CardinalityType
    <3>7. MaxConcurrent \in Nat  BY MngAssumption DEF MngAssumption
    <3>8. Cardinality(S) <= MaxConcurrent - Cardinality(used)  BY <1>1
    <3>9. used' = used \cup T  BY <1>1 DEF T
    <3>10. Cardinality(used \cup T) <= MaxConcurrent
      BY <3>2, <3>4, <3>6, <3>7, <3>8
    <3> QED  BY <3>9, <3>10
  <2>3. state' \in {"configured", "starting", "blacklisting"} \cup Accing
        /\ pc' \in {"cmd", "evt", "work", "sched"}
    BY <1>2
  <2> QED  BY <1>2, <2>1, <2>2, <2>3 DEF IInv, TypeOK
<1>6. \A t \in used' : t \in used \/ (t.node \in S /\ t.type = type)  BY <1>1
<1>7. WorkMatchesState'
  BY <1>2, <1>6 DEF IInv, WorkMatchesState, Accing
<1>8. MarkedNotConfigured'
  <2> SUFFICES ASSUME NEW t \in used', t.type = "config" PROVE flag[t.node] = "none"
    BY <1>2 DEF MarkedNotConfigured
  <2>1. CASE t \in used  BY <2>1 DEF IInv, MarkedNotConfigured
  <2>2. CASE t.node \in S /\ t.type = type
    <3>1. t.node \in config  BY <1>4, <2>2
    <3>2. \A n \in config : flag[n] = "none"
      BY <1>2 DEF IInv, FreshConfig, WorkStates, Accing
    <3> QED  BY <3>1, <3>2
  <2> QED  BY <1>6, <2>1, <2>2
<1>9. Separate'
  <2>1. CASE state = "removing"
    <3>1. rm' = rm \ S /\ config' = config /\ S \subseteq rm  BY <1>1, <1>4, <2>1
    <3>2. \A t, u \in [node : S, type : {type}] : t.node = u.node => t = u  OBVIOUS
    <3> HIDE DEF type, list
    <3> QED  BY <1>1, <1>2, <1>3, <1>6, <3>1, <3>2 DEF Separate
  <2>2. CASE state # "removing"
    <3>1. config' = config \ S /\ rm' = rm /\ S \subseteq config  BY <1>1, <1>4, <2>2
    <3>2. \A t, u \in [node : S, type : {type}] : t.node = u.node => t = u  OBVIOUS
    <3> HIDE DEF type, list
    <3> QED  BY <1>1, <1>2, <1>3, <1>6, <3>1, <3>2 DEF Separate
  <2> QED  BY <2>1, <2>2
<1>10. FreshConfig'  BY <1>1, <1>2 DEF IInv, FreshConfig, WorkStates, Accing
<1>11. OrderInv'
  <2> SUFFICES ASSUME state \in WorkStates, ~reloaded PROVE PastDone'
    BY <1>2 DEF OrderInv
  <2>1. PastDone  BY DEF IInv, OrderInv
  <2>2. rm' \subseteq rm /\ config' \subseteq config  BY <1>1
  <2>3. ASSUME NEW o \in 1..offs, Before(o) PROVE Passed(o)'
    <3>1. Passed(o)  BY <2>1, <2>3 DEF PastDone
    <3> QED  BY <1>2, <2>2, <3>1 DEF Passed
  <2> QED  BY <1>2, <2>1, <2>3 DEF PastDone, Before, Accing
<1> QED  BY <1>5, <1>7, <1>8, <1>9, <1>10, <1>11 DEF IInv, ListInv

-----------------------------------------------------------------------------
(* The next state *)

From == IF state = "starting" THEN 0 ELSE offs

\* The work of adding goes on as configuring.
GoesOn == state = "adding" /\ (config # {} \/ used # {})

\* The action at position o of the order has no work left.
NoWork(o) ==
  /\ prios[o] = "a" => add = {} /\ config \subseteq late
  /\ prios[o] = "r" => rm = {}
  /\ prios[o] = "b" => bl = {}

\* A state that is over leaves free slots, no key refresh and no work behind.
LEMMA StateOver ==
  ASSUME IInv, pc = "sched", ~Unfinished, ~GoesOn
  PROVE  /\ state \in WorkStates \cup {"starting"}
         /\ used = {} /\ ~blBusy
         /\ ~reloaded => \A o \in 1..From : Before(o) => NoWork(o)
<1>1. state \in {"configured", "starting", "blacklisting", "adding", "configuring", "removing"}
  BY DEF IInv, TypeOK, Accing
<1>2. state \in WorkStates \cup {"starting"}  BY <1>1 DEF Unfinished, WorkStates
<1>3. used = {}
  <2>1. CASE state \in Accing  BY <2>1 DEF Unfinished, GoesOn, Accing
  <2>2. CASE state \notin Accing  BY <2>2, NoSlots DEF IInv
  <2> QED  BY <2>1, <2>2
<1>4. ~blBusy  BY DEF Unfinished, IInv, WorkMatchesState
<1>5. ASSUME ~reloaded, NEW o \in 1..From, Before(o) PROVE NoWork(o)
  <2>1. state # "starting"  BY <1>5 DEF From
  <2>2. o \in 1..offs /\ state \in WorkStates  BY <1>2, <1>5, <2>1 DEF From
  <2>3. PastDone  BY <1>5, <2>2 DEF IInv, OrderInv
  <2>4. Passed(o)  BY <1>5, <2>2, <2>3 DEF PastDone
  <2>5. state = "removing" => rm = {}  BY DEF Unfinished
  <2>6. state = "blacklisting" => bl = {}  BY <1>4, <2>3 DEF PastDone
  <2>7. state \in {"adding", "configuring"} => add = {} /\ config = {}
    BY <2>3 DEF PastDone, Unfinished, GoesOn
  <2> QED  BY <2>4, <2>5, <2>6, <2>7 DEF Passed, NoWork
<1> QED  BY <1>2, <1>3, <1>4, <1>5

\* An action that loads no state has no work.
LEMMA LoadsNone == ASSUME NEW o, Loads(prios[o]) = "none" PROVE NoWork(o)
  BY DEF Loads, NoWork

\* The loop ends without a state only if no action that it reached has work.
LEMMA NoneLeft ==
  ASSUME NEW from \in 0..3, NextOffs(from) = {},
         NEW p \in (from + 1)..3, Before(p)
  PROVE  Loads(prios[p]) = "none"
<1>1. ASSUME NEW o \in from..2, Before(o + 1),
             \A q \in from..(o - 1) : Loads(prios[q + 1]) = "none"
      PROVE  Loads(prios[o + 1]) = "none"
  <2>1. \A q \in from..o : prios[q + 1] # "-"
    <3> SUFFICES ASSUME NEW q \in from..o PROVE prios[q + 1] # "-"
      OBVIOUS
    <3>1. q + 1 \in 1..(o + 1)  OBVIOUS
    <3> QED  BY <1>1, <3>1 DEF Before
  <2> QED  BY <1>1, <2>1 DEF NextOffs
<1>2. \A q \in 1..p : Before(q)
  <2> SUFFICES ASSUME NEW q \in 1..p PROVE Before(q)
    OBVIOUS
  <2>1. 1..q \subseteq 1..p  OBVIOUS
  <2> QED  BY <2>1 DEF Before
<1> DEFINE None(o) == from <= o /\ o + 1 <= p => Loads(prios[o + 1]) = "none"
<1>3. None(0)
  <2> SUFFICES ASSUME from <= 0, 1 <= p PROVE Loads(prios[0 + 1]) = "none"
    OBVIOUS
  <2>1. 0 \in from..2 /\ from..(0 - 1) = {} /\ 0 + 1 \in 1..p  OBVIOUS
  <2> QED  BY <1>1, <1>2, <2>1
<1>4. None(1)
  <2> SUFFICES ASSUME from <= 1, 2 <= p PROVE Loads(prios[1 + 1]) = "none"
    OBVIOUS
  <2>1. 1 \in from..2 /\ 1 + 1 \in 1..p  OBVIOUS
  <2>2. \A q \in from..(1 - 1) : q = 0 /\ from <= 0 /\ 0 + 1 <= p  OBVIOUS
  <2>3. \A q \in from..(1 - 1) : Loads(prios[q + 1]) = "none"  BY <1>3, <2>2
  <2> QED  BY <1>1, <1>2, <2>1, <2>3
<1>5. None(2)
  <2> SUFFICES ASSUME from <= 2, 3 <= p PROVE Loads(prios[2 + 1]) = "none"
    OBVIOUS
  <2>1. 2 \in from..2 /\ 2 + 1 \in 1..p  OBVIOUS
  <2>2. \A q \in from..(2 - 1) : q \in {0, 1} /\ from <= q /\ q + 1 <= p  OBVIOUS
  <2>3. \A q \in from..(2 - 1) : Loads(prios[q + 1]) = "none"  BY <1>3, <1>4, <2>2
  <2> QED  BY <1>1, <1>2, <2>1, <2>3
<1>6. PICK o \in {0, 1, 2} : p = o + 1 /\ from <= o
  <2>1. p = 1 \/ p = 2 \/ p = 3  OBVIOUS
  <2> QED  BY <2>1
<1>7. None(o)  BY <1>3, <1>4, <1>5
<1> QED  BY <1>6, <1>7

LEMMA SetMngStateInv == IInv /\ SetMngState => IInv'
<1> SUFFICES ASSUME IInv, SetMngState PROVE IInv'
  OBVIOUS
<1>1. /\ pc = "sched" /\ pc' = "cmd"
      /\ late' = IF state' = "configured" THEN {} ELSE late
      /\ reloaded' = (reloaded /\ state' # "configured")
      /\ UNCHANGED <<prios, add, config, rm, bl, used, blBusy, prov, done, flag, dead>>
  BY DEF SetMngState, lists, db
<1>2. ListInv' /\ MarkedNotConfigured'
  BY <1>1 DEF IInv, ListInv, Separate, MarkedNotConfigured
<1>3. ASSUME state' \in WorkStates \cup {"configured"}, offs' \in 0..3,
             WorkMatchesState', FreshConfig', OrderInv'
      PROVE  IInv'
  <2>1. TypeOK'  BY <1>1, <1>3 DEF IInv, TypeOK, WorkStates, Accing
  <2> QED  BY <1>2, <1>3, <2>1 DEF IInv
<1>4. offs \in 0..3  BY DEF IInv, TypeOK
<1>5. CASE Unfinished
  <2>1. state' = state /\ offs' = offs  BY <1>5 DEF SetMngState
  <2>2. state \in WorkStates \cup {"configured"}
    BY <1>5 DEF Unfinished, IInv, TypeOK, WorkStates, Accing
  <2>3. WorkMatchesState'  BY <1>1, <2>1 DEF IInv, WorkMatchesState
  <2>4. FreshConfig'  BY <1>1, <2>1, <2>2 DEF IInv, FreshConfig, WorkStates
  <2>5. OrderInv'
    BY <1>1, <2>1 DEF IInv, OrderInv, PastDone, Passed, Before, WorkStates
  <2> QED  BY <1>3, <1>4, <2>1, <2>2, <2>3, <2>4, <2>5
<1>6. CASE ~Unfinished /\ GoesOn
  <2>1. state = "adding" /\ state' = "configuring" /\ offs' = offs
    BY <1>6 DEF SetMngState, GoesOn
  <2>2. add = {}  BY <1>6, <2>1 DEF Unfinished
  <2>3. WorkMatchesState'  BY <1>1, <2>1 DEF IInv, WorkMatchesState
  <2>4. FreshConfig'  BY <1>1, <2>1 DEF IInv, FreshConfig, WorkStates
  <2>5. OrderInv'
    BY <1>1, <2>1, <2>2 DEF IInv, OrderInv, PastDone, Passed, Before, WorkStates
  <2> QED  BY <1>3, <1>4, <2>1, <2>3, <2>4, <2>5 DEF WorkStates
<1>7. CASE ~Unfinished /\ ~GoesOn /\ NextOffs(From) # {}
  <2>1. PICK o \in NextOffs(From) : state' = Loads(prios[o + 1]) /\ offs' = o + 1
    BY <1>7 DEF SetMngState, GoesOn, From
  <2>2. /\ state \in WorkStates \cup {"starting"}
        /\ used = {} /\ ~blBusy
        /\ ~reloaded => \A p \in 1..From : Before(p) => NoWork(p)
    BY <1>1, <1>7, StateOver
  <2>3. From \in 0..3  BY <1>4 DEF From
  <2>4. /\ o \in From..2 /\ Loads(prios[o + 1]) # "none"
        /\ \A q \in From..(o - 1) : Loads(prios[q + 1]) = "none"
    BY <2>1 DEF NextOffs
  <2>5. offs' \in 0..3  BY <2>1, <2>3, <2>4
  <2>6. state' \in WorkStates  BY <2>1, <2>4 DEF Loads, WorkStates
  <2>7. WorkMatchesState'  BY <1>1, <2>2 DEF WorkMatchesState
  <2>8. FreshConfig'
    <3>1. \A n \in config : flag[n] = "none"
      BY <1>1, <2>2 DEF IInv, FreshConfig
    <3> QED  BY <1>1, <3>1 DEF FreshConfig
  <2>9. OrderInv'
    <3> SUFFICES ASSUME ~reloaded' PROVE PastDone'
      BY DEF OrderInv
    <3>1. ~reloaded /\ late' = late  BY <1>1, <2>6 DEF WorkStates
    <3>2. ASSUME NEW p \in 1..offs', Before(p)' PROVE Passed(p)'
      <4>1. Before(p)  BY <1>1, <3>2 DEF Before
      <4>2. CASE p \in 1..From
        <5>1. NoWork(p)  BY <2>2, <3>1, <4>1, <4>2
        <5> QED  BY <1>1, <3>1, <5>1 DEF NoWork, Passed
      <4>3. CASE p \in (From + 1)..o
        <5>1. p - 1 \in From..(o - 1) /\ (p - 1) + 1 = p  BY <2>3, <2>4, <4>3
        <5>2. Loads(prios[p]) = "none"  BY <2>4, <5>1
        <5>3. NoWork(p)  BY <5>2, LoadsNone
        <5> QED  BY <1>1, <3>1, <5>3 DEF NoWork, Passed
      <4>4. CASE p = o + 1
        <5>1. state' = Loads(prios[p])  BY <2>1, <4>4
        <5> QED  BY <1>1, <2>4, <4>4, <5>1 DEF Loads, Passed
      <4>5. p \in 1..From \/ p \in (From + 1)..o \/ p = o + 1
        BY <2>1, <2>3, <2>4
      <4> QED  BY <4>2, <4>3, <4>4, <4>5
    <3>3. state' = "configuring" => add' = {}  BY <1>1, <2>1 DEF Loads
    <3> QED  BY <1>1, <3>2, <3>3 DEF PastDone
  <2> QED  BY <1>3, <2>5, <2>6, <2>7, <2>8, <2>9
<1>8. CASE ~Unfinished /\ ~GoesOn /\ NextOffs(From) = {}
  <2>1. state' = "configured" /\ offs' = 0  BY <1>8 DEF SetMngState, GoesOn, From
  <2>2. used = {} /\ ~blBusy  BY <1>1, <1>8, StateOver
  <2>3. WorkMatchesState' /\ FreshConfig' /\ OrderInv'
    BY <1>1, <2>1, <2>2 DEF WorkMatchesState, FreshConfig, OrderInv, WorkStates
  <2> QED  BY <1>3, <2>1, <2>3
<1> QED  BY <1>5, <1>6, <1>7, <1>8

-----------------------------------------------------------------------------
(* The theorems *)

LEMMA NextInv == IInv /\ [Next]_vars => IInv'
<1> SUFFICES ASSUME IInv, [Next]_vars PROVE IInv'
  OBVIOUS
<1>1. CASE UNCHANGED vars
  BY <1>1 DEF vars, IInv, TypeOK, WorkMatchesState, MarkedNotConfigured, ListInv, Separate,
              FreshConfig, OrderInv, PastDone, Passed, Before
<1>2. ASSUME ~dead, Round PROVE IInv'
  <2>1. CASE PollCmd
    <3>1. ASSUME NEW s \in Orders, SeqSet(s) PROVE IInv'  BY <3>1, SeqSetInv
    <3> QED
      BY <2>1, <3>1, NoCmdInv, SyncStartInv, SyncStopInv, RmAllInv, RmBlClrInv DEF PollCmd
  <2>2. CASE Work  BY <1>2, <2>2, LoadInv, AccLoadInv, BlLoopInv, IdleInv DEF Work
  <2> QED  BY <1>2, <2>1, <2>2, NoMoreEventsInv, SetMngStateInv DEF Round
<1>3. ASSUME NEW n \in Nodes, NEW f \in {"rm", "bl"}, Edit(n, f) PROVE IInv'
  BY <1>3, EditInv
<1>4. ASSUME ~dead, NEW n \in Nodes, Provisioned(n) PROVE IInv'  BY <1>4, ProvisionedInv
<1>5. ASSUME ~dead, NEW t \in used, NEW ok \in BOOLEAN, AccEnd(t, ok) PROVE IInv'
  BY <1>5, AccEndInv
<1> QED  BY <1>1, <1>2, <1>3, <1>4, <1>5, BlDoneInv DEF Next

\* The invariant of the scheduler, for any nodes, slots, orders and commands.
THEOREM MngInvariant == Spec => []IInv
<1>1. Init => IInv  BY InitInv
<1>2. IInv /\ [Next]_vars => IInv'  BY NextInv
<1> QED  BY <1>1, <1>2, PTL DEF Spec

\* The variables of the scheduler keep their types; in particular, no more slots
\* are in use than there are (mng.cache.config).
THEOREM TypeCorrect == Spec => []TypeOK
<1>1. IInv => TypeOK  BY DEF IInv
<1> QED  BY <1>1, MngInvariant, PTL

\* set_mng_state changes the state only when the slots and the key refresh of the
\* state before are over, so that the kinds of work exclude each other.
THEOREM WorkSeparate == Spec => []WorkMatchesState
<1>1. IInv => WorkMatchesState  BY DEF IInv
<1> QED  BY <1>1, MngInvariant, PTL

\* The lists are made from the marks (load_lists) and marks are set only between
\* two syncs, so that no marked node gets into a slot to be configured.
THEOREM MarkedUntouched == Spec => []MarkedNotConfigured
<1>1. IInv => MarkedNotConfigured  BY DEF IInv
<1> QED  BY <1>1, MngInvariant, PTL

\* When set_mng_state reports `Sync Done', no slot and no key refresh is left, and
\* unless clrrb loaded the lists anew, each action the order reaches has no work
\* but nodes that were provisioned after its turn.
LEMMA DoneStep ==
  ASSUME IInv, SetMngState, state # "configured", state' = "configured"
  PROVE  /\ used = {} /\ ~blBusy
         /\ ~reloaded => \A o \in 1..3 : Before(o) => NoWork(o)
<1>1. ~Unfinished /\ ~GoesOn
  <2>1. ~Unfinished  BY DEF SetMngState
  <2> QED  BY <2>1 DEF SetMngState, GoesOn
<1>2. NextOffs(From) = {}
  <2> SUFFICES ASSUME NextOffs(From) # {} PROVE FALSE
    OBVIOUS
  <2>1. PICK o \in NextOffs(From) : state' = Loads(prios[o + 1])
    BY <1>1 DEF SetMngState, GoesOn, From
  <2> QED  BY <2>1 DEF Loads
<1>3. /\ used = {} /\ ~blBusy
      /\ ~reloaded => \A o \in 1..From : Before(o) => NoWork(o)
  BY <1>1, StateOver DEF SetMngState
<1>4. From \in 0..3  BY DEF From, IInv, TypeOK
<1>5. ASSUME ~reloaded, NEW o \in 1..3, Before(o) PROVE NoWork(o)
  <2>1. CASE o \in 1..From  BY <1>3, <1>5, <2>1
  <2>2. CASE o \in (From + 1)..3
    <3>1. Loads(prios[o]) = "none"  BY <1>2, <1>4, <1>5, <2>2, NoneLeft
    <3> QED  BY <3>1, LoadsNone
  <2>3. o \in 1..From \/ o \in (From + 1)..3  BY <1>4
  <2> QED  BY <2>1, <2>2, <2>3
<1> QED  BY <1>3, <1>5

\* `Sync Done' is reported only when the work of the order is over.
THEOREM SyncDone == Spec => SyncDoneMeansDone
<1> DEFINE Step ==
      state # "configured" /\ state' = "configured" =>
        /\ used = {} /\ ~blBusy
        /\ ~reloaded => /\ Asked("a") => add = {} /\ config \subseteq late
                        /\ Asked("r") => rm = {}
                        /\ Asked("b") => bl = {}
<1>1. IInv /\ [Next]_vars => Step
  <2> SUFFICES ASSUME IInv, [Next]_vars, state # "configured", state' = "configured"
               PROVE  Step
    OBVIOUS
  <2>1. SetMngState
    <3>1. state' # state  OBVIOUS
    <3>2. Round
      BY <3>1 DEF Next, vars, Edit, Provisioned, AccEnd, BlDone
    <3>3. CASE PollCmd
      BY <3>1, <3>3 DEF PollCmd, NoCmd, SyncStart, SyncStop, RmAll, RmBlClr, SeqSet
    <3>4. ~Work /\ ~NoMoreEvents
      BY <3>1 DEF Work, NoMoreEvents, Load, AccLoad, BlLoop, Idle
    <3> QED  BY <3>2, <3>3, <3>4 DEF Round
  <2>2. /\ used = {} /\ ~blBusy
        /\ ~reloaded => \A o \in 1..3 : Before(o) => NoWork(o)
    BY <2>1, DoneStep
  <2> QED  BY <2>2 DEF Asked, Before, NoWork
<1>2. IInv /\ [Next]_vars => [Step]_vars  BY <1>1
<1> QED  BY <1>2, MngInvariant, PTL DEF Spec, SyncDoneMeansDone

-----------------------------------------------------------------------------
(* Which commands can bring the program down *)

\* While key refresh runs, what it was started for is still in the list.
BusyListed == ~dead /\ (blBusy => bl # {})

\* One step without sync 0 and without clrrb.
LEMMA BusyStep ==
  ASSUME Commands \cap {"sync 0", "clrrb"} = {}, IInv, BusyListed, [Next]_vars
  PROVE  BusyListed'
<1> USE DEF BusyListed
<1>1. blBusy => state = "blacklisting"
  BY DEF IInv, WorkMatchesState
<1>2. CASE PollCmd
  <2>1. ~SyncStop /\ ~RmBlClr
    BY DEF SyncStop, RmBlClr
  <2>2. CASE NoCmd
    BY <2>2 DEF NoCmd, Polled, lists
  <2>3. CASE SyncStart
    BY <2>3 DEF SyncStart, Polled, lists
  <2>4. CASE RmAll
    BY <2>4, <1>1 DEF RmAll, Polled
  <2>5. ASSUME NEW s \in Orders, SeqSet(s) PROVE BusyListed'
    BY <2>5 DEF SeqSet, Polled, lists
  <2> QED
    BY <1>2, <2>1, <2>2, <2>3, <2>4, <2>5 DEF PollCmd
<1>3. CASE NoMoreEvents
  BY <1>3 DEF NoMoreEvents, lists
<1>4. CASE Work
  <2>1. CASE Load
    BY <2>1, <1>1 DEF Load
  <2>2. CASE AccLoad
    BY <2>2, Zenon DEF AccLoad
  <2>3. CASE BlLoop
    BY <2>3 DEF BlLoop, lists
  <2>4. CASE Idle
    BY <2>4 DEF Idle, lists
  <2> QED
    BY <1>4, <2>1, <2>2, <2>3, <2>4 DEF Work
<1>5. CASE SetMngState
  BY <1>5 DEF SetMngState, lists
<1>6. ASSUME NEW n \in Nodes, NEW f \in {"rm", "bl"}, Edit(n, f) PROVE BusyListed'
  BY <1>6 DEF Edit, lists
<1>7. ASSUME NEW t \in used, NEW ok \in BOOLEAN, AccEnd(t, ok) PROVE BusyListed'
  BY <1>7 DEF AccEnd, lists
<1>8. CASE BlDone
  BY <1>8 DEF BlDone
<1>9. CASE UNCHANGED vars
  BY <1>9 DEF vars, lists
<1>10. ASSUME NEW n \in Nodes, Provisioned(n) PROVE BusyListed'
  BY <1>10 DEF Provisioned
<1> HIDE DEF BusyListed
<1> QED
  BY <1>2, <1>3, <1>4, <1>5, <1>6, <1>7, <1>8, <1>9, <1>10 DEF Next, Round

\* No node_t is used that does not exist unless the user stops a sync or gives
\* clrrb: every other command, in any order with the steps of the loop, is safe,
\* and blacklisting always finds the nodes it was started for (bl_loop).
THEOREM StopSafe ==
  ASSUME Commands \cap {"sync 0", "clrrb"} = {}
  PROVE  Spec => []StopIsSafe
<1>1. Init => BusyListed
  BY DEF Init, BusyListed
<1>2. IInv /\ BusyListed /\ [Next]_vars => BusyListed'
  BY BusyStep
<1>3. BusyListed => StopIsSafe
  BY DEF BusyListed, StopIsSafe
<1> QED
  BY <1>1, <1>2, <1>3, MngInvariant, PTL DEF Spec

-----------------------------------------------------------------------------
(* What holds blacklisting up *)

\* The loop has come to offs without a "-", or a stop has ended it.
Reached == state \in WorkStates => offs = 3 \/ Before(offs)

\* Blacklisting is the action at offs, unless a stop has cleared the lists.
AtB ==
  state = "blacklisting" /\ ~reloaded =>
    rm = {} \/ (offs \in 1..3 /\ prios[offs] = "b" /\ Before(offs))

\* A step that leaves the state, the order and the position alone.
LEMMA SameHeld ==
  ASSUME Reached, AtB, UNCHANGED <<state, prios, offs>>,
         state = "blacklisting" => rm' = rm \/ rm' = {} \/ reloaded',
         reloaded => reloaded'
  PROVE  Reached' /\ AtB'
BY DEF Reached, AtB, Before

LEMMA SetMngStateHeld ==
  ASSUME IInv, Reached, AtB, SetMngState PROVE Reached' /\ AtB'
<1>1. /\ reloaded' = (reloaded /\ state' # "configured")
      /\ UNCHANGED <<prios, rm>> /\ pc = "sched"
      /\ offs \in 0..3
  BY DEF SetMngState, lists, IInv, TypeOK
<1>2. CASE Unfinished
  <2>1. state' = state /\ offs' = offs  BY <1>2 DEF SetMngState
  <2>2. state = "blacklisting" /\ reloaded => reloaded'  BY <1>1, <2>1
  <2> QED  BY <1>1, <2>1, <2>2 DEF Reached, AtB, Before
<1>3. CASE ~Unfinished /\ GoesOn
  <2>1. state = "adding" /\ state' = "configuring" /\ offs' = offs
    BY <1>3 DEF SetMngState, GoesOn
  <2> QED  BY <1>1, <2>1 DEF Reached, AtB, Before, WorkStates
<1>4. CASE ~Unfinished /\ ~GoesOn /\ NextOffs(From) # {}
  <2>1. PICK o \in NextOffs(From) : state' = Loads(prios[o + 1]) /\ offs' = o + 1
    BY <1>4 DEF SetMngState, GoesOn, From
  <2>2. state \in WorkStates \cup {"starting"}  BY <1>1, <1>4, StateOver
  <2>3. From \in 0..3 /\ o \in From..2 /\ \A q \in From..o : prios[q + 1] # "-"
    BY <1>1, <2>1 DEF From, NextOffs
  <2>4. From = 0 \/ Before(From)
    <3>1. CASE state = "starting"  BY <3>1 DEF From
    <3>2. CASE state \in WorkStates
      <4>1. From = offs  BY <3>2 DEF From, WorkStates
      <4>2. offs # 3  BY <2>3, <4>1
      <4> QED  BY <3>2, <4>1, <4>2 DEF Reached
    <3> QED  BY <2>2, <3>1, <3>2
  <2>5. Before(o + 1)
    <3> SUFFICES ASSUME NEW q \in 1..(o + 1) PROVE prios[q] # "-"
      BY DEF Before
    <3>1. CASE q \in 1..From  BY <2>3, <2>4, <3>1 DEF Before
    <3>2. CASE q \notin 1..From
      <4>1. q - 1 \in From..o /\ (q - 1) + 1 = q  BY <2>3, <3>2
      <4> QED  BY <2>3, <4>1
    <3> QED  BY <3>1, <3>2
  <2>6. state' = "blacklisting" => prios[o + 1] = "b"  BY <2>1 DEF Loads
  <2>7. offs' \in 1..3 /\ Before(offs)'
    BY <1>1, <2>1, <2>3, <2>5 DEF Before
  <2> QED  BY <1>1, <2>1, <2>6, <2>7 DEF Reached, AtB
<1>5. CASE ~Unfinished /\ ~GoesOn /\ NextOffs(From) = {}
  <2>1. state' = "configured"  BY <1>5 DEF SetMngState, GoesOn, From
  <2> QED  BY <2>1 DEF Reached, AtB, WorkStates
<1> QED  BY <1>2, <1>3, <1>4, <1>5

LEMMA NextHeld ==
  ASSUME IInv, Reached, AtB, [Next]_vars PROVE Reached' /\ AtB'
<1>1. CASE NoCmd
  BY <1>1, SameHeld DEF NoCmd, lists
<1>2. CASE SyncStart \/ RmAll
  BY <1>2 DEF SyncStart, RmAll, Reached, AtB, WorkStates
<1>3. CASE SyncStop
  BY <1>3 DEF SyncStop, ListsClr, Reached, AtB
<1>4. CASE RmBlClr
  <2>1. state = "blacklisting" => reloaded'  BY <1>4 DEF RmBlClr
  <2>2. UNCHANGED <<state, prios, offs>> /\ (reloaded => reloaded')  BY <1>4 DEF RmBlClr
  <2> QED  BY <2>1, <2>2, SameHeld
<1>5. ASSUME NEW s \in Orders, SeqSet(s) PROVE Reached' /\ AtB'
  BY <1>5 DEF SeqSet, Reached, AtB, WorkStates
<1>6. CASE NoMoreEvents
  BY <1>6, SameHeld DEF NoMoreEvents, lists, hist
<1>7. CASE Work
  <2>1. UNCHANGED <<state, prios, offs, reloaded>>
    BY <1>7 DEF Work, Load, AccLoad, BlLoop, Idle, hist
  <2>2. state = "blacklisting" => rm' = rm
    BY <1>7 DEF Work, Load, AccLoad, BlLoop, Idle, Accing, lists
  <2> QED  BY <2>1, <2>2, SameHeld
<1>8. ASSUME NEW n \in Nodes, NEW f \in {"rm", "bl"}, Edit(n, f) PROVE Reached' /\ AtB'
  BY <1>8, SameHeld DEF Edit, lists, hist
<1>9. ASSUME NEW n \in Nodes, Provisioned(n) PROVE Reached' /\ AtB'
  BY <1>9, SameHeld DEF Provisioned
<1>10. ASSUME NEW t \in used, NEW ok \in BOOLEAN, AccEnd(t, ok) PROVE Reached' /\ AtB'
  BY <1>10, SameHeld DEF AccEnd, lists, hist
<1>11. CASE BlDone
  BY <1>11, SameHeld DEF BlDone, hist
<1>12. CASE UNCHANGED vars
  BY <1>12, SameHeld DEF vars
<1> QED
  BY <1>1, <1>2, <1>3, <1>4, <1>5, <1>6, <1>7, <1>8, <1>9, <1>10, <1>11, <1>12, SetMngStateHeld
  DEF Next, Round, PollCmd

\* set_mng_state looks at lists.rm where it means lists.bl, but finds it empty in every
\* sync whose order removes before it blacklists, so that this does not hold it up.
THEOREM RemovedBefore == Spec => []NotHeldUp
<1>1. Init => Reached /\ AtB  BY DEF Init, Reached, AtB, WorkStates
<1>2. IInv /\ (Reached /\ AtB) /\ [Next]_vars => (Reached /\ AtB)'  BY NextHeld
<1>3. IInv /\ AtB => NotHeldUp
  <2> SUFFICES ASSUME IInv, AtB, state = "blacklisting", RemovesFirst, ~reloaded
               PROVE  rm = {}
    BY DEF NotHeldUp
  <2>1. CASE offs \in 1..3 /\ prios[offs] = "b" /\ Before(offs)
    <3>1. Asked("b")  BY <2>1 DEF Asked, Before
    <3>2. PICK r \in 1..offs : prios[r] = "r"  BY <2>1, <3>1 DEF RemovesFirst
    <3>3. Before(r)
      <4>1. 1..r \subseteq 1..offs  BY <2>1
      <4> QED  BY <2>1, <4>1 DEF Before
    <3>4. Passed(r)  BY <3>3 DEF IInv, OrderInv, PastDone, WorkStates
    <3> QED  BY <3>2, <3>4 DEF Passed
  <2> QED  BY <2>1 DEF AtB
<1> QED  BY <1>1, <1>2, <1>3, MngInvariant, PTL DEF Spec

\* If it is not empty (blacklisting first, a node to be removed), set_mng_state returns
\* early in every round: without a stop or clrrb the sync never ends.
THEOREM HeldUpForGood ==
  ASSUME Commands \cap {"sync 0", "clrrb"} = {}
  PROVE  Spec => HeldUp
<1> DEFINE Step == state = "blacklisting" /\ rm # {} => state' = state /\ rm' = rm
<1>1. [Next]_vars => [Step]_vars
  <2> SUFFICES ASSUME Next, state = "blacklisting", rm # {}
               PROVE  state' = state /\ rm' = rm
    OBVIOUS
  <2>1. ~SyncStop /\ ~RmBlClr  BY DEF SyncStop, RmBlClr
  <2>2. CASE PollCmd
    BY <2>1, <2>2 DEF PollCmd, NoCmd, SyncStart, RmAll, SeqSet, lists
  <2>3. CASE Work
    BY <2>3 DEF Work, Load, AccLoad, BlLoop, Idle, Accing, lists
  <2>4. CASE SetMngState
    <3>1. Unfinished  BY DEF Unfinished
    <3> QED  BY <2>4, <3>1 DEF SetMngState, lists
  <2>5. CASE NoMoreEvents \/ BlDone
    BY <2>5 DEF NoMoreEvents, BlDone, lists
  <2>6. ASSUME NEW n \in Nodes, NEW f \in {"rm", "bl"}, Edit(n, f)
        PROVE  state' = state /\ rm' = rm
    BY <2>6 DEF Edit, lists
  <2>7. ASSUME NEW n \in Nodes, Provisioned(n) PROVE state' = state /\ rm' = rm
    BY <2>7 DEF Provisioned
  <2>8. ASSUME NEW t \in used, NEW ok \in BOOLEAN, AccEnd(t, ok)
        PROVE  state' = state /\ rm' = rm
    BY <2>8 DEF AccEnd, lists
  <2> QED  BY <2>2, <2>3, <2>4, <2>5, <2>6, <2>7, <2>8 DEF Next, Round
<1> QED  BY <1>1, PTL DEF Spec, HeldUp
=============================================================================
