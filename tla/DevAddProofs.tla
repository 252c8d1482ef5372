---------------------------- MODULE DevAddProofs ----------------------------
(***************************************************************************)
(* Proofs about DevAdd for any devices, any number of sessions, a queue of *)
(* any length, all failures and commands: the host knows every session of  *)
(* the NCP target, and database and NCP target agree on who is             *)
(* provisioned.                                                            *)
(*                                                                         *)
(* Both hang on the order in the queue: an answer about a device, and the  *)
(* beacons that it sent before, are handled one after the other.           *)
(***************************************************************************)
EXTENDS DevAdd, FiniteSetTheorems, TLAPS

-----------------------------------------------------------------------------
(* The inductive invariant *)

Outcome(i) == q[i].type # "beacon"

QueueTypes == q \in Seq(Event) /\ \A i \in 1..Len(q) : Outcome(i) => q[i].dev \in Devs

\* A session has one outcome, and its device is in no session until that is handled.
OneOutcome ==
  \A i \in 1..Len(q) : Outcome(i) =>
    /\ q[i].dev \notin sess
    /\ \A k \in 1..Len(q) : Outcome(k) /\ q[k].dev = q[i].dev => k = i

\* The host forgets a session whose outcome is in the queue (ADD_NO_RSP_TIMEOUT) only
\* with no beacon of the device before that, which would start another session.
BeaconsFirst ==
  \A i, j \in 1..Len(q) :
    Outcome(i) /\ q[i].dev \notin Cached /\ j < i /\ ~Outcome(j) => q[j].dev # q[i].dev

\* The reason: all that is in the queue when add_loop runs came after the events
\* were drained, and a device does not send beacons while it is in a session.
SinceDrained ==
  pc = "work" => \A j \in 1..Len(q) : ~Outcome(j) =>
    /\ q[j].dev \notin sess
    /\ \A i \in 1..Len(q) : j < i /\ Outcome(i) => q[i].dev # q[j].dev

QueueInv == QueueTypes /\ OneOutcome /\ BeaconsFirst /\ SinceDrained

\* Sessions and outcomes are about devices that still are to be added.
OnlyAdding ==
  /\ freeMode # 2
  /\ sess \cup Pending \subseteq add
  /\ state # "adding" => sess = {} /\ Pending = {}

OutcomeKnown ==
  /\ sess \cap ddb = {} /\ ddb \subseteq member
  /\ \A i \in 1..Len(q) : Outcome(i) => (q[i].dev \in ddb <=> q[i].type # "fail")

\* What may still send a beacon is in the list.
ToBeAdded ==
  state \in {"adding", "working"} \/ (state = "starting" /\ pc = "sched") =>
    Devs \ (prov \cup Marked \cup member) \subseteq add

\* A beacon from before the device became a member is handled before the outcome.
StaleBeacons ==
  \A j \in 1..Len(q) : ~Outcome(j) /\ q[j].dev \in member =>
    \E i \in 1..Len(q) : j < i /\ Outcome(i) /\ q[i].dev = q[j].dev

Untouched == ~touched => OnlyAdding /\ OutcomeKnown /\ ToBeAdded /\ StaleBeacons

IInv == TypeOK /\ SessionsTracked /\ QueueInv /\ Untouched /\ DbFollowsNcp

LEMMA PendingIs ==
  \A e : e \in Pending <=> \E i \in 1..Len(q) : Outcome(i) /\ q[i].dev = e
  BY DEF Pending, Outcome

LEMMA InitInv == Init => IInv
<1> SUFFICES ASSUME Init PROVE IInv
  OBVIOUS
<1>1. q = <<>> /\ Len(q) = 0 /\ 1..Len(q) = {} /\ q \in Seq(Event)  BY DEF Init
<1>2. cache \in [1..MaxSessions -> Devs \cup {None}]  BY DEF Init
<1>3. TypeOK  BY <1>1, <1>2 DEF Init, TypeOK
<1>4. SessionsTracked  BY DEF Init, SessionsTracked
<1>5. QueueInv
  BY <1>1 DEF Init, QueueInv, QueueTypes, OneOutcome, BeaconsFirst, SinceDrained
<1>6. Pending = {}  BY <1>1 DEF Pending
<1>7. Untouched /\ DbFollowsNcp
  BY <1>1, <1>6 DEF Init, Untouched, OnlyAdding, OutcomeKnown, ToBeAdded, StaleBeacons,
                    DbFollowsNcp
<1> QED  BY <1>3, <1>4, <1>5, <1>7 DEF IInv

-----------------------------------------------------------------------------
(* The queue *)

\* The event at the head of the queue goes.
LEMMA Dequeue ==
  ASSUME QueueTypes, NEW t, NEW d, Handle(t, d)
  PROVE  /\ q' \in Seq(Event) /\ pc = "evt" /\ pc' = "evt"
         /\ 1 \in 1..Len(q) /\ q[1].type = t /\ q[1].dev = d
         /\ \A i \in 1..Len(q') : i + 1 \in 1..Len(q) /\ q'[i] = q[i + 1]
         /\ \A i \in 1..Len(q) : i # 1 => i - 1 \in 1..Len(q') /\ q'[i - 1] = q[i]
<1>1. /\ pc = "evt" /\ pc' = "evt" /\ q # <<>> /\ q' = Tail(q)
      /\ Head(q) = [type |-> t, dev |-> d]
  BY DEF Handle
<1>2. q \in Seq(Event)  BY DEF QueueTypes
<1>3. q' \in Seq(Event) /\ Len(q) \in Nat /\ Len(q') = Len(q) - 1 /\ Len(q) >= 1
  BY <1>1, <1>2
<1>4. q[1] = [type |-> t, dev |-> d]  BY <1>1, <1>2
<1>5. \A i \in 1..Len(q') : i + 1 \in 1..Len(q) /\ q'[i] = q[i + 1]  BY <1>1, <1>2, <1>3
<1>6. \A i \in 1..Len(q) : i # 1 => i - 1 \in 1..Len(q') /\ q'[i - 1] = q[i]
  BY <1>1, <1>2, <1>3
<1> QED  BY <1>1, <1>3, <1>4, <1>5, <1>6

\* The order of the queue stays, if a session starts only for a device without an
\* outcome and the host forgets only the device of an outcome it has handled.
LEMMA DequeueOrder ==
  ASSUME QueueInv, NEW t, NEW d, Handle(t, d),
         \A e \in sess' : e \in sess \/ e \notin Pending,
         \A e \in Cached : e \in Cached' \/ (e = d /\ t # "beacon")
  PROVE  QueueInv'
<1>1. QueueTypes /\ OneOutcome /\ BeaconsFirst  BY DEF QueueInv
<1>2. /\ q' \in Seq(Event) /\ pc' = "evt"
      /\ 1 \in 1..Len(q) /\ q[1].type = t /\ q[1].dev = d
      /\ \A i \in 1..Len(q') : i + 1 \in 1..Len(q) /\ q'[i] = q[i + 1]
  BY <1>1, Dequeue
<1>3. \A i \in 1..Len(q') : Outcome(i)' <=> Outcome(i + 1)  BY <1>2 DEF Outcome
<1>4. QueueTypes'
  BY <1>1, <1>2, <1>3 DEF QueueTypes
<1>5. OneOutcome'
  <2> SUFFICES ASSUME NEW i \in 1..Len(q'), Outcome(i)'
               PROVE  /\ q'[i].dev \notin sess'
                      /\ \A k \in 1..Len(q') : Outcome(k)' /\ q'[k].dev = q'[i].dev => k = i
    BY DEF OneOutcome
  <2>1. i + 1 \in 1..Len(q) /\ Outcome(i + 1) /\ q'[i] = q[i + 1]  BY <1>2, <1>3
  <2>2. q[i + 1].dev \notin sess /\ q[i + 1].dev \in Pending
    BY <1>1, <2>1, PendingIs DEF OneOutcome
  <2>3. ASSUME NEW k \in 1..Len(q'), Outcome(k)', q'[k].dev = q'[i].dev PROVE k = i
    <3>1. k + 1 \in 1..Len(q) /\ Outcome(k + 1) /\ q[k + 1].dev = q[i + 1].dev
      BY <1>2, <1>3, <2>1, <2>3
    <3>2. k + 1 = i + 1  BY <1>1, <2>1, <3>1 DEF OneOutcome
    <3> QED  BY <3>2
  <2> QED  BY <2>1, <2>2, <2>3
<1>6. BeaconsFirst'
  <2> SUFFICES ASSUME NEW i \in 1..Len(q'), NEW j \in 1..Len(q'),
                      Outcome(i)', q'[i].dev \notin Cached', j < i, ~Outcome(j)'
               PROVE  q'[j].dev # q'[i].dev
    BY DEF BeaconsFirst
  <2>1. /\ i + 1 \in 1..Len(q) /\ Outcome(i + 1) /\ q'[i] = q[i + 1]
        /\ j + 1 \in 1..Len(q) /\ ~Outcome(j + 1) /\ q'[j] = q[j + 1] /\ j + 1 < i + 1
    BY <1>2, <1>3
  <2>2. q[i + 1].dev \notin Cached
    <3> SUFFICES ASSUME q[i + 1].dev \in Cached PROVE FALSE
      OBVIOUS
    <3>1. q[i + 1].dev = d /\ t # "beacon"  BY <2>1
    <3>2. Outcome(1) /\ q[1].dev = q[i + 1].dev  BY <1>2, <3>1 DEF Outcome
    <3>3. i + 1 = 1  BY <1>1, <1>2, <2>1, <3>2 DEF OneOutcome
    <3> QED  BY <3>3
  <2> QED  BY <1>1, <2>1, <2>2 DEF BeaconsFirst
<1>7. SinceDrained'  BY <1>2 DEF SinceDrained
<1> QED  BY <1>4, <1>5, <1>6, <1>7 DEF QueueInv

\* An event is added at the end of the queue.
LEMMA Enqueue ==
  ASSUME QueueTypes, NEW e, q' = Append(q, e), e \in Event
  PROVE  /\ q' \in Seq(Event) /\ Len(q) \in Nat /\ Len(q') = Len(q) + 1
         /\ \A i \in 1..Len(q) : i \in 1..Len(q') /\ q'[i] = q[i]
         /\ Len(q') \in 1..Len(q') /\ q'[Len(q')] = e
         /\ \A i \in 1..Len(q') : i \in 1..Len(q) \/ i = Len(q')
<1>1. q \in Seq(Event)  BY DEF QueueTypes
<1>2. q' \in Seq(Event) /\ Len(q) \in Nat /\ Len(q') = Len(q) + 1  BY <1>1
<1>3. \A i \in 1..Len(q) : q'[i] = q[i]  BY <1>1
<1>4. q'[Len(q')] = e  BY <1>1, <1>2
<1> QED  BY <1>2, <1>3, <1>4

\* A beacon comes only from a device that is in no session.
LEMMA BeaconOrder ==
  ASSUME QueueInv, NEW d \in Devs \cup Strangers, Beacon(d) PROVE QueueInv'
<1>1. QueueTypes /\ OneOutcome /\ BeaconsFirst /\ SinceDrained  BY DEF QueueInv
<1>2. /\ d \notin sess /\ q' = Append(q, [type |-> "beacon", dev |-> d])
      /\ UNCHANGED <<cache, pc, sess>>
  BY DEF Beacon, Host, ncp
<1> DEFINE e == [type |-> "beacon", dev |-> d]
<1>3. e \in Event  BY DEF Event
<1>4. /\ q' \in Seq(Event) /\ Len(q) \in Nat /\ Len(q') = Len(q) + 1
      /\ \A i \in 1..Len(q) : i \in 1..Len(q') /\ q'[i] = q[i]
      /\ Len(q') \in 1..Len(q') /\ q'[Len(q')] = e
      /\ \A i \in 1..Len(q') : i \in 1..Len(q) \/ i = Len(q')
  BY <1>1, <1>2, <1>3, Enqueue
<1>5. \A i \in 1..Len(q') : Outcome(i)' => i \in 1..Len(q) /\ Outcome(i) /\ q'[i] = q[i]
  BY <1>4 DEF Outcome
<1>6. \A i \in 1..Len(q') : ~Outcome(i)' =>
        \/ i \in 1..Len(q) /\ ~Outcome(i) /\ q'[i] = q[i]
        \/ i = Len(q) + 1 /\ q'[i].dev = d
  BY <1>4 DEF Outcome
<1>7. Cached' = Cached  BY <1>2 DEF Cached
<1> HIDE DEF e
<1>8. QueueTypes'  BY <1>1, <1>4, <1>5 DEF QueueTypes
<1>9. OneOutcome'  BY <1>1, <1>2, <1>5 DEF OneOutcome
<1>10. BeaconsFirst'
  <2> SUFFICES ASSUME NEW i \in 1..Len(q'), NEW j \in 1..Len(q'),
                      Outcome(i)', q'[i].dev \notin Cached', j < i, ~Outcome(j)'
               PROVE  q'[j].dev # q'[i].dev
    BY DEF BeaconsFirst
  <2>1. i \in 1..Len(q) /\ Outcome(i) /\ q'[i] = q[i]  BY <1>5
  <2>2. j \in 1..Len(q) /\ ~Outcome(j) /\ q'[j] = q[j]  BY <1>4, <1>6, <2>1
  <2> QED  BY <1>1, <1>7, <2>1, <2>2 DEF BeaconsFirst
<1>11. SinceDrained'
  <2> SUFFICES ASSUME pc = "work", NEW j \in 1..Len(q'), ~Outcome(j)'
               PROVE  /\ q'[j].dev \notin sess
                      /\ \A i \in 1..Len(q') : j < i /\ Outcome(i)' => q'[i].dev # q'[j].dev
    BY <1>2 DEF SinceDrained
  <2>1. CASE j \in 1..Len(q) /\ ~Outcome(j) /\ q'[j] = q[j]
    BY <1>1, <1>5, <2>1 DEF SinceDrained
  <2>2. CASE j = Len(q) + 1 /\ q'[j].dev = d
    <3>1. \A i \in 1..Len(q') : ~(j < i)  BY <1>4, <2>2
    <3> QED  BY <1>2, <2>2, <3>1
  <2> QED  BY <1>6, <2>1, <2>2
<1> QED  BY <1>8, <1>9, <1>10, <1>11 DEF QueueInv

\* An outcome comes from a session, which the host knows, and ends it.
LEMMA OutcomeOrder ==
  ASSUME QueueInv, SessionsTracked, NEW d \in Devs,
         NEW t \in {"ok", "fail", "seven", "silent"}, SessionEnds(d, t)
  PROVE  QueueInv'
<1>1. QueueTypes /\ OneOutcome /\ BeaconsFirst /\ SinceDrained  BY DEF QueueInv
<1>2. /\ d \in sess /\ sess' = sess \ {d} /\ UNCHANGED <<cache, pc>>
      /\ q' = IF t = "silent" THEN q ELSE Append(q, [type |-> t, dev |-> d])
  BY DEF SessionEnds, Host
<1>3. d \in Cached /\ Cached' = Cached  BY <1>2 DEF SessionsTracked, Cached
<1>4. CASE t = "silent"
  <2>1. q' = q  BY <1>2, <1>4
  <2> QED
    BY <1>1, <1>2, <1>3, <2>1
    DEF QueueInv, QueueTypes, OneOutcome, BeaconsFirst, SinceDrained, Outcome
<1>5. CASE t # "silent"
  <2> DEFINE e == [type |-> t, dev |-> d]
  <2>1. e \in Event /\ q' = Append(q, e)  BY <1>2, <1>5 DEF Event
  <2>2. /\ q' \in Seq(Event) /\ Len(q) \in Nat /\ Len(q') = Len(q) + 1
        /\ \A i \in 1..Len(q) : i \in 1..Len(q') /\ q'[i] = q[i]
        /\ Len(q') \in 1..Len(q') /\ q'[Len(q')] = e
        /\ \A i \in 1..Len(q') : i \in 1..Len(q) \/ i = Len(q')
    BY <1>1, <2>1, Enqueue
  <2>3. \A i \in 1..Len(q') : Outcome(i)' =>
          \/ i \in 1..Len(q) /\ Outcome(i) /\ q'[i] = q[i]
          \/ i = Len(q) + 1 /\ q'[i].dev = d
    BY <2>2 DEF Outcome
  <2>4. \A i \in 1..Len(q') : ~Outcome(i)' =>
          i \in 1..Len(q) /\ ~Outcome(i) /\ q'[i] = q[i]
    BY <1>5, <2>2 DEF Outcome
  <2> HIDE DEF e
  <2>5. \A i \in 1..Len(q) : Outcome(i) => q[i].dev # d  BY <1>1, <1>2 DEF OneOutcome
  <2>6. QueueTypes'  BY <1>1, <2>2, <2>3 DEF QueueTypes
  <2>7. OneOutcome'
    <3> SUFFICES ASSUME NEW i \in 1..Len(q'), Outcome(i)'
                 PROVE  /\ q'[i].dev \notin sess'
                        /\ \A k \in 1..Len(q') : Outcome(k)' /\ q'[k].dev = q'[i].dev => k = i
      BY DEF OneOutcome
    <3>1. CASE i \in 1..Len(q) /\ Outcome(i) /\ q'[i] = q[i]
      BY <1>1, <1>2, <2>3, <2>5, <3>1 DEF OneOutcome
    <3>2. CASE i = Len(q) + 1 /\ q'[i].dev = d
      <4>1. q'[i].dev \notin sess'  BY <1>2, <3>2
      <4>2. \A k \in 1..Len(q') : Outcome(k)' /\ q'[k].dev = d => k = Len(q) + 1
        BY <2>3, <2>5
      <4> QED  BY <3>2, <4>1, <4>2
    <3> QED  BY <2>3, <3>1, <3>2
  <2>8. BeaconsFirst'
    <3> SUFFICES ASSUME NEW i \in 1..Len(q'), NEW j \in 1..Len(q'),
                        Outcome(i)', q'[i].dev \notin Cached', j < i, ~Outcome(j)'
                 PROVE  q'[j].dev # q'[i].dev
      BY DEF BeaconsFirst
    <3>1. i \in 1..Len(q) /\ Outcome(i) /\ q'[i] = q[i]  BY <1>3, <2>3
    <3>2. j \in 1..Len(q) /\ ~Outcome(j) /\ q'[j] = q[j]  BY <2>4
    <3> QED  BY <1>1, <1>3, <3>1, <3>2 DEF BeaconsFirst
  <2>9. SinceDrained'
    <3> SUFFICES ASSUME pc = "work", NEW j \in 1..Len(q'), ~Outcome(j)'
                 PROVE  /\ q'[j].dev \notin sess'
                        /\ \A i \in 1..Len(q') : j < i /\ Outcome(i)' => q'[i].dev # q'[j].dev
      BY <1>2 DEF SinceDrained
    <3>1. j \in 1..Len(q) /\ ~Outcome(j) /\ q'[j] = q[j]  BY <2>4
    <3>2. q[j].dev \notin sess  BY <1>1, <3>1 DEF SinceDrained
    <3>3. ASSUME NEW i \in 1..Len(q'), j < i, Outcome(i)' PROVE q'[i].dev # q'[j].dev
      <4>1. CASE i \in 1..Len(q) /\ Outcome(i) /\ q'[i] = q[i]
        BY <1>1, <3>1, <3>3, <4>1 DEF SinceDrained
      <4>2. CASE i = Len(q) + 1 /\ q'[i].dev = d
        BY <1>2, <3>1, <3>2, <4>2
      <4> QED  BY <2>3, <3>3, <4>1, <4>2
    <3> QED  BY <1>2, <3>1, <3>2, <3>3
  <2> QED  BY <2>6, <2>7, <2>8, <2>9 DEF QueueInv
<1> QED  BY <1>4, <1>5

-----------------------------------------------------------------------------
(* Handling an event *)

\* What the queue still says once its head is handled.
LEMMA DequeueKnown ==
  ASSUME QueueInv, NEW t, NEW d, Handle(t, d)
  PROVE  /\ t = "beacon" => Pending' = Pending
         /\ t # "beacon" => /\ Pending' = Pending \ {d}
                            /\ d \in Pending /\ d \notin sess /\ d \in Devs
         /\ \A i \in 1..Len(q') : Outcome(i)' =>
              \E k \in 1..Len(q) : Outcome(k) /\ q'[i] = q[k]
         /\ \A i \in 1..Len(q') : q'[i] \in Event
<1>1. QueueTypes /\ OneOutcome  BY DEF QueueInv
<1>2. /\ q' \in Seq(Event)
      /\ 1 \in 1..Len(q) /\ q[1].type = t /\ q[1].dev = d
      /\ \A i \in 1..Len(q') : i + 1 \in 1..Len(q) /\ q'[i] = q[i + 1]
      /\ \A i \in 1..Len(q) : i # 1 => i - 1 \in 1..Len(q') /\ q'[i - 1] = q[i]
  BY <1>1, Dequeue
<1>3. \A i \in 1..Len(q') : Outcome(i)' <=> Outcome(i + 1)  BY <1>2 DEF Outcome
<1>4. \A i \in 1..Len(q) : i # 1 => (Outcome(i - 1)' <=> Outcome(i))  BY <1>2 DEF Outcome
<1>5. \A e : e \in Pending' <=> \E i \in 1..Len(q') : Outcome(i)' /\ q'[i].dev = e
  BY DEF Pending, Outcome
<1>6. \A e : e \in Pending' => e \in Pending  BY <1>2, <1>3, <1>5, PendingIs
<1>7. \A e : e \in Pending => e \in Pending' \/ (t # "beacon" /\ e = d)
  <2> SUFFICES ASSUME NEW i \in 1..Len(q), Outcome(i)
               PROVE  q[i].dev \in Pending' \/ (t # "beacon" /\ q[i].dev = d)
    BY PendingIs
  <2>1. CASE i = 1  BY <1>2, <2>1 DEF Outcome
  <2>2. CASE i # 1
    <3>1. i - 1 \in 1..Len(q') /\ q'[i - 1] = q[i] /\ Outcome(i - 1)'  BY <1>2, <1>4, <2>2
    <3> QED  BY <1>5, <3>1
  <2> QED  BY <2>1, <2>2
<1>8. ASSUME t # "beacon"
      PROVE  d \in Pending /\ d \notin Pending' /\ d \notin sess /\ d \in Devs
  <2>1. Outcome(1)  BY <1>2, <1>8 DEF Outcome
  <2>2. d \in Pending  BY <1>2, <2>1, PendingIs
  <2>3. d \notin Pending'
    <3> SUFFICES ASSUME NEW i \in 1..Len(q'), Outcome(i)', q'[i].dev = d PROVE FALSE
      BY <1>5
    <3>1. i + 1 \in 1..Len(q) /\ Outcome(i + 1) /\ q[i + 1].dev = q[1].dev
      BY <1>2, <1>3
    <3>2. i + 1 = 1  BY <1>1, <1>2, <2>1, <3>1 DEF OneOutcome
    <3> QED  BY <3>2
  <2> QED  BY <1>1, <1>2, <2>1, <2>2, <2>3 DEF OneOutcome, QueueTypes
<1>9. Pending' = IF t = "beacon" THEN Pending ELSE Pending \ {d}  BY <1>6, <1>7, <1>8
<1>10. \A i \in 1..Len(q') : Outcome(i)' => \E k \in 1..Len(q) : Outcome(k) /\ q'[i] = q[k]
  BY <1>2, <1>3
<1>11. \A i \in 1..Len(q') : q'[i] \in Event  BY <1>2
<1> QED  BY <1>8, <1>9, <1>10, <1>11

LEMMA DequeueStale ==
  ASSUME QueueTypes, StaleBeacons, NEW t, NEW d, Handle(t, d), member' = member
  PROVE  StaleBeacons'
<1>1. /\ 1 \in 1..Len(q)
      /\ \A i \in 1..Len(q') : i + 1 \in 1..Len(q) /\ q'[i] = q[i + 1]
      /\ \A i \in 1..Len(q) : i # 1 => i - 1 \in 1..Len(q') /\ q'[i - 1] = q[i]
  BY Dequeue
<1> SUFFICES ASSUME NEW j \in 1..Len(q'), ~Outcome(j)', q'[j].dev \in member
             PROVE  \E i \in 1..Len(q') : j < i /\ Outcome(i)' /\ q'[i].dev = q'[j].dev
  BY DEF StaleBeacons
<1>2. j + 1 \in 1..Len(q) /\ ~Outcome(j + 1) /\ q'[j] = q[j + 1]  BY <1>1 DEF Outcome
<1>3. PICK i \in 1..Len(q) : j + 1 < i /\ Outcome(i) /\ q[i].dev = q[j + 1].dev
  BY <1>2 DEF StaleBeacons
<1>4. /\ i - 1 \in 1..Len(q') /\ q'[i - 1] = q[i] /\ j < i - 1
      /\ Outcome(i - 1)'
  BY <1>1, <1>3 DEF Outcome
<1> QED  BY <1>2, <1>3, <1>4

\* What holds for the queue of a session nobody disturbed after its head is handled.
LEMMA DequeueUntouched ==
  ASSUME IInv, ~touched, NEW t, NEW d, Handle(t, d), member' = member
  PROVE  /\ StaleBeacons'
         /\ \A i \in 1..Len(q') : Outcome(i)' =>
              /\ q'[i].dev \in ddb <=> q'[i].type # "fail"
              /\ q'[i].dev \in Pending'
<1>1. OutcomeKnown /\ StaleBeacons  BY DEF IInv, Untouched
<1>2. StaleBeacons'  BY <1>1, DequeueStale DEF IInv, QueueInv
<1>3. \A i \in 1..Len(q') : Outcome(i)' =>
        \E k \in 1..Len(q) : Outcome(k) /\ q'[i] = q[k]
  BY DequeueKnown DEF IInv
<1>4. \A i \in 1..Len(q') : Outcome(i)' => q'[i].dev \in Pending'
  BY DEF Pending, Outcome
<1> QED  BY <1>1, <1>2, <1>3, <1>4 DEF OutcomeKnown

OneSessionEach ==
  \A i, j \in 1..MaxSessions : cache[i] = cache[j] /\ cache[i] # None => i = j

\* The frame of every action of dev_add_hdr: what is left to show of each of them.
LEMMA HandleInv ==
  ASSUME IInv, NEW t, NEW d, Handle(t, d), member' = member,
         TypeOK', sess' \subseteq Cached', OneSessionEach',
         \A e \in sess' : e \in sess \/ e \notin Pending,
         \A e \in Cached : e \in Cached' \/ (e = d /\ t # "beacon"),
         ~touched => /\ sess' \cup Pending' \subseteq add'
                     /\ state # "adding" => sess' = {} /\ Pending' = {}
                     /\ sess' \cap ddb' = {} /\ ddb' \subseteq member
                     /\ \A e \in Pending' : e \in ddb' <=> e \in ddb
                     /\ state \in {"adding", "working"} =>
                          Devs \ (prov' \cup Marked \cup member) \subseteq add'
                     /\ prov' \subseteq ddb' /\ ddb' \ prov' \subseteq Pending'
  PROVE  IInv'
<1>1. pc' = "evt" /\ UNCHANGED <<state, freeMode, touched>>  BY DEF Handle, IInv, TypeOK
<1>2. QueueInv'  BY DequeueOrder DEF IInv
<1>3. SessionsTracked'  BY DEF SessionsTracked, OneSessionEach
<1>4. ASSUME ~touched PROVE OnlyAdding' /\ OutcomeKnown' /\ ToBeAdded' /\ StaleBeacons'
  <2>1. OnlyAdding'  BY <1>1, <1>4 DEF IInv, Untouched, OnlyAdding
  <2>2. /\ StaleBeacons'
        /\ \A i \in 1..Len(q') : Outcome(i)' =>
             /\ q'[i].dev \in ddb <=> q'[i].type # "fail"
             /\ q'[i].dev \in Pending'
    BY <1>4, DequeueUntouched
  <2>3. OutcomeKnown'  BY <1>4, <2>2 DEF OutcomeKnown
  <2>4. ToBeAdded'  BY <1>1, <1>4 DEF ToBeAdded
  <2> QED  BY <2>1, <2>2, <2>3, <2>4
<1>5. Untouched' /\ DbFollowsNcp'  BY <1>1, <1>4 DEF Untouched, DbFollowsNcp
<1> QED  BY <1>2, <1>3, <1>5 DEF IInv

\* What the invariant says of a session nobody disturbed.
LEMMA UntouchedFacts ==
  ASSUME IInv, ~touched
  PROVE  /\ OnlyAdding /\ OutcomeKnown /\ ToBeAdded /\ StaleBeacons
         /\ prov \subseteq ddb /\ ddb \ prov \subseteq Pending
         /\ add \subseteq Devs \ prov
  BY DEF IInv, Untouched, DbFollowsNcp, TypeOK

\* rmcached
LEMMA RmCachedInv ==
  ASSUME cache \in [1..MaxSessions -> Devs \cup {None}], OneSessionEach, NEW d, RmCached(d)
  PROVE  /\ cache' \in [1..MaxSessions -> Devs \cup {None}] /\ OneSessionEach'
         /\ Cached' = Cached \ {d}
<1>1. cache' = [i \in 1..MaxSessions |-> IF cache[i] = d THEN None ELSE cache[i]]
  BY DEF RmCached
<1>2. cache' \in [1..MaxSessions -> Devs \cup {None}]  BY <1>1
<1>3. OneSessionEach'  BY <1>1 DEF OneSessionEach
<1>4. Cached' = Cached \ {d}  BY <1>1 DEF Cached
<1> QED  BY <1>2, <1>3, <1>4

LEMMA IgnoreBeaconInv == ASSUME IInv, NEW d, IgnoreBeacon(d) PROVE IInv'
<1>1. /\ Handle("beacon", d)
      /\ UNCHANGED <<add, prov, backlog, cache, recover, oom, scanning, sess, ddb, member>>
  BY DEF IgnoreBeacon, lists, ncp
<1>2. /\ UNCHANGED <<state, freeMode, touched>> /\ pc' = "evt" /\ Pending' = Pending
      /\ \A i \in 1..Len(q') : q'[i] \in Event
  BY <1>1, DequeueKnown DEF Handle, IInv, TypeOK
<1>3. TypeOK'  BY <1>1, <1>2 DEF IInv, TypeOK
<1>4. sess' \subseteq Cached' /\ OneSessionEach' /\ Cached' = Cached
  BY <1>1 DEF IInv, SessionsTracked, OneSessionEach, Cached
<1>5. ~touched => OnlyAdding /\ OutcomeKnown /\ ToBeAdded /\ DbFollowsNcp
  BY DEF IInv, Untouched
<1> QED
  BY <1>1, <1>2, <1>3, <1>4, <1>5, HandleInv
  DEF OnlyAdding, OutcomeKnown, ToBeAdded, DbFollowsNcp

LEMMA RecordBeaconInv ==
  ASSUME IInv, NEW d \in Devs \cup Strangers, RecordBeacon(d) PROVE IInv'
<1>1. /\ Handle("beacon", d) /\ backlog' = backlog \cup {d}
      /\ UNCHANGED <<add, prov, cache, recover, oom, scanning, sess, ddb, member>>
  BY DEF RecordBeacon, lists, ncp
<1>2. /\ UNCHANGED <<state, freeMode, touched>> /\ pc' = "evt" /\ Pending' = Pending
      /\ \A i \in 1..Len(q') : q'[i] \in Event
  BY <1>1, DequeueKnown DEF Handle, IInv, TypeOK
<1>3. TypeOK'  BY <1>1, <1>2 DEF IInv, TypeOK
<1>4. sess' \subseteq Cached' /\ OneSessionEach' /\ Cached' = Cached
  BY <1>1 DEF IInv, SessionsTracked, OneSessionEach, Cached
<1>5. ~touched => OnlyAdding /\ OutcomeKnown /\ ToBeAdded /\ DbFollowsNcp
  BY DEF IInv, Untouched
<1> QED
  BY <1>1, <1>2, <1>3, <1>4, <1>5, HandleInv
  DEF OnlyAdding, OutcomeKnown, ToBeAdded, DbFollowsNcp

\* An outcome passes by only if the user stopped the sync.
LEMMA DroppedInv ==
  ASSUME IInv, NEW d, NEW t \in {"ok", "fail", "seven"}, Dropped(t, d) PROVE IInv'
<1>1. /\ Handle(t, d) /\ ~Passes /\ t # "beacon"
      /\ UNCHANGED <<add, prov, backlog, cache, recover, oom, scanning, sess, ddb, member>>
  BY DEF Dropped, lists, ncp
<1>2. /\ UNCHANGED <<state, freeMode, touched>> /\ pc' = "evt" /\ d \in Pending
      /\ \A i \in 1..Len(q') : q'[i] \in Event
  BY <1>1, DequeueKnown DEF Handle, IInv, TypeOK
<1>3. TypeOK'  BY <1>1, <1>2 DEF IInv, TypeOK
<1>4. sess' \subseteq Cached' /\ OneSessionEach' /\ Cached' = Cached
  BY <1>1 DEF IInv, SessionsTracked, OneSessionEach, Cached
<1>5. touched
  <2> SUFFICES ASSUME ~touched PROVE FALSE
    BY DEF IInv, TypeOK
  <2>1. OnlyAdding  BY DEF IInv, Untouched
  <2> QED  BY <1>1, <1>2, <2>1 DEF OnlyAdding, Passes
<1> QED  BY <1>1, <1>3, <1>4, <1>5, HandleInv

LEMMA RecoverScanTypes ==
  ASSUME {recover, scanning} \subseteq BOOLEAN, RecoverScan
  PROVE  {recover', scanning'} \subseteq BOOLEAN
  BY DEF RecoverScan

LEMMA OnProvSuccessInv == ASSUME IInv, NEW d, OnProvSuccess(d) PROVE IInv'
<1>1. /\ Handle("ok", d) /\ RmCached(d) /\ RecoverScan
      /\ prov' = prov \cup {d} /\ add' = add \ {d}
      /\ UNCHANGED <<backlog, oom, sess, ddb, member>>
  BY DEF OnProvSuccess, ncp
<1>2. /\ UNCHANGED <<state, freeMode, touched>> /\ pc' = "evt"
      /\ Pending' = Pending \ {d} /\ d \in Pending /\ d \notin sess /\ d \in Devs
      /\ \A i \in 1..Len(q') : q'[i] \in Event
  BY <1>1, DequeueKnown DEF Handle, IInv, TypeOK
<1>3. /\ cache' \in [1..MaxSessions -> Devs \cup {None}] /\ OneSessionEach'
      /\ Cached' = Cached \ {d}
  BY <1>1, RmCachedInv DEF IInv, TypeOK, SessionsTracked, OneSessionEach
<1>4. TypeOK'
  <2>1. {recover', scanning'} \subseteq BOOLEAN  BY <1>1, RecoverScanTypes DEF IInv, TypeOK
  <2> QED  BY <1>1, <1>2, <1>3, <2>1 DEF IInv, TypeOK
<1>5. sess' \subseteq Cached'  BY <1>1, <1>2, <1>3 DEF IInv, SessionsTracked
<1>6. ASSUME ~touched
      PROVE  /\ OnlyAdding /\ OutcomeKnown /\ ToBeAdded /\ d \in ddb
             /\ prov \subseteq ddb /\ ddb \ prov \subseteq Pending
  <2>1. OnlyAdding /\ OutcomeKnown /\ ToBeAdded /\ DbFollowsNcp
    BY <1>6 DEF IInv, Untouched
  <2>2. 1 \in 1..Len(q) /\ q[1].type = "ok" /\ q[1].dev = d
    BY <1>1, Dequeue DEF IInv, QueueInv
  <2>3. Outcome(1)  BY <2>2 DEF Outcome
  <2>4. d \in ddb  BY <2>1, <2>2, <2>3 DEF OutcomeKnown
  <2> QED  BY <1>6, <2>1, <2>4 DEF DbFollowsNcp
<1> QED
  BY <1>1, <1>2, <1>3, <1>4, <1>5, <1>6, HandleInv DEF OnlyAdding, OutcomeKnown, ToBeAdded

LEMMA OnProvFailedInv == ASSUME IInv, NEW d, OnProvFailed(d) PROVE IInv'
<1>1. /\ Handle("fail", d) /\ RmCached(d) /\ RecoverScan
      /\ UNCHANGED <<add, prov, backlog, oom, sess, ddb, member>>
  BY DEF OnProvFailed, lists, ncp
<1>2. /\ UNCHANGED <<state, freeMode, touched>> /\ pc' = "evt"
      /\ Pending' = Pending \ {d} /\ d \in Pending /\ d \notin sess /\ d \in Devs
      /\ \A i \in 1..Len(q') : q'[i] \in Event
  BY <1>1, DequeueKnown DEF Handle, IInv, TypeOK
<1>3. /\ cache' \in [1..MaxSessions -> Devs \cup {None}] /\ OneSessionEach'
      /\ Cached' = Cached \ {d}
  BY <1>1, RmCachedInv DEF IInv, TypeOK, SessionsTracked, OneSessionEach
<1>4. TypeOK'
  <2>1. {recover', scanning'} \subseteq BOOLEAN  BY <1>1, RecoverScanTypes DEF IInv, TypeOK
  <2> QED  BY <1>1, <1>2, <1>3, <2>1 DEF IInv, TypeOK
<1>5. sess' \subseteq Cached'  BY <1>1, <1>2, <1>3 DEF IInv, SessionsTracked
<1>6. ASSUME ~touched
      PROVE  /\ OnlyAdding /\ OutcomeKnown /\ ToBeAdded /\ d \notin ddb
             /\ prov \subseteq ddb /\ ddb \ prov \subseteq Pending
  <2>1. OnlyAdding /\ OutcomeKnown /\ ToBeAdded /\ DbFollowsNcp
    BY <1>6 DEF IInv, Untouched
  <2>2. 1 \in 1..Len(q) /\ q[1].type = "fail" /\ q[1].dev = d
    BY <1>1, Dequeue DEF IInv, QueueInv
  <2>3. Outcome(1)  BY <2>2 DEF Outcome
  <2>4. d \notin ddb  BY <2>1, <2>2, <2>3 DEF OutcomeKnown
  <2> QED  BY <1>6, <2>1, <2>4 DEF DbFollowsNcp
<1> QED
  BY <1>1, <1>2, <1>3, <1>4, <1>5, <1>6, HandleInv DEF OnlyAdding, OutcomeKnown, ToBeAdded

LEMMA ProvFailedWaInv == ASSUME IInv, NEW d, ProvFailedWa(d) PROVE IInv'
<1>1. /\ Handle("seven", d) /\ add' = add \ {d} /\ ddb' = ddb \ {d}
      /\ UNCHANGED <<prov, backlog, cache, recover, oom, scanning, sess, member>>
  BY DEF ProvFailedWa
<1>2. /\ UNCHANGED <<state, freeMode, touched>> /\ pc' = "evt"
      /\ Pending' = Pending \ {d} /\ d \in Pending /\ d \notin sess /\ d \in Devs
      /\ \A i \in 1..Len(q') : q'[i] \in Event
  BY <1>1, DequeueKnown DEF Handle, IInv, TypeOK
<1>3. TypeOK'  BY <1>1, <1>2 DEF IInv, TypeOK
<1>4. sess' \subseteq Cached' /\ OneSessionEach' /\ Cached' = Cached
  BY <1>1 DEF IInv, SessionsTracked, OneSessionEach, Cached
<1>5. ASSUME ~touched
      PROVE  /\ OnlyAdding /\ OutcomeKnown /\ ToBeAdded /\ d \in member /\ d \notin prov
             /\ prov \subseteq ddb /\ ddb \ prov \subseteq Pending
  <2>1. OnlyAdding /\ OutcomeKnown /\ ToBeAdded /\ DbFollowsNcp
    BY <1>5 DEF IInv, Untouched
  <2>2. 1 \in 1..Len(q) /\ q[1].type = "seven" /\ q[1].dev = d
    BY <1>1, Dequeue DEF IInv, QueueInv
  <2>3. Outcome(1)  BY <2>2 DEF Outcome
  <2>4. d \in ddb  BY <2>1, <2>2, <2>3 DEF OutcomeKnown
  <2>5. d \in member  BY <2>1, <2>4 DEF OutcomeKnown
  <2>6. d \notin prov  BY <1>2, <2>1 DEF OnlyAdding, IInv, TypeOK
  <2> QED  BY <1>5, <2>1, <2>5, <2>6 DEF DbFollowsNcp
<1> QED
  BY <1>1, <1>2, <1>3, <1>4, <1>5, HandleInv DEF OnlyAdding, OutcomeKnown, ToBeAdded

\* A session is started only for a device that has no outcome in the queue, and
\* that still is in the list if the user did not interfere.
LEMMA ProvisionDeviceInv ==
  ASSUME IInv, NEW d, NEW r, ProvisionDevice(d, r) PROVE IInv'
<1>1. /\ Handle("beacon", d) /\ d \notin Cached /\ d \in Devs \ prov /\ d \notin Marked
      /\ Passes
      /\ UNCHANGED <<add, prov, backlog, ddb, member>>
  BY DEF ProvisionDevice, Ignored, lists
<1>2. /\ UNCHANGED <<state, freeMode, touched>> /\ pc' = "evt" /\ Pending' = Pending
      /\ \A i \in 1..Len(q') : q'[i] \in Event
  BY <1>1, DequeueKnown DEF Handle, IInv, TypeOK
<1>3. {recover', oom', scanning'} \subseteq BOOLEAN
  <2>1. {recover, oom, scanning} \subseteq BOOLEAN  BY DEF IInv, TypeOK
  <2> QED  BY <2>1 DEF ProvisionDevice
<1>4. d \notin Pending
  <2> SUFFICES ASSUME NEW i \in 1..Len(q), Outcome(i), q[i].dev = d PROVE FALSE
    BY PendingIs
  <2>1. 1 \in 1..Len(q) /\ ~Outcome(1) /\ q[1].dev = d
    BY <1>1, Dequeue DEF IInv, QueueInv, Outcome
  <2>2. i # 1 /\ 1 < i  BY <2>1
  <2> QED  BY <1>1, <2>1, <2>2 DEF IInv, QueueInv, BeaconsFirst
<1>5. ASSUME ~touched
      PROVE  /\ OnlyAdding /\ OutcomeKnown /\ ToBeAdded /\ DbFollowsNcp
             /\ state = "adding" /\ d \in add
  <2>1. OnlyAdding /\ OutcomeKnown /\ ToBeAdded /\ StaleBeacons /\ DbFollowsNcp
    BY <1>5 DEF IInv, Untouched
  <2>2. state = "adding"  BY <1>1, <2>1 DEF OnlyAdding, Passes
  <2>3. d \notin member
    <3> SUFFICES ASSUME d \in member PROVE FALSE
      OBVIOUS
    <3>1. 1 \in 1..Len(q) /\ ~Outcome(1) /\ q[1].dev = d
      BY <1>1, Dequeue DEF IInv, QueueInv, Outcome
    <3>2. \E i \in 1..Len(q) : Outcome(i) /\ q[i].dev = d  BY <2>1, <3>1 DEF StaleBeacons
    <3> QED  BY <1>4, <3>2, PendingIs
  <2> QED  BY <1>1, <2>1, <2>2, <2>3 DEF ToBeAdded
<1>6. CASE UNCHANGED <<cache, sess>>
  <2>1. TypeOK'  BY <1>1, <1>2, <1>3, <1>6 DEF IInv, TypeOK
  <2>2. sess' \subseteq Cached' /\ OneSessionEach' /\ Cached' = Cached
    BY <1>6 DEF IInv, SessionsTracked, OneSessionEach, Cached
  <2> QED
    BY <1>1, <1>2, <1>5, <1>6, <2>1, <2>2, HandleInv
    DEF OnlyAdding, OutcomeKnown, ToBeAdded, DbFollowsNcp
<1>7. CASE r = "ok"
  <2>1. sess' = sess \cup {d} /\ d \notin sess \cup ddb  BY <1>7 DEF ProvisionDevice
  <2>2. PICK i \in 1..MaxSessions : cache[i] = None /\ cache' = [cache EXCEPT ![i] = d]
    BY <1>7 DEF ProvisionDevice
  <2>3. cache \in [1..MaxSessions -> Devs \cup {None}] /\ None \notin Devs
    BY AddAssumption DEF IInv, TypeOK, AddAssumption
  <2>4. cache' \in [1..MaxSessions -> Devs \cup {None}]  BY <1>1, <2>2, <2>3
  <2>5. Cached' = Cached \cup {d}
    <3>1. \A j \in 1..MaxSessions : cache'[j] = IF j = i THEN d ELSE cache[j]
      BY <2>2, <2>3
    <3>2. d # None  BY <1>1, <2>3
    <3> QED  BY <2>2, <3>1, <3>2 DEF Cached
  <2>6. OneSessionEach'
    <3>1. \A j \in 1..MaxSessions : cache[j] # d  BY <1>1, <2>3 DEF Cached
    <3> QED  BY <2>2, <2>3, <3>1 DEF IInv, SessionsTracked, OneSessionEach
  <2>7. TypeOK'  BY <1>1, <1>2, <1>3, <2>1, <2>4 DEF IInv, TypeOK
  <2>8. sess' \subseteq Cached'  BY <2>1, <2>5 DEF IInv, SessionsTracked
  <2> QED
    BY <1>1, <1>2, <1>4, <1>5, <2>1, <2>5, <2>6, <2>7, <2>8, HandleInv
    DEF OnlyAdding, OutcomeKnown, ToBeAdded, DbFollowsNcp
<1> QED  BY <1>6, <1>7 DEF ProvisionDevice

-----------------------------------------------------------------------------
(* The NCP target and the devices *)

LEMMA BeaconInv == ASSUME IInv, NEW d \in Devs \cup Strangers, Beacon(d) PROVE IInv'
<1>1. /\ d \notin member /\ q' = Append(q, [type |-> "beacon", dev |-> d])
      /\ UNCHANGED <<state, add, prov, backlog, cache, recover, oom, freeMode, pc, scanning,
                     sess, ddb, member, touched>>
  BY DEF Beacon, Host, lists, ncp
<1> DEFINE e == [type |-> "beacon", dev |-> d]
<1>2. e \in Event  BY DEF Event
<1>3. /\ q' \in Seq(Event) /\ Len(q) \in Nat /\ Len(q') = Len(q) + 1
      /\ \A i \in 1..Len(q) : i \in 1..Len(q') /\ q'[i] = q[i]
      /\ Len(q') \in 1..Len(q') /\ q'[Len(q')] = e
      /\ \A i \in 1..Len(q') : i \in 1..Len(q) \/ i = Len(q')
  BY <1>1, <1>2, Enqueue DEF IInv, QueueInv
<1>4. /\ \A i \in 1..Len(q') : Outcome(i)' => i \in 1..Len(q) /\ Outcome(i) /\ q'[i] = q[i]
      /\ \A i \in 1..Len(q) : Outcome(i) => Outcome(i)'
  BY <1>3 DEF Outcome
<1>5. \A i \in 1..Len(q') : ~Outcome(i)' =>
        \/ i \in 1..Len(q) /\ ~Outcome(i) /\ q'[i] = q[i]
        \/ q'[i].dev = d
  BY <1>3 DEF Outcome
<1> HIDE DEF e
<1>6. Pending' = Pending
  <2>1. \A x : x \in Pending' <=> \E i \in 1..Len(q') : Outcome(i)' /\ q'[i].dev = x
    BY DEF Pending, Outcome
  <2> QED  BY <1>3, <1>4, <2>1, PendingIs
<1>7. TypeOK'  BY <1>1, <1>3 DEF IInv, TypeOK
<1>8. SessionsTracked'  BY <1>1 DEF IInv, SessionsTracked, Cached
<1>9. QueueInv'  BY BeaconOrder DEF IInv
<1>10. ASSUME ~touched PROVE OnlyAdding' /\ OutcomeKnown' /\ ToBeAdded' /\ StaleBeacons'
  <2>1. OnlyAdding /\ OutcomeKnown /\ ToBeAdded /\ StaleBeacons
    BY <1>10 DEF IInv, Untouched
  <2>2. OnlyAdding' /\ ToBeAdded'  BY <1>1, <1>6, <2>1 DEF OnlyAdding, ToBeAdded
  <2>3. OutcomeKnown'  BY <1>1, <1>4, <2>1 DEF OutcomeKnown
  <2>4. StaleBeacons'
    <3> SUFFICES ASSUME NEW j \in 1..Len(q'), ~Outcome(j)', q'[j].dev \in member
                 PROVE  \E i \in 1..Len(q') : j < i /\ Outcome(i)' /\ q'[i].dev = q'[j].dev
      BY <1>1 DEF StaleBeacons
    <3>1. j \in 1..Len(q) /\ ~Outcome(j) /\ q'[j] = q[j]  BY <1>1, <1>5
    <3>2. PICK i \in 1..Len(q) : j < i /\ Outcome(i) /\ q[i].dev = q[j].dev
      BY <2>1, <3>1 DEF StaleBeacons
    <3> QED  BY <1>3, <1>4, <3>1, <3>2
  <2> QED  BY <2>2, <2>3, <2>4
<1>11. Untouched' /\ DbFollowsNcp'
  BY <1>1, <1>6, <1>10 DEF IInv, Untouched, DbFollowsNcp
<1> QED  BY <1>7, <1>8, <1>9, <1>11 DEF IInv

LEMMA SessionEndsInv ==
  ASSUME IInv, NEW d \in Devs, NEW t \in {"ok", "fail", "seven", "silent"}, SessionEnds(d, t)
  PROVE  IInv'
<1>1. /\ d \in sess /\ sess' = sess \ {d}
      /\ IF t \in {"ok", "seven"} THEN ddb' = ddb \cup {d} /\ member' = member \cup {d}
                                  ELSE UNCHANGED <<ddb, member>>
      /\ q' = IF t = "silent" THEN q ELSE Append(q, [type |-> t, dev |-> d])
      /\ UNCHANGED <<state, add, prov, backlog, cache, recover, oom, freeMode, pc, scanning,
                     touched>>
  BY DEF SessionEnds, Host, lists
<1>2. SessionsTracked'  BY <1>1 DEF IInv, SessionsTracked, Cached
<1>3. QueueInv'  BY OutcomeOrder DEF IInv
<1>4. TypeOK'
  <2>1. \A i \in 1..Len(q') : q'[i] \in Event  BY <1>3 DEF QueueInv, QueueTypes
  <2>2. ddb' \subseteq Devs /\ member' \subseteq Devs  BY <1>1 DEF IInv, TypeOK
  <2> QED  BY <1>1, <2>1, <2>2 DEF IInv, TypeOK
<1>5. CASE t = "silent"
  <2>1. q' = q /\ UNCHANGED <<ddb, member>>  BY <1>1, <1>5
  <2>2. Pending' = Pending  BY <2>1 DEF Pending
  <2>3. \A i : Outcome(i)' <=> Outcome(i)  BY <2>1 DEF Outcome
  <2>4. ~touched => OnlyAdding' /\ OutcomeKnown' /\ ToBeAdded' /\ StaleBeacons'
    BY <1>1, <2>1, <2>2, <2>3
    DEF IInv, Untouched, OnlyAdding, OutcomeKnown, ToBeAdded, StaleBeacons
  <2>5. Untouched' /\ DbFollowsNcp'
    BY <1>1, <2>1, <2>2, <2>4 DEF IInv, Untouched, DbFollowsNcp
  <2> QED  BY <1>2, <1>3, <1>4, <2>5 DEF IInv
<1>6. CASE t # "silent"
  <2> DEFINE e == [type |-> t, dev |-> d]
  <2>1. e \in Event /\ q' = Append(q, e)  BY <1>1, <1>6 DEF Event
  <2>2. /\ q' \in Seq(Event) /\ Len(q) \in Nat /\ Len(q') = Len(q) + 1
        /\ \A i \in 1..Len(q) : i \in 1..Len(q') /\ q'[i] = q[i]
        /\ Len(q') \in 1..Len(q') /\ q'[Len(q')] = e
        /\ \A i \in 1..Len(q') : i \in 1..Len(q) \/ i = Len(q')
    BY <2>1, Enqueue DEF IInv, QueueInv
  <2>3. /\ \A i \in 1..Len(q') : i = Len(q') =>
             Outcome(i)' /\ q'[i].dev = d /\ q'[i].type = t
        /\ \A i \in 1..Len(q) : Outcome(i)' <=> Outcome(i)
    BY <1>6, <2>2 DEF Outcome
  <2> HIDE DEF e
  <2>4. Pending' = Pending \cup {d}
    <3>1. \A x : x \in Pending' <=> \E i \in 1..Len(q') : Outcome(i)' /\ q'[i].dev = x
      BY DEF Pending, Outcome
    <3> QED  BY <2>2, <2>3, <3>1, PendingIs
  <2>5. ASSUME ~touched PROVE OnlyAdding' /\ OutcomeKnown' /\ ToBeAdded' /\ StaleBeacons'
    <3>1. OnlyAdding /\ OutcomeKnown /\ ToBeAdded /\ StaleBeacons
      BY <2>5 DEF IInv, Untouched
    <3>2. OnlyAdding'
      BY <1>1, <2>4, <3>1 DEF OnlyAdding
    <3>3. ToBeAdded'  BY <1>1, <3>1 DEF ToBeAdded
    <3>4. d \notin ddb /\ d \notin Pending
      BY <1>1, <3>1, PendingIs DEF OutcomeKnown, IInv, QueueInv, OneOutcome
    <3>5. OutcomeKnown'
      <4>1. sess' \cap ddb' = {} /\ ddb' \subseteq member'  BY <1>1, <3>1 DEF OutcomeKnown
      <4>2. ASSUME NEW i \in 1..Len(q'), Outcome(i)'
            PROVE  q'[i].dev \in ddb' <=> q'[i].type # "fail"
        <5>1. CASE i \in 1..Len(q)
          <6>1. Outcome(i) /\ q'[i] = q[i]  BY <2>2, <2>3, <4>2, <5>1
          <6>2. q[i].dev # d  BY <3>4, <5>1, <6>1, PendingIs
          <6> QED  BY <1>1, <3>1, <5>1, <6>1, <6>2 DEF OutcomeKnown
        <5>2. CASE i = Len(q')
          <6>1. d \in ddb' <=> t \in {"ok", "seven"}  BY <1>1, <3>4
          <6> QED  BY <1>6, <2>3, <5>2, <6>1
        <5> QED  BY <2>2, <5>1, <5>2
      <4> QED  BY <4>1, <4>2 DEF OutcomeKnown
    <3>6. StaleBeacons'
      <4> SUFFICES ASSUME NEW j \in 1..Len(q'), ~Outcome(j)', q'[j].dev \in member'
                   PROVE  \E i \in 1..Len(q') : j < i /\ Outcome(i)' /\ q'[i].dev = q'[j].dev
        BY DEF StaleBeacons
      <4>1. j \in 1..Len(q) /\ ~Outcome(j) /\ q'[j] = q[j]  BY <2>2, <2>3
      <4>2. CASE q[j].dev = d
        <5>1. j < Len(q')  BY <2>2, <4>1
        <5> QED  BY <2>2, <2>3, <4>1, <4>2, <5>1
      <4>3. CASE q[j].dev # d
        <5>1. q[j].dev \in member  BY <1>1, <4>1, <4>3
        <5>2. PICK i \in 1..Len(q) : j < i /\ Outcome(i) /\ q[i].dev = q[j].dev
          BY <3>1, <4>1, <5>1 DEF StaleBeacons
        <5> QED  BY <2>2, <2>3, <4>1, <5>2
      <4> QED  BY <4>2, <4>3
    <3> QED  BY <3>2, <3>3, <3>5, <3>6
  <2>6. DbFollowsNcp'  BY <1>1, <2>4 DEF IInv, DbFollowsNcp
  <2>7. Untouched'  BY <1>1, <2>5 DEF Untouched
  <2> QED  BY <1>2, <1>3, <1>4, <2>6, <2>7 DEF IInv
<1> QED  BY <1>5, <1>6

LEMMA FactoryResetInv == ASSUME IInv, NEW d \in Devs, FactoryReset(d) PROVE IInv'
<1>1. /\ member' = member \ {d} /\ touched' = TRUE
      /\ UNCHANGED <<state, add, prov, backlog, cache, recover, oom, freeMode, pc, scanning,
                     sess, ddb, q>>
  BY DEF FactoryReset, Host, lists
<1>2. TypeOK'  BY <1>1 DEF IInv, TypeOK
<1>3. SessionsTracked'  BY <1>1 DEF IInv, SessionsTracked, Cached
<1>4. QueueInv'
  BY <1>1
  DEF IInv, QueueInv, QueueTypes, OneOutcome, BeaconsFirst, SinceDrained, Outcome, Cached
<1> QED  BY <1>1, <1>2, <1>3, <1>4 DEF IInv, Untouched, DbFollowsNcp

-----------------------------------------------------------------------------
(* The main loop *)

\* The queue is empty: whatever is in it from here to add_loop came afterwards.
LEMMA NoMoreEventsInv == IInv /\ NoMoreEvents => IInv'
<1> SUFFICES ASSUME IInv, NoMoreEvents PROVE IInv'
  OBVIOUS
<1>1. /\ pc' = "work" /\ q = <<>>
      /\ UNCHANGED <<state, add, prov, backlog, cache, recover, oom, freeMode, scanning, sess,
                     ddb, member, q, touched>>
  BY DEF NoMoreEvents, lists, ncp
<1>2. 1..Len(q) = {} /\ 1..Len(q') = {}  BY <1>1
<1>3. QueueInv'
  BY <1>1, <1>2
  DEF IInv, QueueInv, QueueTypes, OneOutcome, BeaconsFirst, SinceDrained
<1>4. TypeOK'  BY <1>1 DEF IInv, TypeOK
<1>5. SessionsTracked'  BY <1>1 DEF IInv, SessionsTracked, Cached
<1>6. Pending' = Pending  BY <1>1 DEF Pending
<1>7. ~touched => OnlyAdding' /\ OutcomeKnown' /\ ToBeAdded' /\ StaleBeacons'
  BY <1>1, <1>2, <1>6
  DEF IInv, Untouched, OnlyAdding, OutcomeKnown, ToBeAdded, StaleBeacons
<1> QED  BY <1>1, <1>3, <1>4, <1>5, <1>6, <1>7 DEF IInv, Untouched, DbFollowsNcp

LEMMA WorkInv == IInv /\ Work => IInv'
<1> SUFFICES ASSUME IInv, Work PROVE IInv'
  OBVIOUS
<1>1. /\ pc = "work" /\ pc' = "sched"
      /\ UNCHANGED <<state, prov, backlog, freeMode, sess, member, q, touched>>
  BY DEF Work
<1>2. Pending' = Pending /\ \A i : Outcome(i)' <=> Outcome(i)
  BY <1>1 DEF Pending, Outcome
<1>3. QueueTypes' /\ OneOutcome' /\ SinceDrained'
  BY <1>1, <1>2 DEF IInv, QueueInv, QueueTypes, OneOutcome, SinceDrained
<1>4. ASSUME Cached' = Cached PROVE BeaconsFirst'
  BY <1>1, <1>2, <1>4 DEF IInv, QueueInv, BeaconsFirst
<1>5. CASE state = "starting"
  <2>1. /\ add' = Devs \ (prov \cup Marked) /\ ddb' = ddb \cap prov
        /\ UNCHANGED <<cache, recover, oom, scanning>>
    BY <1>5 DEF Work
  <2>2. TypeOK'  BY <1>1, <2>1 DEF IInv, TypeOK
  <2>3. SessionsTracked' /\ Cached' = Cached
    BY <1>1, <2>1 DEF IInv, SessionsTracked, Cached
  <2>4. QueueInv'  BY <1>3, <1>4, <2>3 DEF QueueInv
  <2>5. ASSUME ~touched
        PROVE  /\ OnlyAdding' /\ OutcomeKnown' /\ ToBeAdded' /\ StaleBeacons'
               /\ prov \subseteq ddb
    <3>1. OnlyAdding /\ OutcomeKnown /\ StaleBeacons /\ DbFollowsNcp
      BY <2>5 DEF IInv, Untouched
    <3>2. sess = {} /\ Pending = {}  BY <1>5, <3>1 DEF OnlyAdding
    <3>3. \A i \in 1..Len(q) : ~Outcome(i)  BY <3>2, PendingIs
    <3>4. OnlyAdding'  BY <1>1, <1>2, <3>1, <3>2 DEF OnlyAdding
    <3>5. OutcomeKnown'  BY <1>1, <1>2, <2>1, <3>1, <3>3 DEF OutcomeKnown
    <3>6. ToBeAdded'  BY <1>1, <2>1 DEF ToBeAdded
    <3>7. StaleBeacons'  BY <1>1, <1>2, <3>1 DEF StaleBeacons
    <3> QED  BY <2>5, <3>1, <3>4, <3>5, <3>6, <3>7 DEF DbFollowsNcp
  <2>6. Untouched' /\ DbFollowsNcp'
    BY <1>1, <2>1, <2>5 DEF Untouched, DbFollowsNcp
  <2> QED  BY <2>2, <2>3, <2>4, <2>6 DEF IInv
<1>6. CASE state # "starting"
  <2>1. UNCHANGED <<add, ddb>>  BY <1>6 DEF Work
  <2>2. /\ cache' \in [1..MaxSessions -> Devs \cup {None}] /\ OneSessionEach'
        /\ sess \subseteq Cached' /\ BeaconsFirst'
        /\ {recover', oom', scanning'} \subseteq BOOLEAN
    <3>1. CASE state = "adding"
      <4>1. PICK over \in BOOLEAN, E \in SUBSET (Cached \ sess) : AddLoop(over, E)
        BY <3>1 DEF Work
      <4>2. cache' = [i \in 1..MaxSessions |-> IF cache[i] \in E THEN None ELSE cache[i]]
        BY <4>1 DEF AddLoop
      <4>3. cache \in [1..MaxSessions -> Devs \cup {None}]  BY DEF IInv, TypeOK
      <4>4. cache' \in [1..MaxSessions -> Devs \cup {None}]  BY <4>2, <4>3
      <4>5. OneSessionEach'  BY <4>2 DEF IInv, SessionsTracked, OneSessionEach
      <4>6. Cached' = Cached \ E  BY <4>2 DEF Cached
      <4>7. sess \subseteq Cached'  BY <4>6 DEF IInv, SessionsTracked
      <4>8. BeaconsFirst'
        <5> SUFFICES ASSUME NEW i \in 1..Len(q), NEW j \in 1..Len(q),
                            Outcome(i), j < i, ~Outcome(j)
                     PROVE  q[j].dev # q[i].dev
          BY <1>1, <1>2 DEF BeaconsFirst
        <5> QED  BY <1>1 DEF IInv, QueueInv, SinceDrained
      <4>9. {recover', oom', scanning'} \subseteq BOOLEAN
        <5>1. {recover, oom, scanning} \subseteq BOOLEAN  BY DEF IInv, TypeOK
        <5> QED  BY <4>1, <5>1 DEF AddLoop, RecoverScan
      <4> QED  BY <4>4, <4>5, <4>7, <4>8, <4>9
    <3>2. CASE state # "adding"
      <4>1. UNCHANGED <<cache, recover, oom, scanning>>  BY <1>6, <3>2 DEF Work
      <4>2. Cached' = Cached  BY <4>1 DEF Cached
      <4>3. {recover', oom', scanning'} \subseteq BOOLEAN  BY <4>1 DEF IInv, TypeOK
      <4> QED
        BY <1>4, <4>1, <4>2, <4>3 DEF IInv, TypeOK, SessionsTracked, OneSessionEach
    <3> QED  BY <3>1, <3>2
  <2>3. TypeOK'  BY <1>1, <2>1, <2>2 DEF IInv, TypeOK
  <2>4. SessionsTracked'  BY <1>1, <2>2 DEF SessionsTracked, OneSessionEach
  <2>5. QueueInv'  BY <1>3, <2>2 DEF QueueInv
  <2>6. ~touched => OnlyAdding' /\ OutcomeKnown' /\ ToBeAdded' /\ StaleBeacons'
    BY <1>1, <1>2, <1>6, <2>1
    DEF IInv, Untouched, OnlyAdding, OutcomeKnown, ToBeAdded, StaleBeacons
  <2>7. Untouched' /\ DbFollowsNcp'
    BY <1>1, <1>2, <2>1, <2>6 DEF IInv, Untouched, DbFollowsNcp
  <2> QED  BY <2>3, <2>4, <2>5, <2>7 DEF IInv
<1> QED  BY <1>5, <1>6

\* SetScan keeps types.
LEMMA SetScanTypes ==
  ASSUME scanning \in BOOLEAN, NEW s \in {0, 1, 2}, SetScan(s)
  PROVE  scanning' \in BOOLEAN /\ freeMode' = s
<1>1. CASE freeMode = 0 /\ s # 0  BY <1>1 DEF SetScan
<1>2. CASE freeMode # 0 /\ s = 0  BY <1>2 DEF SetScan
<1>3. CASE ~(freeMode = 0 /\ s # 0) /\ ~(freeMode # 0 /\ s = 0)  BY <1>3 DEF SetScan
<1> QED  BY <1>1, <1>2, <1>3

\* The state changes only when no session and no outcome is left.
LEMMA SetMngStateInv == IInv /\ SetMngState => IInv'
<1> SUFFICES ASSUME IInv, SetMngState PROVE IInv'
  OBVIOUS
<1>1. /\ pc = "sched" /\ pc' = "cmd"
      /\ UNCHANGED <<add, prov, backlog, cache, recover, oom, sess, ddb, member, q, touched>>
  BY DEF SetMngState, lists, ncp
<1>2. /\ state' \in {"configured", "starting", "adding", "working"}
      /\ scanning' \in BOOLEAN /\ freeMode' \in {0, 1, 2}
      /\ freeMode # 2 => freeMode' # 2
      /\ state' # "adding" => state # "adding" \/ add = {}
      /\ state' \in {"adding", "working"} => state \in {"starting", "adding", "working"}
      /\ state' # "starting"
  <2>0. /\ scanning \in BOOLEAN /\ freeMode \in {0, 1, 2}
        /\ state \in {"configured", "starting", "adding", "working"}
    BY DEF IInv, TypeOK
  <2>1. CASE EndAdding
    <3>1. scanning' \in BOOLEAN /\ freeMode' \in {0, 1, 2} /\ (freeMode # 2 => freeMode' # 2)
      <4>1. CASE freeMode < 2  BY <2>0, <2>1, <4>1, SetScanTypes DEF EndAdding
      <4>2. CASE ~(freeMode < 2)  BY <2>0, <2>1, <4>2 DEF EndAdding
      <4> QED  BY <4>1, <4>2
    <3> QED  BY <2>1, <3>1 DEF EndAdding
  <2>2. CASE StartAdding
    <3>1. scanning' \in BOOLEAN /\ freeMode' \in {0, 1, 2} /\ (freeMode # 2 => freeMode' # 2)
      <4>1. CASE freeMode = 0  BY <2>0, <2>2, <4>1, SetScanTypes DEF StartAdding
      <4>2. CASE freeMode # 0  BY <2>0, <2>2, <4>2 DEF StartAdding
      <4> QED  BY <4>1, <4>2
    <3> QED  BY <2>2, <3>1 DEF StartAdding
  <2>3. CASE /\ state \in {"starting", "working"} /\ state' \in {"working", "configured"}
             /\ UNCHANGED <<freeMode, scanning>>
    BY <2>0, <2>3
  <2>4. CASE /\ state = "configured" \/ (state = "adding" /\ add # {})
             /\ UNCHANGED <<state, freeMode, scanning>>
    BY <2>0, <2>4
  <2> QED  BY <2>1, <2>2, <2>3, <2>4 DEF SetMngState
<1>3. TypeOK'  BY <1>1, <1>2 DEF IInv, TypeOK
<1>4. SessionsTracked' /\ Cached' = Cached  BY <1>1 DEF IInv, SessionsTracked, Cached
<1>5. Pending' = Pending /\ \A i : Outcome(i)' <=> Outcome(i)
  BY <1>1 DEF Pending, Outcome
<1>6. QueueInv'
  BY <1>1, <1>4, <1>5 DEF IInv, QueueInv, QueueTypes, OneOutcome, BeaconsFirst, SinceDrained
<1>7. ASSUME ~touched PROVE OnlyAdding' /\ OutcomeKnown' /\ ToBeAdded' /\ StaleBeacons'
  <2>1. OnlyAdding /\ OutcomeKnown /\ ToBeAdded /\ StaleBeacons
    BY <1>7 DEF IInv, Untouched
  <2>2. OnlyAdding'  BY <1>1, <1>2, <1>5, <2>1 DEF OnlyAdding
  <2>3. OutcomeKnown' /\ StaleBeacons'  BY <1>1, <1>5, <2>1 DEF OutcomeKnown, StaleBeacons
  <2>4. ToBeAdded'  BY <1>1, <1>2, <2>1 DEF ToBeAdded
  <2> QED  BY <2>2, <2>3, <2>4
<1>8. Untouched' /\ DbFollowsNcp'
  BY <1>1, <1>5, <1>7 DEF IInv, Untouched, DbFollowsNcp
<1> QED  BY <1>3, <1>4, <1>6, <1>8 DEF IInv

LEMMA PollCmdInv == IInv /\ PollCmd => IInv'
<1> SUFFICES ASSUME IInv, PollCmd PROVE IInv'
  OBVIOUS
<1>1. /\ pc = "cmd" /\ pc' = "evt"
      /\ UNCHANGED <<prov, backlog, cache, recover, oom, sess, ddb, member, q>>
  BY DEF PollCmd, NoCmd, Sync, FreeMode, Polled, ncp
<1>2. SessionsTracked' /\ Cached' = Cached  BY <1>1 DEF IInv, SessionsTracked, Cached
<1>3. Pending' = Pending /\ \A i : Outcome(i)' <=> Outcome(i)
  BY <1>1 DEF Pending, Outcome
<1>4. QueueInv'
  BY <1>1, <1>2, <1>3
  DEF IInv, QueueInv, QueueTypes, OneOutcome, BeaconsFirst, SinceDrained
<1>5. CASE NoCmd
  <2>1. UNCHANGED <<state, add, freeMode, scanning, touched>>  BY <1>5 DEF NoCmd
  <2>2. TypeOK'  BY <1>1, <2>1 DEF IInv, TypeOK
  <2>3. ~touched => OnlyAdding' /\ OutcomeKnown' /\ ToBeAdded' /\ StaleBeacons'
    BY <1>1, <1>3, <2>1
    DEF IInv, Untouched, OnlyAdding, OutcomeKnown, ToBeAdded, StaleBeacons
  <2> QED
    BY <1>1, <1>2, <1>3, <1>4, <2>1, <2>2, <2>3 DEF IInv, Untouched, DbFollowsNcp
<1>6. CASE /\ state = "configured" /\ state' = "starting"
           /\ UNCHANGED <<add, touched, freeMode, scanning>>
  <2>1. TypeOK'  BY <1>1, <1>6 DEF IInv, TypeOK
  <2>2. ~touched => OnlyAdding' /\ OutcomeKnown' /\ ToBeAdded' /\ StaleBeacons'
    BY <1>1, <1>3, <1>6
    DEF IInv, Untouched, OnlyAdding, OutcomeKnown, ToBeAdded, StaleBeacons
  <2> QED
    BY <1>1, <1>2, <1>3, <1>4, <1>6, <2>1, <2>2 DEF IInv, Untouched, DbFollowsNcp
<1>7. CASE add' = {} /\ touched' = TRUE /\ UNCHANGED <<state, freeMode, scanning>>
  <2>1. TypeOK'  BY <1>1, <1>7 DEF IInv, TypeOK
  <2> QED  BY <1>2, <1>4, <1>7, <2>1 DEF IInv, Untouched, DbFollowsNcp
<1>8. ASSUME NEW s \in {0, 2}, FreeMode(s) PROVE IInv'
  <2>1. touched' = TRUE /\ UNCHANGED <<state, add>> /\ SetScan(s)  BY <1>8 DEF FreeMode
  <2>2. scanning' \in BOOLEAN /\ freeMode' \in {0, 1, 2}
    BY <2>1, SetScanTypes DEF IInv, TypeOK
  <2>3. TypeOK'  BY <1>1, <2>1, <2>2 DEF IInv, TypeOK
  <2> QED  BY <1>2, <1>4, <2>1, <2>3 DEF IInv, Untouched, DbFollowsNcp
<1> QED  BY <1>5, <1>6, <1>7, <1>8 DEF PollCmd, Sync

-----------------------------------------------------------------------------
(* The theorems *)

LEMMA NextInv == IInv /\ [Next]_vars => IInv'
<1> SUFFICES ASSUME IInv, [Next]_vars PROVE IInv'
  OBVIOUS
<1>1. CASE UNCHANGED vars
  <2>1. UNCHANGED <<state, add, prov, backlog, cache, recover, oom, freeMode, pc, scanning,
                    sess, ddb, member, q, touched>>
    BY <1>1 DEF vars
  <2>2. /\ Cached' = Cached /\ Pending' = Pending /\ \A i : Outcome(i)' <=> Outcome(i)
    BY <2>1 DEF Cached, Pending, Outcome
  <2>3. TypeOK' /\ SessionsTracked'  BY <2>1, <2>2 DEF IInv, TypeOK, SessionsTracked
  <2>4. QueueInv'
    BY <2>1, <2>2
    DEF IInv, QueueInv, QueueTypes, OneOutcome, BeaconsFirst, SinceDrained
  <2>5. Untouched' /\ DbFollowsNcp'
    BY <2>1, <2>2
    DEF IInv, Untouched, OnlyAdding, OutcomeKnown, ToBeAdded, StaleBeacons, DbFollowsNcp
  <2> QED  BY <2>3, <2>4, <2>5 DEF IInv
<1>2. CASE MainLoop
  BY <1>2, PollCmdInv, NoMoreEventsInv, WorkInv, SetMngStateInv DEF MainLoop
<1>3. ASSUME NEW d \in Devs \cup Strangers, DevAddHdr(d) PROVE IInv'
  <2>1. ASSUME NEW r \in {"ok", "oom", "api"}, ProvisionDevice(d, r) PROVE IInv'
    BY <2>1, ProvisionDeviceInv
  <2>2. ASSUME NEW t \in {"ok", "fail", "seven"}, Dropped(t, d) PROVE IInv'
    BY <2>2, DroppedInv
  <2> QED
    BY <1>3, <2>1, <2>2, IgnoreBeaconInv, RecordBeaconInv, OnProvSuccessInv, OnProvFailedInv,
       ProvFailedWaInv DEF DevAddHdr
<1>4. ASSUME NEW d \in Devs \cup Strangers, Beacon(d) PROVE IInv'  BY <1>4, BeaconInv
<1>5. ASSUME NEW d \in Devs, NEW t \in {"ok", "fail", "seven", "silent"}, SessionEnds(d, t)
      PROVE  IInv'
  BY <1>5, SessionEndsInv
<1>6. ASSUME NEW d \in Devs, FactoryReset(d) PROVE IInv'  BY <1>6, FactoryResetInv
<1> QED  BY <1>1, <1>2, <1>3, <1>4, <1>5, <1>6 DEF Next

\* The invariant of adding devices, for any network file, sessions and failures.
THEOREM AddInvariant == Spec => []IInv
<1>1. Init => IInv  BY InitInv
<1>2. IInv /\ [Next]_vars => IInv'  BY NextInv
<1> QED  BY <1>1, <1>2, PTL DEF Spec

\* The state of dev_add.c keeps its types; in particular no device with an address
\* is in the list of devices to be added.
THEOREM TypeCorrect == Spec => []TypeOK
<1>1. IInv => TypeOK  BY DEF IInv
<1> QED  BY <1>1, AddInvariant, PTL

\* The host knows every session of the NCP target (rmcached, add_loop): it never
\* forgets one that goes on, nor starts one twice.
THEOREM SessionsKnown == Spec => []SessionsTracked
<1>1. IInv => SessionsTracked  BY DEF IInv
<1> QED  BY <1>1, AddInvariant, PTL

\* on_prov_success, prov_failed_wa and load_lists keep the two databases together,
\* as long as the user does not disturb a sync.
THEOREM DatabasesAgree == Spec => []DbFollowsNcp
<1>1. IInv => DbFollowsNcp  BY DEF IInv
<1> QED  BY <1>1, AddInvariant, PTL

-----------------------------------------------------------------------------
(* Scanning *)

\* Without free mode, scanning is on only while adding, and free_mode says so.
ScanInv ==
  /\ freeMode = IF state = "adding" THEN 1 ELSE 0
  /\ scanning => state = "adding"

LEMMA ScanStep ==
  ASSUME "freemode" \notin Commands, ScanInv, [Next]_vars PROVE ScanInv'
<1>1. ASSUME UNCHANGED <<state, freeMode>>, scanning' => scanning \/ state = "adding"
      PROVE  ScanInv'
  BY <1>1 DEF ScanInv
<1>2. CASE UNCHANGED vars  BY <1>1, <1>2 DEF vars
<1>3. CASE PollCmd
  <2>1. UNCHANGED <<freeMode, scanning>>
    BY <1>3 DEF PollCmd, NoCmd, Sync, FreeMode
  <2>2. state' = state \/ (state = "configured" /\ state' = "starting")
    BY <1>3 DEF PollCmd, NoCmd, Sync, FreeMode
  <2> QED  BY <2>1, <2>2 DEF ScanInv
<1>4. CASE NoMoreEvents  BY <1>1, <1>4 DEF NoMoreEvents
<1>5. CASE Work
  <2>1. UNCHANGED <<state, freeMode>>  BY <1>5 DEF Work
  <2>2. scanning' => scanning \/ state = "adding"  BY <1>5 DEF Work
  <2> QED  BY <1>1, <2>1, <2>2
<1>6. CASE SetMngState
  <2>1. CASE EndAdding
    <3>1. freeMode = 1 /\ SetScan(0)  BY <2>1 DEF EndAdding, ScanInv
    <3>2. freeMode' = 0 /\ scanning' = FALSE  BY <3>1 DEF SetScan
    <3> QED  BY <2>1, <3>2 DEF EndAdding, ScanInv
  <2>2. CASE StartAdding
    <3>1. freeMode = 0 /\ SetScan(1)  BY <2>2 DEF StartAdding, ScanInv
    <3>2. freeMode' = 1  BY <3>1 DEF SetScan
    <3> QED  BY <2>2, <3>2 DEF StartAdding, ScanInv
  <2>3. CASE /\ state \in {"starting", "working"} /\ state' \in {"working", "configured"}
             /\ UNCHANGED <<freeMode, scanning>>
    BY <2>3 DEF ScanInv
  <2>4. CASE UNCHANGED <<state, freeMode, scanning>>  BY <1>1, <2>4
  <2> QED  BY <1>6, <2>1, <2>2, <2>3, <2>4 DEF SetMngState
<1>7. ASSUME NEW d \in Devs \cup Strangers, DevAddHdr(d) PROVE ScanInv'
  <2>1. UNCHANGED <<state, freeMode>>
    BY <1>7 DEF DevAddHdr, IgnoreBeacon, RecordBeacon, ProvisionDevice, OnProvSuccess,
                OnProvFailed, ProvFailedWa, Dropped, Handle
  <2>2. scanning' = scanning \/ Passes
    BY <1>7 DEF DevAddHdr, IgnoreBeacon, RecordBeacon, ProvisionDevice, OnProvSuccess,
                OnProvFailed, ProvFailedWa, Dropped, Ignored
  <2>3. Passes => state = "adding"  BY DEF Passes, ScanInv
  <2> QED  BY <1>1, <2>1, <2>2, <2>3
<1>8. ASSUME NEW d \in Devs \cup Strangers, Beacon(d) PROVE ScanInv'
  BY <1>1, <1>8 DEF Beacon, Host
<1>9. ASSUME NEW d \in Devs, NEW t \in {"ok", "fail", "seven", "silent"}, SessionEnds(d, t)
      PROVE  ScanInv'
  BY <1>1, <1>9 DEF SessionEnds, Host
<1>10. ASSUME NEW d \in Devs, FactoryReset(d) PROVE ScanInv'
  BY <1>1, <1>10 DEF FactoryReset, Host
<1> QED
  BY <1>2, <1>3, <1>4, <1>5, <1>6, <1>7, <1>8, <1>9, <1>10 DEF Next, MainLoop

\* set_mng_state turns scanning off when adding ends, and neither the end of a session
\* nor the end of an out-of-memory delay turns it on again after that, unless
\* the user switches free mode.
THEOREM ScanReasoned ==
  ASSUME "freemode" \notin Commands PROVE Spec => []ScanHasReason
<1>1. Init => ScanInv  BY DEF Init, ScanInv
<1>2. ScanInv /\ [Next]_vars => ScanInv'  BY ScanStep
<1>3. ScanInv => ScanHasReason  BY DEF ScanInv, ScanHasReason
<1> QED  BY <1>1, <1>2, <1>3, PTL DEF Spec

=============================================================================
