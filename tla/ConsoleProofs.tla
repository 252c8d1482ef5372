---------------------------- MODULE ConsoleProofs ---------------------------
(***************************************************************************)
(* Proofs about Console for any commands, lights, demonstration and memory *)
(* for the queue: the linked list of cmd_enq and cmd_deq stays a list, and *)
(* an accepted request is carried out as it was asked for.                 *)
(*                                                                         *)
(* That the cells of the queue are a list is said with a sequence of all   *)
(* of them in their order, for which one is found after each operation.    *)
(***************************************************************************)
EXTENDS Console, FiniteSetTheorems, WellFoundedInduction, SequenceTheorems, TLAPS

-----------------------------------------------------------------------------
(* Natural numbers *)

\* A set of numbers has a least one, hence induction with a set for the predicate.
LEMMA Least ==
  ASSUME NEW T, T \subseteq Nat, T # {}
  PROVE  \E x \in T : \A y \in T : x <= y
<1>1. IsWellFoundedOn(OpToRel(<, Nat), Nat)  BY NatLessThanWellFounded
<1>2. PICK x \in T : \A y \in T : ~ (<<y, x>> \in OpToRel(<, Nat))  BY <1>1, WFMin
<1>3. \A y \in T : ~ (y < x)  BY <1>2 DEF OpToRel
<1> QED  BY <1>3

\* Induction, with a set in place of a predicate.
LEMMA Induction ==
  ASSUME NEW S, 0 \in S, NEW N \in Nat, \A n \in 0..(N - 1) : n \in S => n + 1 \in S
  PROVE  0..N \subseteq S
<1> SUFFICES ASSUME (0..N) \ S # {} PROVE FALSE
  OBVIOUS
<1>1. PICK x \in (0..N) \ S : \A y \in (0..N) \ S : x <= y
  <2>1. (0..N) \ S \subseteq Nat  OBVIOUS
  <2> QED  BY <2>1, Least
<1>2. x # 0 /\ x - 1 \in 0..(N - 1)  BY <1>1
<1>3. x - 1 \in S  BY <1>1, <1>2
<1>4. (x - 1) + 1 \in S  BY <1>2, <1>3
<1> QED  BY <1>1, <1>4

-----------------------------------------------------------------------------
(* The inductive invariant *)

\* s has the allocated cells, each once, linked in this order from head to tail.
IsList(s) ==
  /\ \A c \in Cells : c \in used <=> \E i \in 1..Len(s) : s[i] = c
  /\ \A i, j \in 1..Len(s) : s[i] = s[j] => i = j
  /\ \A i \in 1..Len(s) : next[s[i]] = IF i = Len(s) THEN None ELSE s[i + 1]
  /\ s = <<>> => head = None /\ tail = None
  /\ s # <<>> => head = s[1] /\ tail = s[Len(s)]

QueueInv ==
  /\ used \subseteq Cells
  /\ next \in [Cells -> Cells \cup {None}] /\ item \in [Cells -> Cmds \cup {None}]
  /\ \A x \in used : item[x] \in Cmds
  /\ \E s \in Seq(Cells) : IsList(s)

RunInv ==
  /\ pc \in {"poll", "run", "models", "demo", "demo set", "demo send"}
  /\ cur \in Cmds \cup {None} /\ (cur # None <=> pc = "run")
  /\ demo \in BOOLEAN /\ pos \in 0..Len(DemoAddrs) /\ k \in 0..(Len(DemoAddrs) + 1)
  /\ pc = "demo set" => k \in 1..(pos + 1)
  /\ pc = "demo send" => k \in 1..pos

LightInv ==
  /\ type \in LightKinds \cup {None} /\ value \in Values /\ pend \in Seq(Lights)
  /\ asked \in Seq(Messages) /\ sent \in Seq(Messages)
  /\ RequestServed

IInv == QueueInv /\ RunInv /\ LightInv

LEMMA DemoLen == DemoAddrs \in Seq(Lights) /\ Len(DemoAddrs) \in Nat
<1>1. DemoAddrs \in Seq(Lights)  BY ConsoleAssumption, Zenon
<1> QED  BY <1>1

\* The counters of the demonstration: a round ahead, and along the lights so far.
LEMMA Rounds ==
  ASSUME NEW n \in Nat, NEW p \in 0..n, NEW j \in 0..(n + 1)
  PROVE  /\ 0 \in 0..n /\ p + 1 \in 1..(p + 1) /\ 1 \in 1..(p + 1) /\ 1 \in 0..(n + 1)
         /\ p < n => p + 1 \in 0..n /\ 1 \in 1..(p + 1 + 1)
         /\ j \in 1..(p + 1) /\ j <= p => j \in 1..n /\ j \in 1..p
         /\ j \in 1..p => j + 1 \in 0..(n + 1) /\ j + 1 \in 1..(p + 1)
OBVIOUS

LEMMA InvTypes == IInv => TypeOK
<1> SUFFICES ASSUME IInv PROVE TypeOK
  OBVIOUS
<1>1. PICK s \in Seq(Cells) : IsList(s)  BY DEF IInv, QueueInv
<1>2. CASE s = <<>>
  <2>1. Len(s) = 0 /\ 1..Len(s) = {}  BY <1>2
  <2>2. head = None /\ tail = None /\ used = {}  BY <1>1, <1>2, <2>1 DEF IsList, IInv, QueueInv
  <2> QED  BY <2>2 DEF TypeOK, IInv, QueueInv, RunInv, LightInv
<1>3. CASE s # <<>>
  <2>1. 1 \in 1..Len(s) /\ Len(s) \in 1..Len(s)  BY <1>3
  <2>2. s[1] \in Cells /\ s[Len(s)] \in Cells  BY <2>1
  <2>3. {head, tail} \subseteq used  BY <1>1, <1>3, <2>1, <2>2 DEF IsList
  <2> QED  BY <2>3 DEF TypeOK, IInv, QueueInv, RunInv, LightInv
<1> QED  BY <1>2, <1>3

LEMMA InitInv == Init => IInv
<1> SUFFICES ASSUME Init PROVE IInv
  OBVIOUS
<1>1. IsList(<<>>)
  <2>1. Len(<<>>) = 0 /\ 1..Len(<<>>) = {}  OBVIOUS
  <2> QED  BY <2>1 DEF IsList, Init
<1>2. <<>> \in Seq(Cells)  OBVIOUS
<1>3. QueueInv
  <2>1. next \in [Cells -> Cells \cup {None}] /\ item \in [Cells -> Cmds \cup {None}]
    BY DEF Init
  <2> QED  BY <1>1, <1>2, <2>1 DEF Init, QueueInv
<1>4. RunInv
  <2>1. pos \in 0..Len(DemoAddrs) /\ k \in 0..(Len(DemoAddrs) + 1)  BY DemoLen DEF Init
  <2> QED  BY <2>1 DEF Init, RunInv
<1>5. LightInv
  <2>1. Sending(pend, type, value) = <<>>  BY DEF Init, Sending
  <2>2. asked = sent \o Sending(pend, type, value)  BY <2>1 DEF Init
  <2> QED  BY <2>2 DEF Init, LightInv, RequestServed, Values
<1> QED  BY <1>3, <1>4, <1>5 DEF IInv

-----------------------------------------------------------------------------
(* The queue *)

\* cmd_enq puts the new cell behind the last one.
LEMMA EnqList ==
  ASSUME QueueInv, NEW c \in Cmds, Enq(c), NEW s \in Seq(Cells), IsList(s)
  PROVE  /\ QueueInv'
         /\ \E x \in Cells \ used : item' = [item EXCEPT ![x] = c] /\ IsList(Append(s, x))'
<1>1. PICK x \in Cells \ used :
        /\ used' = used \cup {x}
        /\ item' = [item EXCEPT ![x] = c]
        /\ tail' = x
        /\ IF tail # None
           THEN next' = [next EXCEPT ![x] = None, ![tail] = x] /\ UNCHANGED head
           ELSE next' = [next EXCEPT ![x] = None] /\ head' = x
  BY DEF Enq
<1>2. IsList(s)  OBVIOUS
<1>3. None \notin Cells  BY ConsoleAssumption, Zenon
<1> DEFINE t == Append(s, x)
<1>4. /\ t \in Seq(Cells) /\ Len(s) \in Nat /\ Len(t) = Len(s) + 1 /\ t # <<>>
      /\ \A i \in 1..Len(s) : t[i] = s[i] /\ s[i] \in Cells
      /\ t[Len(t)] = x
      /\ \A i \in 1..Len(t) : i \in 1..Len(s) \/ i = Len(t)
  <2>1. t \in Seq(Cells) /\ Len(s) \in Nat /\ Len(t) = Len(s) + 1  OBVIOUS
  <2>2. \A i \in 1..Len(s) : t[i] = s[i] /\ s[i] \in Cells  OBVIOUS
  <2>3. t[Len(s) + 1] = x  OBVIOUS
  <2> HIDE DEF t
  <2>4. t # <<>>  BY <2>1
  <2> QED  BY <2>1, <2>2, <2>3, <2>4
<1> HIDE DEF t
<1>5. \A i \in 1..Len(s) : s[i] \in used /\ s[i] # x  BY <1>1, <1>4, <1>2 DEF IsList
<1>6. item' \in [Cells -> Cmds \cup {None}] /\ \A y \in used' : item'[y] \in Cmds
  BY <1>1 DEF QueueInv
<1>7. CASE s = <<>>
  <2>1. Len(s) = 0 /\ Len(t) = 1 /\ head = None /\ tail = None
    BY <1>2, <1>4, <1>7 DEF IsList
  <2>2. next' = [next EXCEPT ![x] = None] /\ head' = x  BY <1>1, <2>1
  <2>3. next' \in [Cells -> Cells \cup {None}] /\ next'[x] = None
    BY <1>1, <2>2 DEF QueueInv
  <2>4. \A i \in 1..Len(t) : i = 1 /\ i = Len(t) /\ t[i] = x  BY <1>4, <2>1
  <2>5. used' = {x}  BY <1>1, <1>2, <2>1 DEF IsList, QueueInv
  <2>6. 1 \in 1..Len(t)  BY <2>1
  <2>7. IsList(t)'  BY <1>1, <1>4, <2>1, <2>2, <2>3, <2>4, <2>5, <2>6 DEF IsList
  <2>8. QueueInv'  BY <1>1, <1>4, <1>6, <2>3, <2>7 DEF QueueInv
  <2> QED  BY <1>1, <2>7, <2>8 DEF t
<1>8. CASE s # <<>>
  <2>1. /\ Len(s) \in 1..Len(s) /\ 1 \in 1..Len(s)
        /\ head = s[1] /\ tail = s[Len(s)] /\ tail \in Cells /\ tail # None /\ tail # x
    BY <1>2, <1>3, <1>4, <1>5, <1>8 DEF IsList
  <2>2. next' = [next EXCEPT ![x] = None, ![tail] = x] /\ head' = head  BY <1>1, <2>1
  <2>3. next \in [Cells -> Cells \cup {None}]  BY DEF QueueInv
  <2>4. next' \in [Cells -> Cells \cup {None}]  BY <1>1, <2>1, <2>2, <2>3
  <2>5. /\ next'[x] = None /\ next'[tail] = x
        /\ \A y \in Cells : y # x /\ y # tail => next'[y] = next[y]
    BY <1>1, <2>1, <2>2, <2>3
  <2>6. \A y \in Cells : y \in used' <=> \E i \in 1..Len(t) : t[i] = y
    <3>1. \A y \in Cells : y \in used <=> \E i \in 1..Len(s) : s[i] = y  BY <1>2 DEF IsList
    <3>2. \A i \in 1..Len(s) : i \in 1..Len(t)  BY <1>4
    <3>3. Len(t) \in 1..Len(t)  BY <1>4
    <3> QED  BY <1>1, <1>4, <3>1, <3>2, <3>3
  <2>7. \A i, j \in 1..Len(t) : t[i] = t[j] => i = j
    BY <1>2, <1>4, <1>5 DEF IsList
  <2>8. ASSUME NEW i \in 1..Len(t)
        PROVE  next'[t[i]] = IF i = Len(t) THEN None ELSE t[i + 1]
    <3>1. CASE i = Len(t)  BY <1>4, <2>5, <3>1
    <3>2. CASE i = Len(s)  BY <1>4, <2>1, <2>5, <3>2
    <3>3. CASE i \in 1..Len(s) /\ i # Len(s)
      <4>1. i + 1 \in 1..Len(s) /\ i # Len(t)  BY <1>4, <3>3
      <4>2. next[s[i]] = s[i + 1]  BY <1>2, <3>3 DEF IsList
      <4>3. s[i] # tail  BY <1>2, <2>1, <3>3 DEF IsList
      <4> QED  BY <1>4, <1>5, <2>5, <3>3, <4>1, <4>2, <4>3
    <3> QED  BY <1>4, <3>1, <3>2, <3>3
  <2>9. head' = t[1] /\ tail' = t[Len(t)]  BY <1>1, <1>4, <2>1, <2>2
  <2>10. IsList(t)'  BY <1>4, <2>6, <2>7, <2>8, <2>9 DEF IsList
  <2>11. QueueInv'  BY <1>1, <1>4, <1>6, <2>4, <2>10 DEF QueueInv
  <2> QED  BY <1>1, <2>10, <2>11 DEF t
<1> QED  BY <1>7, <1>8

LEMMA EnqInv == ASSUME QueueInv, NEW c \in Cmds, Enq(c) PROVE QueueInv'
  BY EnqList DEF QueueInv

\* cmd_deq takes the first cell; what it frees is not linked from any other.
LEMMA DeqList ==
  ASSUME QueueInv, Deq, NEW s \in Seq(Cells), IsList(s)
  PROVE  /\ QueueInv' /\ cur' \in Cmds
         /\ s # <<>> /\ cur' = item[s[1]] /\ IsList(Tail(s))'
         /\ \A i \in 1..Len(Tail(s)) : item'[Tail(s)[i]] = item[Tail(s)[i]]
<1>1. /\ head # None /\ cur' = item[head] /\ head' = next[head]
      /\ tail' = IF next[head] = None THEN None ELSE tail
      /\ used' = used \ {head}
      /\ next' = [next EXCEPT ![head] = None] /\ item' = [item EXCEPT ![head] = None]
  BY DEF Deq, Free
<1>2. IsList(s)  OBVIOUS
<1>3. None \notin Cells  BY ConsoleAssumption, Zenon
<1>4. s # <<>>  BY <1>1, <1>2 DEF IsList
<1> DEFINE t == Tail(s)
<1>5. /\ t \in Seq(Cells) /\ Len(s) \in Nat /\ Len(s) >= 1 /\ Len(t) = Len(s) - 1
      /\ \A i \in 1..Len(t) : i + 1 \in 1..Len(s) /\ t[i] = s[i + 1]
      /\ \A i \in 1..Len(s) : s[i] \in Cells
      /\ 1 \in 1..Len(s) /\ Len(s) \in 1..Len(s)
      /\ t = <<>> <=> Len(s) = 1
  <2>1. t \in Seq(Cells) /\ Len(s) \in Nat /\ Len(s) >= 1 /\ Len(t) = Len(s) - 1
    BY <1>4
  <2>2. \A i \in 1..Len(t) : t[i] = s[i + 1]  BY <1>4
  <2>3. \A i \in 1..Len(s) : s[i] \in Cells  OBVIOUS
  <2> HIDE DEF t
  <2>4. t = <<>> <=> Len(t) = 0  BY <2>1
  <2> QED  BY <2>1, <2>2, <2>3, <2>4
<1> HIDE DEF t
<1>6. head = s[1] /\ tail = s[Len(s)] /\ head \in used /\ head \in Cells
  BY <1>2, <1>4, <1>5 DEF IsList
<1>7. cur' \in Cmds  BY <1>1, <1>6 DEF QueueInv
<1>8. next \in [Cells -> Cells \cup {None}] /\ item \in [Cells -> Cmds \cup {None}]
  BY DEF QueueInv
<1>9. /\ used' \subseteq Cells
      /\ next' \in [Cells -> Cells \cup {None}] /\ item' \in [Cells -> Cmds \cup {None}]
      /\ \A x \in used' : item'[x] \in Cmds
  BY <1>1, <1>6, <1>8 DEF QueueInv
<1>10. \A i \in 1..Len(t) : t[i] # head  BY <1>2, <1>5, <1>6 DEF IsList
<1>11. \A y \in Cells : y \in used' <=> \E i \in 1..Len(t) : t[i] = y
  <2> SUFFICES ASSUME NEW y \in Cells PROVE y \in used' <=> \E i \in 1..Len(t) : t[i] = y
    OBVIOUS
  <2>1. y \in used <=> \E i \in 1..Len(s) : s[i] = y  BY <1>2 DEF IsList
  <2>2. ASSUME y \in used' PROVE \E i \in 1..Len(t) : t[i] = y
    <3>1. PICK i \in 1..Len(s) : s[i] = y /\ i # 1  BY <1>1, <1>6, <2>1, <2>2
    <3>2. i - 1 \in 1..Len(t) /\ (i - 1) + 1 = i  BY <1>5, <3>1
    <3> QED  BY <1>5, <3>1, <3>2
  <2>3. ASSUME NEW i \in 1..Len(t), t[i] = y PROVE y \in used'
    BY <1>1, <1>5, <1>10, <2>1, <2>3
  <2> QED  BY <2>2, <2>3
<1>12. \A i, j \in 1..Len(t) : t[i] = t[j] => i = j
  <2> SUFFICES ASSUME NEW i \in 1..Len(t), NEW j \in 1..Len(t), t[i] = t[j] PROVE i = j
    OBVIOUS
  <2>1. i + 1 = j + 1  BY <1>2, <1>5 DEF IsList
  <2> QED  BY <2>1, <1>5
<1>13. ASSUME NEW i \in 1..Len(t)
       PROVE  next'[t[i]] = IF i = Len(t) THEN None ELSE t[i + 1]
  <2>1. i + 1 \in 1..Len(s) /\ t[i] = s[i + 1] /\ t[i] \in Cells  BY <1>5
  <2>2. next'[t[i]] = next[s[i + 1]]  BY <1>1, <1>8, <1>10, <2>1
  <2>3. next[s[i + 1]] = IF i + 1 = Len(s) THEN None ELSE s[(i + 1) + 1]
    BY <1>2, <2>1 DEF IsList
  <2>4. CASE i = Len(t)  BY <1>5, <2>2, <2>3, <2>4
  <2>5. CASE i # Len(t)
    <3>1. i + 1 \in 1..Len(t) /\ i + 1 # Len(s)  BY <1>5, <2>5
    <3> QED  BY <1>5, <2>2, <2>3, <2>5, <3>1
  <2> QED  BY <2>4, <2>5
<1>14. next[head] = IF Len(s) = 1 THEN None ELSE s[2]
  <2>1. next[s[1]] = IF 1 = Len(s) THEN None ELSE s[1 + 1]  BY <1>2, <1>5 DEF IsList
  <2> QED  BY <1>6, <2>1
<1>15. t = <<>> => head' = None /\ tail' = None  BY <1>1, <1>5, <1>14
<1>16. t # <<>> => head' = t[1] /\ tail' = t[Len(t)]
  <2> SUFFICES ASSUME t # <<>> PROVE head' = t[1] /\ tail' = t[Len(t)]
    OBVIOUS
  <2>1. 1 \in 1..Len(t) /\ Len(t) \in 1..Len(t) /\ t[1] = s[2] /\ t[Len(t)] = s[Len(s)]
    <3>1. Len(s) # 1  BY <1>5
    <3>2. 1 \in 1..Len(t) /\ Len(t) \in 1..Len(t) /\ Len(t) + 1 = Len(s)  BY <1>5, <3>1
    <3>3. t[1] = s[1 + 1] /\ t[Len(t)] = s[Len(t) + 1]  BY <1>5, <3>2
    <3> QED  BY <3>2, <3>3
  <2>2. next[head] = s[2] /\ s[2] # None
    BY <1>3, <1>5, <1>14, <2>1
  <2> QED  BY <1>1, <1>6, <2>1, <2>2
<1>17. IsList(t)'  BY <1>11, <1>12, <1>13, <1>15, <1>16 DEF IsList
<1>18. QueueInv'  BY <1>5, <1>9, <1>17 DEF QueueInv
<1>19. \A i \in 1..Len(t) : item'[t[i]] = item[t[i]]  BY <1>1, <1>5, <1>8, <1>10
<1> QED  BY <1>1, <1>4, <1>6, <1>7, <1>17, <1>18, <1>19 DEF t

LEMMA DeqInv == ASSUME QueueInv, Deq PROVE QueueInv' /\ cur' \in Cmds
  BY DeqList DEF QueueInv

-----------------------------------------------------------------------------
(* Lights *)

LEMMA FunctionSeq ==
  ASSUME NEW S, NEW n \in Nat, NEW f \in [1..n -> S] PROVE f \in Seq(S) /\ Len(f) = n
  OBVIOUS

\* One message to each light, in their order.
LEMMA SendingSeq ==
  ASSUME NEW as \in Seq(Lights), NEW t \in LightKinds, NEW v \in Values
  PROVE  /\ Sending(as, t, v) \in Seq(Messages) /\ Len(Sending(as, t, v)) = Len(as)
         /\ \A n \in 1..Len(as) : Sending(as, t, v)[n] = Message(as[n], t, v)
<1>1. Len(as) \in Nat /\ DOMAIN as = 1..Len(as) /\ \A n \in 1..Len(as) : as[n] \in Lights
  BY LenProperties
<1>2. Sending(as, t, v) = [n \in 1..Len(as) |-> Message(as[n], t, v)]  BY <1>1 DEF Sending
<1>3. \A n \in 1..Len(as) : Message(as[n], t, v) \in Messages
  BY <1>1 DEF Message, Messages
<1>4. Sending(as, t, v) \in [1..Len(as) -> Messages]  BY <1>2, <1>3
<1>5. Sending(as, t, v) \in Seq(Messages) /\ Len(Sending(as, t, v)) = Len(as)
  BY <1>1, <1>4, FunctionSeq, Zenon
<1> QED  BY <1>2, <1>5

LEMMA SendingNothing == ASSUME NEW t, NEW v PROVE Sending(<<>>, t, v) = <<>>
  BY DEF Sending

\* The request that is accepted stands for one message to each of its lights.
LEMMA AcceptInv ==
  ASSUME NEW t \in LightKinds, NEW v \in Values, NEW as \in Seq(Lights), Accept(t, v, as)
  PROVE  LightInv'
<1>1. /\ value' = v /\ pend' = as /\ type' = IF as = <<>> THEN None ELSE t
      /\ asked' = Sending(as, t, v) /\ sent' = <<>>
  BY DEF Accept
<1>2. asked' \in Seq(Messages) /\ sent' \in Seq(Messages)  BY <1>1, SendingSeq, EmptySeq
<1>3. Sending(pend', type', value') = asked'
  <2>1. CASE as = <<>>  BY <1>1, <2>1, SendingNothing
  <2>2. CASE as # <<>>  BY <1>1, <2>2
  <2> QED  BY <2>1, <2>2
<1>4. asked' = sent' \o Sending(pend', type', value')  BY <1>1, <1>2, <1>3, ConcatEmptySeq
<1>5. type' = None <=> pend' = <<>>
  <2>1. t # None  BY ConsoleAssumption, Zenon
  <2> QED  BY <1>1, <2>1
<1> QED  BY <1>1, <1>2, <1>4, <1>5 DEF LightInv, RequestServed

LEMMA LightSetInv ==
  ASSUME LightInv, NEW t \in LightKinds, NEW v \in Values, NEW as \in Seq(Lights),
         LightSet(t, v, as)
  PROVE  LightInv'
<1>1. CASE type # None
  BY <1>1 DEF LightSet, modelSet, hist, LightInv, RequestServed
<1>2. CASE type = None  BY <1>2, AcceptInv DEF LightSet
<1> QED  BY <1>1, <1>2

\* One more message: what is sent and what is left make up what was asked for.
LEMMA HandledInv == LightInv /\ Handled => LightInv'
<1> SUFFICES ASSUME LightInv, Handled PROVE LightInv'
  OBVIOUS
<1>1. /\ pend # <<>> /\ sent' = Append(sent, Message(Head(pend), type, value))
      /\ pend' = Tail(pend) /\ type' = IF Tail(pend) = <<>> THEN None ELSE type
      /\ UNCHANGED <<value, asked>>
  BY DEF Handled
<1>2. /\ type \in LightKinds \cup {None} /\ value \in Values /\ pend \in Seq(Lights)
      /\ asked \in Seq(Messages) /\ sent \in Seq(Messages)
      /\ asked = sent \o Sending(pend, type, value) /\ (type = None <=> pend = <<>>)
  BY DEF LightInv, RequestServed
<1>3. type \in LightKinds /\ type # None  BY <1>1, <1>2
<1>4. /\ Head(pend) \in Lights /\ Tail(pend) \in Seq(Lights)
      /\ Len(Tail(pend)) = Len(pend) - 1
      /\ \A i \in 1..Len(Tail(pend)) : Tail(pend)[i] = pend[i + 1]
  BY <1>1, <1>2, HeadTailProperties
<1> DEFINE m == Message(Head(pend), type, value)
           u == Sending(pend, type, value)
           w == Sending(Tail(pend), type, value)
<1>5. m \in Messages  BY <1>2, <1>3, <1>4 DEF Message, Messages
<1>6. /\ u \in Seq(Messages) /\ Len(u) = Len(pend)
      /\ \A n \in 1..Len(pend) : u[n] = Message(pend[n], type, value)
  BY <1>2, <1>3, SendingSeq
<1>7. /\ w \in Seq(Messages) /\ Len(w) = Len(Tail(pend))
      /\ \A n \in 1..Len(Tail(pend)) : w[n] = Message(Tail(pend)[n], type, value)
  BY <1>2, <1>3, <1>4, SendingSeq
<1>8. Len(pend) \in Nat /\ Len(pend) >= 1 /\ Head(pend) = pend[1]  BY <1>1, <1>2
<1> HIDE DEF m, u, w
<1>9. u = <<m>> \o w
  <2>1. <<m>> \in Seq(Messages) /\ Len(<<m>>) = 1 /\ <<m>>[1] = m  BY <1>5
  <2>2. /\ <<m>> \o w \in Seq(Messages) /\ Len(<<m>> \o w) = 1 + Len(w)
        /\ \A i \in 1..1 + Len(w) :
             (<<m>> \o w)[i] = IF i <= 1 THEN <<m>>[i] ELSE w[i - 1]
    BY <1>7, <2>1, ConcatProperties
  <2>3. Len(u) = Len(<<m>> \o w) /\ Len(u) = 1 + Len(w) /\ Len(w) \in Nat
    <3>1. Len(w) \in Nat  BY <1>7, LenProperties, Zenon
    <3>2. Len(w) = Len(pend) - 1 /\ Len(u) = Len(pend)  BY <1>4, <1>6, <1>7, Zenon
    <3>3. Len(<<m>> \o w) = 1 + Len(w)  BY <2>2, Zenon
    <3>4. Len(pend) = 1 + Len(w)  BY <1>8, <3>1, <3>2
    <3> QED  BY <3>1, <3>2, <3>3, <3>4, Zenon
  <2>4. ASSUME NEW i \in 1..Len(u) PROVE u[i] = (<<m>> \o w)[i]
    <3>1. CASE i = 1  BY <1>6, <1>8, <2>1, <2>2, <2>3, <3>1 DEF m
    <3>2. CASE i # 1
      <4>1. i - 1 \in 1..Len(w) /\ (i - 1) + 1 = i /\ i \in 1..Len(pend)
        BY <1>6, <2>3, <3>2
      <4>2. w[i - 1] = Message(pend[i], type, value)  BY <1>4, <1>7, <4>1
      <4> QED  BY <1>6, <2>2, <2>3, <3>2, <4>1, <4>2
    <3> QED  BY <3>1, <3>2
  <2> QED  BY <1>6, <2>2, <2>3, <2>4, SeqEqual
<1>10. Append(sent, m) = sent \o <<m>> /\ Append(sent, m) \in Seq(Messages)
  BY <1>2, <1>5
<1>11. asked = Append(sent, m) \o w
  <2>1. <<m>> \in Seq(Messages)  BY <1>5
  <2>2. (sent \o <<m>>) \o w = sent \o (<<m>> \o w)
    BY <1>2, <1>7, <2>1, ConcatAssociative
  <2> QED  BY <1>2, <1>9, <1>10, <2>2 DEF u
<1>12. Sending(pend', type', value') = w
  <2>1. CASE Tail(pend) = <<>>  BY <1>1, <2>1, SendingNothing DEF w
  <2>2. CASE Tail(pend) # <<>>  BY <1>1, <2>2 DEF w
  <2> QED  BY <2>1, <2>2
<1>13. sent' = Append(sent, m)  BY <1>1 DEF m
<1>14. type' = None <=> pend' = <<>>  BY <1>1, <1>3
<1>15. type' \in LightKinds \cup {None} /\ pend' \in Seq(Lights)  BY <1>1, <1>2, <1>4
<1> QED
  BY <1>1, <1>2, <1>10, <1>11, <1>12, <1>13, <1>14, <1>15 DEF LightInv, RequestServed

LEMMA ModelsLoopInv == LightInv /\ ModelsLoop => LightInv'
<1> SUFFICES ASSUME LightInv, ModelsLoop PROVE LightInv'
  OBVIOUS
<1>1. CASE Handled  BY <1>1, HandledInv
<1>2. CASE UNCHANGED <<modelSet, hist>>
  BY <1>2 DEF modelSet, hist, LightInv, RequestServed
<1> QED  BY <1>1, <1>2 DEF ModelsLoop

\* The loop over the tree collects a sequence of lights.
LEMMA AddrsType ==
  ASSUME NEW func
  PROVE  GetLightsAddrs(func) \in Seq(Lights)
<1> DEFINE N == Len(Tree)
           Step(f, n) ==
             IF IsBitSet(Func[Tree[n]], func) THEN Append(f[n - 1], Tree[n]) ELSE f[n - 1]
           Rec(f) == f = [n \in 0..N |-> IF n = 0 THEN <<>> ELSE Step(f, n)]
           F == CHOOSE f : Rec(f)
           Upto(n) == {g \in [0..n -> Seq(Lights)] :
                         g[0] = <<>> /\ \A i \in 1..n : g[i] = Step(g, i)}
           Good == {n \in 0..N : Upto(n) # {}}
<1>1. N \in Nat /\ \A n \in 1..N : Tree[n] \in Lights
  <2>1. Tree \in Seq(Lights)  BY ConsoleAssumption, Zenon
  <2> QED  BY <2>1
<1>2. GetLightsAddrs(func) = F[N]  BY Zenon DEF GetLightsAddrs
<1>3. N \in Good
  <2>1. 0 \in Good
    <3>1. [i \in 0..0 |-> <<>>] \in Upto(0)  OBVIOUS
    <3> QED  BY <1>1, <3>1
  <2>2. ASSUME NEW n \in 0..(N - 1), n \in Good PROVE n + 1 \in Good
    <3>1. PICK g \in [0..n -> Seq(Lights)] : g[0] = <<>> /\ \A i \in 1..n : g[i] = Step(g, i)
      BY <2>2
    <3>2. Step(g, n + 1) \in Seq(Lights)  BY <1>1, <3>1
    <3> DEFINE h == [i \in 0..(n + 1) |-> IF i = n + 1 THEN Step(g, n + 1) ELSE g[i]]
    <3>3. h \in [0..(n + 1) -> Seq(Lights)] /\ h[0] = <<>>  BY <3>1, <3>2
    <3>4. ASSUME NEW i \in 1..(n + 1) PROVE h[i] = Step(h, i)
      <4>1. CASE i = n + 1  BY <4>1
      <4>2. CASE i # n + 1
        <5>1. i \in 1..n /\ i \in 0..(n + 1) /\ i - 1 \in 0..(n + 1) /\ i - 1 # n + 1
          BY <4>2
        <5>2. g[i] = Step(g, i)  BY <3>1, <5>1
        <5>3. h[i] = g[i] /\ h[i - 1] = g[i - 1]  BY <4>2, <5>1
        <5> QED  BY <5>2, <5>3
      <4> QED  BY <4>1, <4>2
    <3>5. h \in Upto(n + 1)  BY <3>3, <3>4
    <3> HIDE DEF h, Upto
    <3>6. n + 1 \in 0..N  BY <1>1
    <3> QED  BY <3>5, <3>6
  <2> HIDE DEF Good
  <2>3. 0..N \subseteq Good  BY <1>1, <2>1, <2>2, Induction
  <2> QED  BY <1>1, <2>3
<1>4. PICK g \in [0..N -> Seq(Lights)] : g[0] = <<>> /\ \A i \in 1..N : g[i] = Step(g, i)
  BY <1>3
<1>5. Rec(g)
  <2> HIDE DEF Step, N
  <2>1. g = [n \in 0..N |-> g[n]]  BY <1>4
  <2>2. \A n \in 0..N : g[n] = IF n = 0 THEN <<>> ELSE Step(g, n)  BY <1>1, <1>4
  <2> QED  BY <2>1, <2>2
<1>6. Rec(F)  BY <1>5
<1> HIDE DEF F
<1>7. F[0] = <<>> /\ \A n \in 1..N : F[n] = Step(F, n)
  <2> HIDE DEF Step, N
  <2>1. \A n \in 0..N : F[n] = IF n = 0 THEN <<>> ELSE Step(F, n)  BY <1>6
  <2> QED  BY <1>1, <2>1
<1> DEFINE S == {n \in 0..N : F[n] \in Seq(Lights)}
<1>8. 0 \in S
  <2> HIDE DEF Step, N
  <2>1. F[0] = <<>> /\ <<>> \in Seq(Lights)  BY <1>7
  <2>2. 0 \in 0..N  BY <1>1
  <2>3. F[0] \in Seq(Lights)  BY <2>1
  <2> QED  BY <2>2, <2>3
<1>9. ASSUME NEW n \in 0..(N - 1), n \in S PROVE n + 1 \in S
  <2>1. n + 1 \in 1..N /\ F[n] \in Seq(Lights) /\ (n + 1) - 1 = n  BY <1>1, <1>9
  <2>2. F[n + 1] = IF IsBitSet(Func[Tree[n + 1]], func) THEN Append(F[n], Tree[n + 1]) ELSE F[n]
    BY <1>7, <2>1
  <2>3. Append(F[n], Tree[n + 1]) \in Seq(Lights)  BY <1>1, <2>1
  <2>4. F[n + 1] \in Seq(Lights)  BY <2>1, <2>2, <2>3
  <2> QED  BY <2>1, <2>4
<1> HIDE DEF S
<1>10. 0..N \subseteq S  BY <1>1, <1>8, <1>9, Induction
<1>11. F[N] \in Seq(Lights)  BY <1>1, <1>10 DEF S
<1> QED  BY <1>2, <1>11

LEMMA TargetsSeq == ASSUME NEW c \in Cmds, Kind[c] \in LightKinds PROVE Targets(c) \in Seq(Lights)
<1>1. Addrs \in [Cmds -> Seq(Lights)]  BY ConsoleAssumption, Zenon
<1>2. Addrs[c] \in Seq(Lights)  BY <1>1
<1> QED  BY <1>2, AddrsType, Zenon DEF Targets

-----------------------------------------------------------------------------
(* The rounds of the manager *)

LEMMA QueueKept == QueueInv /\ UNCHANGED cmdq => QueueInv'
  BY DEF cmdq, QueueInv, IsList

LEMMA LightsKept == LightInv /\ UNCHANGED <<modelSet, hist>> => LightInv'
  BY DEF modelSet, hist, LightInv, RequestServed

LEMMA PollCmdInv == IInv /\ PollCmd => IInv'
<1> SUFFICES ASSUME IInv, PollCmd PROVE IInv'
  OBVIOUS
<1>1. pc = "poll" /\ UNCHANGED <<demo, pos, k, modelSet, hist>>  BY DEF PollCmd, demoVars
<1>2. LightInv'  BY <1>1, LightsKept DEF IInv
<1>3. None \notin Cmds  BY ConsoleAssumption, Zenon
<1>4. CASE Deq /\ pc' = "run"
  <2>1. QueueInv' /\ cur' \in Cmds  BY <1>4, DeqInv DEF IInv
  <2>2. RunInv'  BY <1>1, <1>3, <1>4, <2>1 DEF IInv, RunInv
  <2> QED  BY <1>2, <2>1, <2>2 DEF IInv
<1>5. CASE pc' = "models" /\ UNCHANGED <<cmdq, cur>>
  <2>1. QueueInv'  BY <1>5, QueueKept DEF IInv
  <2>2. RunInv'  BY <1>1, <1>5 DEF IInv, RunInv
  <2> QED  BY <1>2, <2>1, <2>2 DEF IInv
<1> QED  BY <1>4, <1>5 DEF PollCmd

\* A command: what becomes of the lights, and of the demonstration.
LEMMA RunStepInv == IInv /\ Run => IInv'
<1> SUFFICES ASSUME IInv, Run PROVE IInv'
  OBVIOUS
<1>1. pc = "run" /\ pc' = "models" /\ cur' = None /\ UNCHANGED cmdq  BY DEF Run
<1>2. cur \in Cmds  BY <1>1 DEF IInv, RunInv
<1>3. QueueInv'  BY <1>1, QueueKept DEF IInv
<1>4. ASSUME LightInv', demo' \in BOOLEAN, pos' \in 0..Len(DemoAddrs), k' = k PROVE IInv'
  <2>1. RunInv'  BY <1>1, <1>4 DEF IInv, RunInv
  <2> QED  BY <1>3, <1>4, <2>1 DEF IInv
<1>5. /\ demo \in BOOLEAN /\ pos \in 0..Len(DemoAddrs) /\ 0 \in 0..Len(DemoAddrs)
  <2>1. demo \in BOOLEAN /\ pos \in 0..Len(DemoAddrs) /\ k \in 0..(Len(DemoAddrs) + 1)
    BY DEF IInv, RunInv
  <2>2. Len(DemoAddrs) \in Nat  BY DemoLen, Zenon
  <2>3. 0 \in 0..Len(DemoAddrs)  BY <2>1, <2>2, Rounds, Zenon
  <2> QED  BY <2>1, <2>3, Zenon
<1>6. cur \in Values  BY <1>2 DEF Values
<1>7. CASE Light
  <2>1. LightInv'
    BY <1>2, <1>6, <1>7, TargetsSeq, LightSetInv DEF Light, IInv
  <2> QED  BY <1>4, <1>5, <1>7, <2>1 DEF Light, demoVars
<1>8. CASE Invalid
  <2>1. LightInv'
    <3>1. CASE type = None
      <4>1. /\ value' = cur /\ UNCHANGED <<type, pend, asked, sent>>
        BY <1>8, <3>1 DEF Invalid, hist
      <4>2. pend = <<>> /\ pend' = <<>>  BY <3>1, <4>1 DEF IInv, LightInv, RequestServed
      <4>3. Sending(pend', type', value') = Sending(pend, type, value)
        BY <4>2, SendingNothing
      <4> QED  BY <1>6, <4>1, <4>3 DEF IInv, LightInv, RequestServed
    <3>2. CASE type # None
      BY <1>8, <3>2, LightsKept DEF Invalid, modelSet, hist, IInv
    <3> QED  BY <3>1, <3>2
  <2> QED  BY <1>4, <1>5, <1>8, <2>1 DEF Invalid, demoVars
<1>9. CASE DemoOn \/ DemoOff \/ Other
  <2>1. LightInv'  BY <1>9, LightsKept DEF DemoOn, DemoOff, Other, IInv
  <2> QED  BY <1>4, <1>5, <1>9, <2>1 DEF DemoOn, DemoOff, Other, demoVars
<1> QED  BY <1>7, <1>8, <1>9 DEF Run

LEMMA ModelsInv == IInv /\ Models => IInv'
<1> SUFFICES ASSUME IInv, Models PROVE IInv'
  OBVIOUS
<1>1. pc = "models" /\ pc' = "demo" /\ ModelsLoop /\ UNCHANGED <<cmdq, cur, demo, pos, k>>
  BY DEF Models, demoVars
<1>2. QueueInv' /\ LightInv'  BY <1>1, QueueKept, ModelsLoopInv DEF IInv
<1>3. RunInv'  BY <1>1 DEF IInv, RunInv
<1> QED  BY <1>2, <1>3 DEF IInv

\* The demonstration asks for one light at a time, if no request is under way.
LEMMA DemoInv == IInv /\ (DemoSkip \/ DemoRoll \/ DemoSet \/ DemoSend \/ DemoEnd) => IInv'
<1> SUFFICES ASSUME IInv, DemoSkip \/ DemoRoll \/ DemoSet \/ DemoSend \/ DemoEnd PROVE IInv'
  OBVIOUS
<1>1. QueueInv' /\ cur' = cur
  BY QueueKept DEF DemoSkip, DemoRoll, DemoSet, DemoSend, DemoEnd, IInv
<1>2. /\ pos \in 0..Len(DemoAddrs) /\ k \in 0..(Len(DemoAddrs) + 1) /\ demo \in BOOLEAN
      /\ cur \in Cmds \cup {None} /\ (cur # None <=> pc = "run")
      /\ (pc = "demo set" => k \in 1..(pos + 1)) /\ (pc = "demo send" => k \in 1..pos)
  BY DEF IInv, RunInv
<1>3. LET n == Len(DemoAddrs) IN
      /\ 0 \in 0..n /\ pos + 1 \in 1..(pos + 1) /\ 1 \in 1..(pos + 1) /\ 1 \in 0..(n + 1)
      /\ pos < n => pos + 1 \in 0..n /\ 1 \in 1..(pos + 1 + 1)
      /\ k \in 1..(pos + 1) /\ k <= pos => k \in 1..n /\ k \in 1..pos
      /\ k \in 1..pos => k + 1 \in 0..(n + 1) /\ k + 1 \in 1..(pos + 1)
  <2>1. Len(DemoAddrs) \in Nat  BY DemoLen, Zenon
  <2> QED  BY <1>2, <2>1, Rounds, Zenon
<1>4. CASE DemoSkip \/ DemoEnd
  <2>1. LightInv'  BY <1>4, LightsKept DEF DemoSkip, DemoEnd, IInv
  <2>2. RunInv'  BY <1>1, <1>2, <1>4 DEF DemoSkip, DemoEnd, RunInv, demoVars
  <2> QED  BY <1>1, <2>1, <2>2 DEF IInv
<1>5. CASE DemoRoll
  <2>1. LightInv'  BY <1>5, LightsKept DEF DemoRoll, IInv
  <2>2. /\ pc = "demo" /\ pc' = "demo set" /\ demo' = demo /\ k' = 1
        /\ pos' = IF pos < Len(DemoAddrs) THEN pos + 1 ELSE pos
    BY <1>5 DEF DemoRoll
  <2>3. pos' \in 0..Len(DemoAddrs) /\ k' \in 0..(Len(DemoAddrs) + 1) /\ k' \in 1..(pos' + 1)
    BY <1>2, <1>3, <2>2, Zenon
  <2>4. RunInv'  BY <1>1, <1>2, <2>2, <2>3 DEF RunInv
  <2> QED  BY <1>1, <2>1, <2>4 DEF IInv
<1>6. CASE DemoSet
  <2>1. /\ pc = "demo set" /\ k <= pos /\ pc' = "demo send" /\ UNCHANGED <<demo, pos, k>>
        /\ LightSet("lightness", "demo", <<DemoAddrs[k]>>)
    BY <1>6 DEF DemoSet, demoVars
  <2>2. k \in 1..Len(DemoAddrs) /\ k \in 1..pos  BY <1>2, <1>3, <2>1, Zenon
  <2>3. DemoAddrs[k] \in Lights  BY <2>2, DemoLen, ElementOfSeq
  <2>4. <<DemoAddrs[k]>> \in Seq(Lights)  BY <2>3
  <2>5. "lightness" \in LightKinds /\ "demo" \in Values  BY DEF LightKinds, Values
  <2>6. LightInv'  BY <2>1, <2>4, <2>5, LightSetInv DEF IInv
  <2>7. RunInv'  BY <1>1, <1>2, <2>1, <2>2 DEF RunInv
  <2> QED  BY <1>1, <2>6, <2>7 DEF IInv
<1>7. CASE DemoSend
  <2>1. /\ pc = "demo send" /\ pc' = "demo set" /\ ModelsLoop /\ k' = k + 1
        /\ UNCHANGED <<demo, pos>>
    BY <1>7 DEF DemoSend
  <2>2. k' \in 0..(Len(DemoAddrs) + 1) /\ k' \in 1..(pos + 1)  BY <1>2, <1>3, <2>1, Zenon
  <2>3. LightInv'  BY <2>1, ModelsLoopInv DEF IInv
  <2>4. RunInv'  BY <1>1, <1>2, <2>1, <2>2 DEF RunInv
  <2> QED  BY <1>1, <2>3, <2>4 DEF IInv
<1> QED  BY <1>4, <1>5, <1>6, <1>7

-----------------------------------------------------------------------------
(* The console *)

LEMMA TypeInv == ASSUME IInv, NEW c \in Cmds, Type(c) PROVE IInv'
<1>1. Enq(c) /\ UNCHANGED <<pc, cur, demo, pos, k, modelSet, hist>>  BY DEF Type, demoVars
<1>2. QueueInv' /\ LightInv'  BY <1>1, EnqInv, LightsKept DEF IInv
<1>3. RunInv'  BY <1>1 DEF IInv, RunInv
<1> QED  BY <1>2, <1>3 DEF IInv

\* The manager starts anew: no request is under way.
LEMMA LightsReset ==
  ASSUME type' = None, value' = None, pend' = <<>>, asked' = <<>>, sent' = <<>>
  PROVE  LightInv'
<1>1. Sending(pend', type', value') = <<>>  BY SendingNothing
<1>2. asked' = sent' \o Sending(pend', type', value')  BY <1>1
<1> QED  BY <1>2 DEF LightInv, RequestServed, Values

LEMMA ResetInv == IInv /\ Reset => IInv'
<1> SUFFICES ASSUME IInv, Reset PROVE IInv'
  OBVIOUS
<1>1. QueueInv'  BY QueueKept DEF Reset, IInv
<1>2. LightInv'  BY LightsReset DEF Reset
<1>3. RunInv'  BY DEF Reset, demoVars, IInv, RunInv
<1> QED  BY <1>1, <1>2, <1>3 DEF IInv

LEMMA QuitInv == IInv /\ Quit => IInv'
<1> SUFFICES ASSUME IInv, Quit PROVE IInv'
  OBVIOUS
<1>1. QueueInv'
  <2>1. Len(<<>>) = 0 /\ 1..Len(<<>>) = {} /\ <<>> \in Seq(Cells)  OBVIOUS
  <2>2. IsList(<<>>)'  BY <2>1 DEF IsList, Quit
  <2>3. next' \in [Cells -> Cells \cup {None}] /\ item' \in [Cells -> Cmds \cup {None}]
    BY DEF Quit
  <2> QED  BY <2>1, <2>2, <2>3 DEF Quit, QueueInv
<1>2. LightInv'  BY LightsReset DEF Quit
<1>3. RunInv'
  <2>1. 0 \in 0..Len(DemoAddrs) /\ 0 \in 0..(Len(DemoAddrs) + 1)  BY DemoLen
  <2> QED  BY <2>1 DEF Quit, RunInv
<1> QED  BY <1>1, <1>2, <1>3 DEF IInv

-----------------------------------------------------------------------------
(* The theorems *)

LEMMA NextInv == IInv /\ [Next]_vars => IInv'
<1> SUFFICES ASSUME IInv, [Next]_vars PROVE IInv'
  OBVIOUS
<1>1. CASE UNCHANGED vars
  <2>1. UNCHANGED <<cmdq, pc, cur, modelSet, demo, pos, k, hist>>
    BY <1>1 DEF vars, cmdq, modelSet, hist
  <2>2. QueueInv' /\ LightInv'  BY <2>1, QueueKept, LightsKept DEF IInv
  <2>3. RunInv'  BY <2>1 DEF IInv, RunInv
  <2> QED  BY <2>2, <2>3 DEF IInv
<1>2. CASE Manager  BY <1>2, PollCmdInv, RunStepInv, ModelsInv, DemoInv DEF Manager
<1>3. CASE Console
  <2>1. ASSUME NEW c \in Cmds, Type(c) PROVE IInv'  BY <2>1, TypeInv
  <2> QED  BY <1>3, <2>1, ResetInv, QuitInv DEF Console
<1> QED  BY <1>2, <1>3, <1>1 DEF Next

\* The invariant of queue, lights and demonstration, for any commands and cells.
THEOREM ConsoleInvariant == Spec => []IInv
<1>1. Init => IInv  BY InitInv
<1>2. IInv /\ [Next]_vars => IInv'  BY NextInv
<1>3. Spec => Init /\ [][Next]_vars  BY PTL DEF Spec
<1> QED  BY <1>1, <1>2, <1>3, PTL

\* Console and manager keep their types; the ends of the queue are cells of it
\* (cmd_enq, cmd_deq), never one that was freed.
THEOREM TypeCorrect == Spec => []TypeOK
<1> QED  BY ConsoleInvariant, InvTypes, PTL

\* models_loop carries out each request that was accepted as it was asked for.
THEOREM LightsObey == Spec => []RequestServed
<1>1. IInv => RequestServed  BY DEF IInv, LightInv
<1> QED  BY <1>1, ConsoleInvariant, PTL

-----------------------------------------------------------------------------
(* The queue as a sequence: Console implements CmdFifo *)

\* A list has no more cells than there are.
LEMMA ListFits ==
  ASSUME NEW s \in Seq(Cells), IsList(s)
  PROVE  Len(s) \in Nat /\ Cardinality(Cells) \in Nat /\ Len(s) <= Cardinality(Cells)
<1>1. IsFiniteSet(Cells)  BY ConsoleAssumption, Zenon
<1>2. Len(s) \in Nat /\ s \in [1..Len(s) -> Cells]  OBVIOUS
<1>3. s \in Injection(1..Len(s), Cells)  BY <1>2 DEF IsList, Injection, IsInjective
<1>4. Cardinality(1..Len(s)) <= Cardinality(Cells)  BY <1>1, <1>3, FS_Injection, Zenon
<1>5. Cardinality(1..Len(s)) = Len(s)
  <2>1. 1 \in Int /\ Len(s) \in Int /\ (1 > Len(s) => Len(s) = 0)
        /\ Len(s) - 1 + 1 = Len(s)
    BY <1>2
  <2>2. Cardinality(1..Len(s)) = IF 1 > Len(s) THEN 0 ELSE Len(s) - 1 + 1
    BY <2>1, FS_Interval
  <2> QED  BY <2>1, <2>2, Zenon
<1>6. Cardinality(Cells) \in Nat  BY <1>1, FS_CardinalityType
<1> QED  BY <1>2, <1>4, <1>5, <1>6, Zenon

\* The walk from head along next meets the cells of the list, and then none.
LEMMA WalkIs ==
  ASSUME NEW s \in Seq(Cells), IsList(s)
  PROVE  Walk = [n \in 0..Cardinality(Cells) |-> IF n < Len(s) THEN s[n + 1] ELSE None]
<1> DEFINE C == Cardinality(Cells)
           L == Len(s)
           Step(w, n) == IF w[n - 1] = None THEN None ELSE next[w[n - 1]]
           Rec(w) == w = [n \in 0..C |-> IF n = 0 THEN head ELSE Step(w, n)]
           W == CHOOSE w : Rec(w)
           g == [n \in 0..C |-> IF n < L THEN s[n + 1] ELSE None]
<1>1. Walk = W  BY DEF Walk
<1>2. L \in Nat /\ C \in Nat /\ L <= C  BY ListFits, Zenon
<1>3. \A i \in 1..L : s[i] \in Cells /\ s[i] # None
  <2>1. \A i \in 1..L : s[i] \in Cells  OBVIOUS
  <2>2. None \notin Cells  BY ConsoleAssumption, Zenon
  <2> QED  BY <2>1, <2>2
<1>4. /\ L = 0 => head = None
      /\ L # 0 => head = s[1]
      /\ \A i \in 1..L : next[s[i]] = IF i = L THEN None ELSE s[i + 1]
  BY DEF IsList
<1> HIDE DEF C, L
<1>5. \A n \in 0..C : g[n] = IF n < L THEN s[n + 1] ELSE None  OBVIOUS
<1> HIDE DEF g
<1>6. \A n \in 0..C : g[n] = IF n = 0 THEN head ELSE Step(g, n)
  <2> SUFFICES ASSUME NEW n \in 0..C PROVE g[n] = IF n = 0 THEN head ELSE Step(g, n)
    OBVIOUS
  <2>1. CASE n = 0  BY <1>2, <1>4, <1>5, <2>1
  <2>2. CASE n # 0 /\ n - 1 < L
    <3>1. n - 1 \in 0..C /\ (n - 1) + 1 = n /\ n \in 1..L  BY <1>2, <2>2
    <3>2. g[n - 1] = s[n] /\ s[n] # None  BY <1>3, <1>5, <2>2, <3>1
    <3>3. next[s[n]] = IF n = L THEN None ELSE s[n + 1]  BY <1>4, <3>1
    <3>4. n < L <=> n # L  BY <1>2, <3>1
    <3> QED  BY <1>5, <2>2, <3>2, <3>3, <3>4
  <2>3. CASE n # 0 /\ ~(n - 1 < L)
    <3>1. n - 1 \in 0..C /\ ~(n < L)  BY <1>2, <2>3
    <3>2. g[n - 1] = None /\ g[n] = None  BY <1>5, <2>3, <3>1
    <3> QED  BY <2>3, <3>2
  <2> QED  BY <2>1, <2>2, <2>3
<1>7. Rec(g)
  <2>1. g = [n \in 0..C |-> g[n]]  BY DEF g
  <2> QED  BY <1>6, <2>1
<1>8. Rec(W)  BY <1>7
<1> HIDE DEF W
<1>9. \A n \in 0..C : W[n] = IF n = 0 THEN head ELSE Step(W, n)
  <2> HIDE DEF Step
  <2> QED  BY <1>8
<1>10. 0..C \subseteq {n \in 0..C : W[n] = g[n]}
  <2> DEFINE S == {n \in 0..C : W[n] = g[n]}
  <2>1. 0 \in S
    <3>1. 0 \in 0..C  BY <1>2
    <3> QED  BY <1>6, <1>9, <3>1
  <2>2. ASSUME NEW n \in 0..(C - 1), n \in S PROVE n + 1 \in S
    <3>1. n + 1 \in 0..C /\ n + 1 # 0 /\ (n + 1) - 1 = n /\ W[n] = g[n]  BY <1>2, <2>2
    <3>2. W[n + 1] = Step(W, n + 1) /\ g[n + 1] = Step(g, n + 1)  BY <1>6, <1>9, <3>1
    <3>3. Step(W, n + 1) = Step(g, n + 1)  BY <3>1
    <3> QED  BY <3>1, <3>2, <3>3
  <2> HIDE DEF S
  <2>3. 0..C \subseteq S  BY <1>2, <2>1, <2>2, Induction
  <2> QED  BY <2>3 DEF S
<1>11. W = [n \in 0..C |-> W[n]] /\ g = [n \in 0..C |-> g[n]]
  <2>1. W = [n \in 0..C |-> W[n]]
    <3>1. W = [n \in 0..C |-> IF n = 0 THEN head ELSE Step(W, n)]  BY <1>8
    <3> HIDE DEF Step
    <3> QED  BY <3>1
  <2>2. g = [n \in 0..C |-> g[n]]  BY DEF g
  <2> QED  BY <2>1, <2>2
<1>12. W = g  BY <1>10, <1>11
<1> QED  BY <1>1, <1>12 DEF g, C, L

\* The commands of the cells in their order: what the sequence of the list says.
Items(s) == [n \in 1..Len(s) |-> item[s[n]]]
QueueIsItems == \A s \in Seq(Cells) : IsList(s) => Queue = Items(s)

LEMMA QueueIs == QueueIsItems
<1> SUFFICES ASSUME NEW s \in Seq(Cells), IsList(s) PROVE Queue = Items(s)
  BY DEF QueueIsItems
<1> DEFINE C == Cardinality(Cells)
           M == {m \in DOMAIN Walk : Walk[m] # None}
<1>1. Len(s) \in Nat /\ C \in Nat /\ Len(s) <= C  BY ListFits, Zenon
<1>2. \A i \in 1..Len(s) : s[i] # None
  <2>1. \A i \in 1..Len(s) : s[i] \in Cells  OBVIOUS
  <2>2. None \notin Cells  BY ConsoleAssumption, Zenon
  <2> QED  BY <2>1, <2>2
<1>3. Walk = [n \in 0..C |-> IF n < Len(s) THEN s[n + 1] ELSE None]  BY WalkIs, Zenon
<1> HIDE DEF C
<1>4. DOMAIN Walk = 0..C /\ \A n \in 0..C : Walk[n] = IF n < Len(s) THEN s[n + 1] ELSE None
  BY <1>3
<1>5. M = 0..(Len(s) - 1)
  <2>1. \A n \in 0..C : Walk[n] # None <=> n < Len(s)
    <3>1. \A n \in 0..C : n < Len(s) => n + 1 \in 1..Len(s)  BY <1>1
    <3> QED  BY <1>2, <1>4, <3>1
  <2>2. M = {n \in 0..C : n < Len(s)}  BY <1>4, <2>1
  <2>3. {n \in 0..C : n < Len(s)} = 0..(Len(s) - 1)  BY <1>1
  <2> QED  BY <2>2, <2>3
<1>6. Cardinality(M) = Len(s)
  <2>1. /\ 0 \in Int /\ Len(s) - 1 \in Int
        /\ 0 > Len(s) - 1 => Len(s) = 0
        /\ ~(0 > Len(s) - 1) => Len(s) - 1 - 0 + 1 = Len(s)
    BY <1>1
  <2>2. Cardinality(0..(Len(s) - 1)) = IF 0 > Len(s) - 1 THEN 0 ELSE Len(s) - 1 - 0 + 1
    BY <2>1, FS_Interval
  <2> QED  BY <1>5, <2>1, <2>2, Zenon
<1>7. Queue = [n \in 1..Len(s) |-> item[Walk[n - 1]]]  BY <1>6 DEF Queue
<1>8. \A n \in 1..Len(s) : Walk[n - 1] = s[n]
  <2> SUFFICES ASSUME NEW n \in 1..Len(s) PROVE Walk[n - 1] = s[n]
    OBVIOUS
  <2>1. n - 1 \in 0..C /\ n - 1 < Len(s) /\ (n - 1) + 1 = n  BY <1>1
  <2> QED  BY <1>4, <2>1
<1> QED  BY <1>7, <1>8 DEF Items

LEMMA QueueIsNext == QueueIsItems'
BY QueueIs, PTL

LEMMA ItemsSeq ==
  ASSUME QueueInv, NEW s \in Seq(Cells), IsList(s)
  PROVE  Items(s) \in Seq(Cmds) /\ Len(Items(s)) = Len(s) /\ Len(s) \in Nat
<1>1. Len(s) \in Nat /\ \A i \in 1..Len(s) : s[i] \in Cells  OBVIOUS
<1>2. \A i \in 1..Len(s) : item[s[i]] \in Cmds  BY <1>1 DEF QueueInv, IsList
<1>3. Items(s) \in [1..Len(s) -> Cmds]  BY <1>2 DEF Items
<1>4. Items(s) \in Seq(Cmds) /\ Len(Items(s)) = Len(s)  BY <1>1, <1>3, FunctionSeq, Zenon
<1> QED  BY <1>1, <1>4

\* cmd_enq appends to the queue.
LEMMA EnqAppends == ASSUME QueueInv, NEW c \in Cmds, Enq(c) PROVE Queue' = Append(Queue, c)
<1>1. PICK s \in Seq(Cells) : IsList(s)  BY DEF QueueInv
<1>2. PICK x \in Cells \ used : item' = [item EXCEPT ![x] = c] /\ IsList(Append(s, x))'
  BY <1>1, EnqList
<1> DEFINE t == Append(s, x)
<1>3. /\ Len(s) \in Nat /\ t \in Seq(Cells) /\ Len(t) = Len(s) + 1 /\ t[Len(s) + 1] = x
      /\ \A i \in 1..Len(s) : t[i] = s[i]
  OBVIOUS
<1>4. IsList(t)'  BY <1>2
<1> HIDE DEF t
<1>5. Queue = Items(s)  BY <1>1, QueueIs DEF QueueIsItems
<1>6. Queue' = [n \in 1..Len(t) |-> item'[t[n]]]
  BY <1>3, <1>4, QueueIsNext DEF QueueIsItems, Items
<1>7. \A i \in 1..Len(s) : s[i] \in Cells /\ s[i] # x  BY <1>1, <1>2 DEF IsList
<1>8. item'[x] = c /\ \A y \in Cells : y # x => item'[y] = item[y]  BY <1>2 DEF QueueInv
<1>9. Items(s) \in Seq(Cmds) /\ Len(Items(s)) = Len(s)  BY <1>1, ItemsSeq
<1>10. /\ Append(Items(s), c) \in Seq(Cmds) /\ Len(Append(Items(s), c)) = Len(s) + 1
       /\ Append(Items(s), c)[Len(s) + 1] = c
       /\ \A i \in 1..Len(s) : Append(Items(s), c)[i] = Items(s)[i]
  BY <1>3, <1>9, AppendProperties
<1>11. ASSUME NEW n \in 1..(Len(s) + 1) PROVE item'[t[n]] = Append(Items(s), c)[n]
  <2>1. CASE n = Len(s) + 1  BY <1>3, <1>8, <1>10, <2>1
  <2>2. CASE n # Len(s) + 1
    <3>1. n \in 1..Len(s)  BY <1>3, <2>2
    <3>2. Items(s)[n] = item[s[n]]  BY <3>1 DEF Items
    <3> QED  BY <1>3, <1>7, <1>8, <1>10, <3>1, <3>2
  <2> QED  BY <2>1, <2>2
<1>12. \A n \in 1..(Len(s) + 1) : item'[t[n]] \in Cmds
  <2>1. \A n \in 1..(Len(s) + 1) : Append(Items(s), c)[n] \in Cmds
    BY <1>3, <1>10, ElementOfSeq
  <2> QED  BY <1>11, <2>1
<1>13. Queue' \in Seq(Cmds) /\ Len(Queue') = Len(s) + 1
  <2>1. Queue' \in [1..(Len(s) + 1) -> Cmds]  BY <1>3, <1>6, <1>12
  <2>2. Len(s) + 1 \in Nat  BY <1>3
  <2> QED  BY <2>1, <2>2, FunctionSeq, Zenon
<1>14. \A n \in 1..Len(Queue') : Queue'[n] = Append(Items(s), c)[n]
  BY <1>3, <1>6, <1>11, <1>13
<1>15. Queue' = Append(Items(s), c)
  BY <1>10, <1>13, <1>14, SeqEqual
<1> QED  BY <1>5, <1>15

\* cmd_deq takes the first command.
LEMMA DeqTakes == ASSUME QueueInv, Deq PROVE Queue # <<>> /\ cur' = Head(Queue) /\ Queue' = Tail(Queue)
<1>1. PICK s \in Seq(Cells) : IsList(s)  BY DEF QueueInv
<1> DEFINE t == Tail(s)
<1>2. /\ s # <<>> /\ cur' = item[s[1]] /\ IsList(t)'
      /\ \A i \in 1..Len(t) : item'[t[i]] = item[t[i]]
  BY <1>1, DeqList
<1>3. /\ Len(s) \in Nat /\ Len(s) >= 1 /\ t \in Seq(Cells) /\ Len(t) = Len(s) - 1
      /\ \A i \in 1..Len(t) : t[i] = s[i + 1]
  BY <1>2
<1> HIDE DEF t
<1>4. Queue = Items(s)  BY <1>1, QueueIs DEF QueueIsItems
<1>5. Queue' = [n \in 1..Len(t) |-> item'[t[n]]]
  BY <1>2, <1>3, QueueIsNext DEF QueueIsItems, Items
<1>6. Items(s) \in Seq(Cmds) /\ Len(Items(s)) = Len(s)  BY <1>1, ItemsSeq
<1>7. Items(s) # <<>>  BY <1>3, <1>6
<1>8. /\ Head(Items(s)) = Items(s)[1] /\ Tail(Items(s)) \in Seq(Cmds)
      /\ Len(Tail(Items(s))) = Len(s) - 1
      /\ \A i \in 1..Len(Tail(Items(s))) : Tail(Items(s))[i] = Items(s)[i + 1]
  BY <1>3, <1>6, <1>7, HeadTailProperties
<1>9. Items(s)[1] = item[s[1]]
  <2>1. 1 \in 1..Len(s)  BY <1>3
  <2> QED  BY <2>1 DEF Items
<1>10. ASSUME NEW n \in 1..(Len(s) - 1)
       PROVE  item'[t[n]] = Tail(Items(s))[n] /\ item'[t[n]] \in Cmds
  <2>1. n \in 1..Len(t) /\ n + 1 \in 1..Len(s)  BY <1>3
  <2>2. Items(s)[n + 1] = item[s[n + 1]]  BY <2>1 DEF Items
  <2>3. Tail(Items(s))[n] \in Cmds  BY <1>8, ElementOfSeq
  <2> QED  BY <1>2, <1>3, <1>8, <2>1, <2>2, <2>3
<1>11. Queue' \in Seq(Cmds) /\ Len(Queue') = Len(s) - 1
  <2>1. Queue' \in [1..(Len(s) - 1) -> Cmds]  BY <1>3, <1>5, <1>10
  <2>2. Len(s) - 1 \in Nat  BY <1>3
  <2> QED  BY <2>1, <2>2, FunctionSeq, Zenon
<1>12. \A n \in 1..Len(Queue') : Queue'[n] = Tail(Items(s))[n]
  BY <1>3, <1>5, <1>10, <1>11
<1>13. Queue' = Tail(Items(s))
  BY <1>8, <1>11, <1>12, SeqEqual
<1> QED  BY <1>2, <1>4, <1>7, <1>8, <1>9, <1>13

LEMMA QueueSame == UNCHANGED cmdq => Queue' = Queue
<1> SUFFICES ASSUME UNCHANGED cmdq PROVE Queue' = Queue
  OBVIOUS
<1>1. head' = head /\ next' = next /\ item' = item  BY DEF cmdq
<1>2. Walk' = Walk  BY <1>1 DEF Walk
<1> QED  BY <1>1, <1>2 DEF Queue

\* Nothing is in use: the queue is empty.
NothingWaits == QueueInv /\ head = None => Queue = <<>>

LEMMA QueueEmpty == NothingWaits
<1> SUFFICES ASSUME QueueInv, head = None PROVE Queue = <<>>
  BY DEF NothingWaits
<1>1. PICK s \in Seq(Cells) : IsList(s)  BY DEF QueueInv
<1>2. s = <<>>
  <2> SUFFICES ASSUME s # <<>> PROVE FALSE
    OBVIOUS
  <2>1. head = s[1] /\ s[1] \in Cells  BY <1>1 DEF IsList
  <2>2. None \notin Cells  BY ConsoleAssumption, Zenon
  <2> QED  BY <2>1, <2>2
<1>3. Items(<<>>) = <<>>  BY DEF Items
<1> QED  BY <1>1, <1>2, <1>3, QueueIs DEF QueueIsItems

LEMMA QueueEmptyNext == NothingWaits'
BY QueueEmpty, PTL

\* Every step of console and manager is one of the queue, or leaves it as it is.
LEMMA StepIsFifo == IInv /\ [Next]_vars => [Fifo!Next]_(Fifo!vars)
<1> SUFFICES ASSUME IInv, [Next]_vars PROVE [Fifo!Next]_(Fifo!vars)
  OBVIOUS
<1>1. QueueInv /\ cur \in Cmds \cup {None} /\ (cur # None <=> pc = "run")
  BY DEF IInv, RunInv
<1>2. ASSUME UNCHANGED cmdq, cur' = cur PROVE [Fifo!Next]_(Fifo!vars)
  BY <1>2, QueueSame DEF Fifo!vars
<1>3. ASSUME UNCHANGED cmdq, cur' = None PROVE [Fifo!Next]_(Fifo!vars)
  <2>1. Queue' = Queue  BY <1>3, QueueSame
  <2>2. CASE cur = None  BY <1>3, <2>1, <2>2 DEF Fifo!vars
  <2>3. CASE cur # None  BY <1>3, <2>1, <2>3 DEF Fifo!Next, Fifo!Ended
  <2> QED  BY <2>2, <2>3
<1>4. CASE PollCmd
  <2>1. CASE Deq
    <3>1. Queue # <<>> /\ cur' = Head(Queue) /\ Queue' = Tail(Queue)  BY <1>1, <2>1, DeqTakes
    <3>2. cur = None  BY <1>1, <1>4 DEF PollCmd
    <3> QED  BY <3>1, <3>2 DEF Fifo!Next, Fifo!Take
  <2>2. CASE UNCHANGED <<cmdq, cur>>  BY <1>2, <2>2
  <2> QED  BY <1>4, <2>1, <2>2 DEF PollCmd
<1>5. CASE Run  BY <1>3, <1>5 DEF Run
<1>6. CASE Models \/ DemoSkip \/ DemoRoll \/ DemoSet \/ DemoSend \/ DemoEnd
  BY <1>2, <1>6 DEF Models, DemoSkip, DemoRoll, DemoSet, DemoSend, DemoEnd
<1>7. ASSUME NEW c \in Cmds, Type(c) PROVE [Fifo!Next]_(Fifo!vars)
  <2>1. Queue' = Append(Queue, c) /\ cur' = cur  BY <1>1, <1>7, EnqAppends DEF Type
  <2> QED  BY <2>1 DEF Fifo!Next, Fifo!Typed
<1>8. CASE Reset  BY <1>3, <1>8 DEF Reset
<1>9. CASE Quit
  <2>1. QueueInv'  BY <1>9, QuitInv DEF IInv
  <2>2. Queue' = <<>> /\ cur' = None  BY <1>9, <2>1, QueueEmptyNext DEF Quit, NothingWaits
  <2> QED  BY <2>2 DEF Fifo!Next, Fifo!Quit
<1>10. CASE UNCHANGED vars  BY <1>2, <1>10 DEF vars, cmdq
<1> QED  BY <1>4, <1>5, <1>6, <1>7, <1>8, <1>9, <1>10 DEF Next, Manager, Console

\* The linked list of cmd_enq and cmd_deq is the queue of CmdFifo, for any number of
\* cells and whatever resets cut off: no command that waits is lost, overtaken or
\* taken twice.
THEOREM QueueImplementsFifo == Spec => Fifo!Spec
<1>1. Init => Fifo!Init
  <2> SUFFICES ASSUME Init PROVE Fifo!Init
    OBVIOUS
  <2>1. QueueInv  BY InitInv DEF IInv
  <2>2. Queue = <<>>  BY <2>1, QueueEmpty DEF Init, NothingWaits
  <2> QED  BY <2>2 DEF Init, Fifo!Init
<1>2. IInv /\ [Next]_vars => [Fifo!Next]_(Fifo!vars)  BY StepIsFifo
<1>3. Spec => Init /\ [][Next]_vars  BY PTL DEF Spec
<1> QED  BY <1>1, <1>2, <1>3, ConsoleInvariant, PTL DEF Fifo!Spec
=============================================================================
