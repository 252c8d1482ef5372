---------------------------- MODULE AsItemsProofs ---------------------------
(***************************************************************************)
(* Proofs about AsItems for any composition data and configurations: a     *)
(* node that comes to the end has been sent what its configuration asks    *)
(* for.                                                                    *)
(*                                                                         *)
(* The argument compares what the node has acknowledged with the position  *)
(* of the iterators: everything before it, and nothing else.               *)
(***************************************************************************)
EXTENDS AsItems, FiniteSetTheorems, WellFoundedInduction, SequenceTheorems, TLAPS

-----------------------------------------------------------------------------
(* Natural numbers *)

\* A set of numbers has a least one.
LEMMA Least ==
  ASSUME NEW T, T \subseteq Nat, T # {}
  PROVE  \E x \in T : \A y \in T : x <= y
<1>1. IsWellFoundedOn(OpToRel(<, Nat), Nat)  BY NatLessThanWellFounded
<1>2. PICK x \in T : \A y \in T : ~ (<<y, x>> \in OpToRel(<, Nat))  BY <1>1, WFMin
<1>3. \A y \in T : ~ (y < x)  BY <1>2 DEF OpToRel
<1> QED  BY <1>3

LEMMA MinIs ==
  ASSUME NEW T, T \subseteq Nat, T # {}
  PROVE  Min(T) \in T /\ \A y \in T : Min(T) <= y
BY Least DEF Min

\* Induction, with a set in place of a predicate.
LEMMA Induction ==
  ASSUME NEW S, 0 \in S, NEW N \in Nat, \A n \in 0..(N - 1) : n \in S => n + 1 \in S
  PROVE  0..N \subseteq S
<1> SUFFICES ASSUME (0..N) \ S # {} PROVE FALSE
  OBVIOUS
<1>1. PICK x \in (0..N) \ S : \A y \in (0..N) \ S : x <= y
  <2>1. (0..N) \ S \subseteq Nat  OBVIOUS
  <2> QED  BY <2>1, Least
<1>2. x # 0 /\ x - 1 \in 0..(N - 1)  BY <1>1
<1>3. x - 1 \in S  BY <1>1, <1>2
<1>4. (x - 1) + 1 \in S  BY <1>2, <1>3
<1> QED  BY <1>1, <1>4

-----------------------------------------------------------------------------
(* The models of an element *)

Kinds == SigModels \cup VenModels
Element == [sig : Seq(SigModels), ven : Seq(VenModels)]

\* The loop over the models keeps a sequence of models.
LEMMA ModelsType ==
  ASSUME NEW e \in Element
  PROVE  Models(e) \in Seq(Kinds)
<1> DEFINE N == Len(e.sig)
           Step(f, n) == IF e.sig[n] = "cfg" THEN f[n - 1] ELSE Append(f[n - 1], e.sig[n])
           Rec(f) == f = [n \in 0..N |-> IF n = 0 THEN <<>> ELSE Step(f, n)]
           F == CHOOSE f : Rec(f)
           Upto(n) == {g \in [0..n -> Seq(Kinds)] :
                         g[0] = <<>> /\ \A i \in 1..n : g[i] = Step(g, i)}
           Good == {n \in 0..N : Upto(n) # {}}
<1>1. N \in Nat /\ \A n \in 1..N : e.sig[n] \in Kinds  BY DEF Element, Kinds
<1>2. Models(e) = F[N] \o e.ven  BY DEF Models
<1>3. N \in Good
  <2>1. 0 \in Good
    <3>1. [i \in 0..0 |-> <<>>] \in Upto(0)  OBVIOUS
    <3> QED  BY <1>1, <3>1
  <2>2. ASSUME NEW n \in 0..(N - 1), n \in Good PROVE n + 1 \in Good
    <3>1. PICK g \in [0..n -> Seq(Kinds)] : g[0] = <<>> /\ \A i \in 1..n : g[i] = Step(g, i)
      BY <2>2
    <3>2. Step(g, n + 1) \in Seq(Kinds)  BY <1>1, <3>1
    <3> DEFINE h == [i \in 0..(n + 1) |-> IF i = n + 1 THEN Step(g, n + 1) ELSE g[i]]
    <3>3. h \in [0..(n + 1) -> Seq(Kinds)] /\ h[0] = <<>>  BY <3>1, <3>2
    <3>4. ASSUME NEW i \in 1..(n + 1) PROVE h[i] = Step(h, i)
      <4>1. CASE i = n + 1  BY <4>1
      <4>2. CASE i # n + 1  BY <3>1, <4>2
      <4> QED  BY <4>1, <4>2
    <3>5. h \in Upto(n + 1)  BY <3>3, <3>4
    <3> HIDE DEF h, Upto
    <3>6. n + 1 \in 0..N  BY <1>1
    <3> QED  BY <3>5, <3>6
  <2> HIDE DEF Good
  <2>3. 0..N \subseteq Good  BY <1>1, <2>1, <2>2, Induction
  <2> QED  BY <1>1, <2>3
<1>4. PICK g \in Upto(N) : TRUE  BY <1>3
<1>5. Rec(g)
  <2>1. g = [n \in 0..N |-> g[n]]  BY <1>4
  <2>2. \A n \in 0..N : g[n] = IF n = 0 THEN <<>> ELSE Step(g, n)  BY <1>1, <1>4
  <2> QED  BY <2>1, <2>2
<1>6. Rec(F)  BY <1>5
<1> HIDE DEF F
<1>7. F[0] = <<>> /\ \A n \in 1..N : F[n] = Step(F, n)
  <2> HIDE DEF Step, N
  <2>1. \A n \in 0..N : F[n] = IF n = 0 THEN <<>> ELSE Step(F, n)  BY <1>6
  <2> QED  BY <1>1, <2>1
<1>8. N \in {n \in 0..N : F[n] \in Seq(Kinds)}
  <2> DEFINE S == {n \in 0..N : F[n] \in Seq(Kinds)}
  <2>1. 0 \in S  BY <1>1, <1>7
  <2>2. ASSUME NEW n \in 0..(N - 1), n \in S PROVE n + 1 \in S
    <3>1. n + 1 \in 1..N /\ F[n] \in Seq(Kinds) /\ (n + 1) - 1 = n  BY <1>1, <2>2
    <3>2. F[n + 1] = IF e.sig[n + 1] = "cfg" THEN F[n] ELSE Append(F[n], e.sig[n + 1])
      BY <1>7, <3>1
    <3>3. e.sig[n + 1] \in Kinds  BY <1>1, <3>1
    <3>4. Append(F[n], e.sig[n + 1]) \in Seq(Kinds)  BY <3>1, <3>3
    <3>5. F[n + 1] \in Seq(Kinds)  BY <3>1, <3>2, <3>4
    <3> QED  BY <3>1, <3>5
  <2> HIDE DEF S
  <2>3. 0..N \subseteq S  BY <1>1, <2>1, <2>2, Induction
  <2> QED  BY <1>1, <2>3 DEF S
<1>9. e.ven \in Seq(Kinds)  BY DEF Element, Kinds
<1>10. F[N] \in Seq(Kinds)  BY <1>8
<1> HIDE DEF N
<1> QED  BY <1>2, <1>9, <1>10, ConcatProperties
\* The elements that were found, and their models.
LEMMA ElementsType ==
  ASSUME NEW r \in Compositions, NEW e \in 1..Len(r)
  PROVE  Models(r[e]) \in Seq(Kinds)
<1>1. r \in Seq(Element)  BY ItemsAssumption DEF Element
<1>2. r[e] \in Element  BY <1>1
<1> QED  BY <1>2, ModelsType

-----------------------------------------------------------------------------
(* The inductive invariant *)

\* Places of models, as the iterators have them.
Places == UNION {{e} \X (0..ModelsOf(e) - 1) : e \in 0..Len(elems) - 1}
KindAt(p) == ModelAt(p[1], p[2])

\* The places before i.
Before(i) == {p \in Places : p[1] < i[0] \/ (p[1] = i[0] /\ p[2] < i[1])}

\* The keys that exist among the first j, and the first j addresses.
Keys(j) == {x \in cfg.known : \E q \in 0..(j - 1) : Binding(q) = x}
First(j) == {cfg.subs[i] : i \in 1..j}

Subs(p) == {s[2] : s \in {q \in node.subs : q[1] = p}}
PubsOf(P) == IF cfg.aki \in UsedKeys THEN {p \in P : Publishes(p, KindAt(p))} ELSE {}

\* A place has the subscriptions it is to have.
Subscribed(p) ==
  \E j \in 0..Len(cfg.subs) :
    /\ SubSupported(KindAt(p)) /\ p \notin node.full => j = Len(cfg.subs)
    /\ Subs(p) = First(j)

DataInv ==
  /\ raw \in Compositions /\ cfg \in Configs
  /\ elems \in Seq(Seq(Kinds)) /\ (phase = "getdcd" => elems = <<>>)
  /\ phase # "getdcd" =>
       /\ Len(elems) \in 1..Len(raw)
       /\ \A e \in 1..Len(elems) : elems[e] = Models(raw[e])

\* What the request that is out is about exists.
CurrentInv ==
  /\ wait => phase \in DOMAIN Succ /\ abort = "no"
  /\ wait /\ phase = "addappkey" => Known(Binding(it[0]))
  /\ wait /\ phase = "bindappkey" => Known(Binding(it[2]))
  /\ wait /\ phase = "setpub" => cfg.aki \in UsedKeys
  /\ wait /\ phase = "setconfig" => Differ # {}
  /\ ~wait /\ abort = "no" /\ phase # "failed" => it = Zero
  /\ abort # "no" => phase # "end"

KeysInv ==
  /\ phase = "getdcd" \/ (phase = "addappkey" /\ ~wait) => node.keys = {}
  /\ phase = "addappkey" /\ wait => node.keys = Keys(it[0])
  /\ phase \in {"bindappkey", "setpub", "addsub", "setconfig", "end"} => node.keys = UsedKeys

BoundInv ==
  /\ phase \in {"getdcd", "addappkey"} \/ (phase = "bindappkey" /\ ~wait) => node.bound = {}
  /\ phase = "bindappkey" /\ wait =>
       node.bound = (Before(it) \X UsedKeys) \cup ({At} \X Keys(it[2]))
  /\ phase \in {"setpub", "addsub", "setconfig", "end"} => node.bound = Places \X UsedKeys

PubsInv ==
  /\ phase \in {"getdcd", "addappkey", "bindappkey"} \/ (phase = "setpub" /\ ~wait) => node.pubs = {}
  /\ phase = "setpub" /\ wait => /\ node.pubs = PubsOf(Before(it))
                                 /\ PubSupported(ModelAt(it[0], it[1])) \/ it[1] = 0
  /\ phase \in {"addsub", "setconfig", "end"} => node.pubs = PubsOf(Places)

SubsInv ==
  /\ phase \in {"getdcd", "addappkey", "bindappkey", "setpub"} \/ (phase = "addsub" /\ ~wait) =>
       node.subs = {} /\ node.full = {}
  /\ phase = "addsub" /\ wait =>
       /\ \A p \in Before(it) : Subscribed(p)
       /\ Subs(At) = First(it[2])
       /\ node.full \subseteq Before(it)
       /\ \A s \in node.subs : s[1] \in Before(it) \cup {At}
  /\ phase \in {"setconfig", "end"} => \A p \in Places : Subscribed(p)

FeatsInv ==
  /\ node.feats \subseteq Nat /\ IsFiniteSet(node.feats)
  /\ phase = "end" => node.feats = cfg.target

\* While the process runs.
ToldInv == KeysInv /\ BoundInv /\ PubsInv /\ SubsInv

NodeType == node \in [keys : SUBSET Nat, bound : SUBSET ((Nat \X Nat) \X Nat),
                      pubs : SUBSET (Nat \X Nat), subs : SUBSET ((Nat \X Nat) \X Nat),
                      full : SUBSET (Nat \X Nat), feats : SUBSET Nat]

IInv == TypeOK /\ DataInv /\ CurrentInv /\ NodeType /\ FeatsInv /\ (abort = "no" => ToldInv)
-----------------------------------------------------------------------------
(* Places and keys *)

LEMMA CfgType ==
  ASSUME DataInv
  PROVE  /\ cfg.bindings \in Seq(Nat) /\ cfg.subs \in Seq(Nat) /\ cfg.known \subseteq Nat
         /\ Len(cfg.bindings) \in Nat /\ Len(cfg.subs) \in Nat
         /\ \A k \in 0..(Len(cfg.bindings) - 1) : Binding(k) \in Nat
         /\ IsFiniteSet(cfg.target) /\ cfg.target \subseteq Nat
<1>1. cfg.bindings \in Seq(Nat) /\ cfg.subs \in Seq(Nat) /\ cfg.known \subseteq Nat
      /\ IsFiniteSet(cfg.target) /\ cfg.target \subseteq Nat
  BY ItemsAssumption DEF DataInv
<1>2. \A k \in 0..(Len(cfg.bindings) - 1) : k + 1 \in 1..Len(cfg.bindings)  BY <1>1
<1> QED  BY <1>1, <1>2 DEF Binding

LEMMA ElemsType ==
  ASSUME DataInv
  PROVE  /\ Len(elems) \in Nat
         /\ \A e \in 0..(Len(elems) - 1) : ModelsOf(e) \in Nat
<1>1. elems \in Seq(Seq(Kinds))  BY DEF DataInv
<1>2. \A e \in 0..(Len(elems) - 1) : e + 1 \in 1..Len(elems)  BY <1>1
<1> QED  BY <1>1, <1>2 DEF ModelsOf

LEMMA PlaceIs ==
  ASSUME DataInv
  PROVE  /\ \A p \in Places : /\ p = <<p[1], p[2]>> /\ p[1] \in Nat /\ p[2] \in Nat
                              /\ p[1] < Len(elems) /\ p[2] < ModelsOf(p[1])
         /\ \A e, m \in Nat : <<e, m>> \in Places <=> e < Len(elems) /\ m < ModelsOf(e)
<1>1. \A p : p \in Places <=> \E e \in 0..(Len(elems) - 1) : p \in {e} \X (0..(ModelsOf(e) - 1))
  BY DEF Places
<1>2. ASSUME NEW p \in Places
      PROVE  /\ p = <<p[1], p[2]>> /\ p[1] \in Nat /\ p[2] \in Nat
             /\ p[1] < Len(elems) /\ p[2] < ModelsOf(p[1])
  <2>1. PICK e \in 0..(Len(elems) - 1) : p \in {e} \X (0..(ModelsOf(e) - 1))  BY <1>1, <1>2
  <2>2. ModelsOf(e) \in Nat /\ Len(elems) \in Nat  BY <2>1, ElemsType
  <2>3. p[1] = e /\ p[2] \in 0..(ModelsOf(e) - 1) /\ p = <<p[1], p[2]>>  BY <2>1
  <2> QED  BY <2>2, <2>3
<1>3. ASSUME NEW e \in Nat, NEW m \in Nat
      PROVE  <<e, m>> \in Places <=> e < Len(elems) /\ m < ModelsOf(e)
  <2>1. ASSUME e < Len(elems), m < ModelsOf(e) PROVE <<e, m>> \in Places
    <3>1. Len(elems) \in Nat  BY ElemsType
    <3>2. e \in 0..(Len(elems) - 1)  BY <2>1, <3>1
    <3>3. ModelsOf(e) \in Nat  BY <3>2, ElemsType
    <3>4. m \in 0..(ModelsOf(e) - 1)  BY <2>1, <3>3
    <3> QED  BY <1>1, <3>2, <3>4
  <2>2. ASSUME <<e, m>> \in Places PROVE e < Len(elems) /\ m < ModelsOf(e)
    <3> DEFINE p == <<e, m>>
    <3>1. p[1] < Len(elems) /\ p[2] < ModelsOf(p[1])  BY <1>2, <2>2
    <3> QED  BY <3>1
  <2> QED  BY <2>1, <2>2
<1> QED  BY <1>2, <1>3

LEMMA KeysEnds == DataInv => Keys(0) = {} /\ Keys(Len(cfg.bindings)) = UsedKeys
<1> SUFFICES ASSUME DataInv PROVE Keys(0) = {} /\ Keys(Len(cfg.bindings)) = UsedKeys
  OBVIOUS
<1>1. Len(cfg.bindings) \in Nat  BY CfgType
<1>2. Keys(0) = {}  BY DEF Keys
<1>3. ASSUME NEW x
      PROVE  (\E q \in 0..(Len(cfg.bindings) - 1) : Binding(q) = x)
               <=> (\E b \in 1..Len(cfg.bindings) : cfg.bindings[b] = x)
  <2>1. ASSUME NEW q \in 0..(Len(cfg.bindings) - 1), Binding(q) = x
        PROVE  \E b \in 1..Len(cfg.bindings) : cfg.bindings[b] = x
    BY <1>1, <2>1 DEF Binding
  <2>2. ASSUME NEW b \in 1..Len(cfg.bindings), cfg.bindings[b] = x
        PROVE  \E q \in 0..(Len(cfg.bindings) - 1) : Binding(q) = x
    <3>1. b - 1 \in 0..(Len(cfg.bindings) - 1) /\ (b - 1) + 1 = b  BY <1>1
    <3> QED  BY <2>2, <3>1 DEF Binding
  <2> QED  BY <2>1, <2>2
<1>4. Keys(Len(cfg.bindings)) = UsedKeys  BY <1>3 DEF Keys, UsedKeys
<1> QED  BY <1>2, <1>4

\* The search for the next key passes over keys that do not exist, and no others.
LEMMA NextKeyIs ==
  ASSUME DataInv, NEW k \in 0..(Len(cfg.bindings) - 1), Known(Binding(k))
  PROVE  /\ NextKey(k) # {} =>
              /\ Min(NextKey(k)) \in (k + 1)..(Len(cfg.bindings) - 1)
              /\ Known(Binding(Min(NextKey(k))))
              /\ Keys(Min(NextKey(k))) = Keys(k) \cup {Binding(k)}
         /\ NextKey(k) = {} => UsedKeys = Keys(k) \cup {Binding(k)}
<1> DEFINE B == Len(cfg.bindings)
<1>1. B \in Nat /\ cfg.known \subseteq Nat  BY CfgType
<1>2. ASSUME NEW j \in (k + 1)..B, \A q \in (k + 1)..(j - 1) : ~Known(Binding(q))
      PROVE  Keys(j) = Keys(k) \cup {Binding(k)}
  <2>1. \A x \in Keys(j) : x \in Keys(k) \cup {Binding(k)}
    <3> SUFFICES ASSUME NEW x \in Keys(j) PROVE x \in Keys(k) \cup {Binding(k)}
      OBVIOUS
    <3>1. PICK q \in 0..(j - 1) : Binding(q) = x  BY DEF Keys
    <3>2. x \in cfg.known  BY DEF Keys
    <3>3. q \notin (k + 1)..(j - 1)  BY <1>2, <3>1, <3>2 DEF Known
    <3>4. q = k \/ q \in 0..(k - 1)  BY <1>1, <3>3
    <3> QED  BY <3>1, <3>2, <3>4 DEF Keys
  <2>2. k \in 0..(j - 1) /\ 0..(k - 1) \subseteq 0..(j - 1)  BY <1>1
  <2>3. Keys(k) \cup {Binding(k)} \subseteq Keys(j)  BY <2>2 DEF Keys, Known
  <2> QED  BY <2>1, <2>3
<1>3. CASE NextKey(k) # {}
  <2> DEFINE j == Min(NextKey(k))
  <2>1. NextKey(k) \subseteq Nat  BY <1>1 DEF NextKey
  <2>2. j \in NextKey(k)  BY <1>3, <2>1, MinIs
  <2> HIDE DEF j
  <2>3. /\ j \in (k + 1)..(B - 1) /\ Known(Binding(j))
        /\ \A q \in (k + 1)..(j - 1) : ~Known(Binding(q))
    BY <2>2 DEF NextKey
  <2>4. Keys(j) = Keys(k) \cup {Binding(k)}  BY <1>1, <1>2, <2>3
  <2> QED  BY <1>3, <2>3, <2>4 DEF j
<1>4. CASE NextKey(k) = {}
  <2>1. \A q \in (k + 1)..(B - 1) : ~Known(Binding(q))
    <3> DEFINE T == {q \in (k + 1)..(B - 1) : Known(Binding(q))}
    <3> SUFFICES ASSUME T # {} PROVE FALSE
      OBVIOUS
    <3>1. T \subseteq Nat  BY <1>1
    <3>2. PICK x \in T : \A y \in T : x <= y
      <4> HIDE DEF T
      <4> QED  BY <3>1, Least
    <3>3. \A q \in (k + 1)..(x - 1) : ~Known(Binding(q))  BY <1>1, <3>2
    <3>4. x \in NextKey(k)  BY <3>3 DEF NextKey
    <3> QED  BY <1>4, <3>4
  <2>2. Keys(B) = Keys(k) \cup {Binding(k)}  BY <1>1, <1>2, <2>1
  <2> QED  BY <1>4, <2>2, KeysEnds
<1> QED  BY <1>3, <1>4
-----------------------------------------------------------------------------
(* The iterators over models *)

\* A step of an iterator over models: P are the places before the new one, all of
\* them at the end.  Those that were passed over are left out, and none is the first
\* of its element.
Steps(P, out) ==
  /\ Before(it) \cup {At} \subseteq P /\ P \subseteq Places
  /\ \A p \in P : p \in Before(it) \/ p = At \/ (KindAt(p) \in out /\ p[2] # 0)

\* The iterators are at a model.
AtPlace == it \in [0..2 -> Nat] /\ it[0] < Len(elems) /\ it[1] < ModelsOf(it[0])

LEMMA AtIs ==
  ASSUME DataInv, AtPlace
  PROVE  /\ At \in Places /\ At \notin Before(it) /\ Before(it) \subseteq Places
         /\ it[0] \in Nat /\ it[1] \in Nat /\ it[2] \in Nat
         /\ At = <<it[0], it[1]>> /\ Len(elems) \in Nat /\ ModelsOf(it[0]) \in Nat
<1>1. it[0] \in Nat /\ it[1] \in Nat /\ it[2] \in Nat  BY DEF AtPlace
<1>2. Len(elems) \in Nat  BY ElemsType
<1>3. it[0] \in 0..(Len(elems) - 1)  BY <1>1, <1>2 DEF AtPlace
<1>4. ModelsOf(it[0]) \in Nat  BY <1>3, ElemsType
<1>5. At \in Places  BY <1>1, PlaceIs DEF At, AtPlace
<1>6. At \notin Before(it)  BY <1>1 DEF At, Before
<1> QED  BY <1>1, <1>2, <1>4, <1>5, <1>6 DEF Before, At

\* The first model of the next element, or the end, if what is left of this element
\* is left out.
LEMMA NextElementIs ==
  ASSUME DataInv, AtPlace, NEW out,
         \A m \in Nat : it[1] < m /\ m < ModelsOf(it[0]) => ModelAt(it[0], m) \in out
  PROVE  LET n == NextElement IN
         /\ n.done => Steps(Places, out)
         /\ ~n.done => /\ n.next \in [0..2 -> Nat] /\ n.next[0] < Len(elems)
                       /\ n.next[1] = 0 /\ n.next[2] = 0
                       /\ Steps(Before(n.next), out)
<1> DEFINE i == [j \in 0..2 |-> IF j = 0 THEN it[0] + 1 ELSE 0]
<1>1. /\ At \in Places /\ Before(it) \subseteq Places
      /\ it[0] \in Nat /\ it[1] \in Nat /\ Len(elems) \in Nat /\ ModelsOf(it[0]) \in Nat
      /\ At = <<it[0], it[1]>>
  BY AtIs
<1>2. ASSUME NEW p \in Places, p[1] < it[0] + 1
      PROVE  p \in Before(it) \/ p = At \/ (KindAt(p) \in out /\ p[2] # 0)
  <2>1. p = <<p[1], p[2]>> /\ p[1] \in Nat /\ p[2] \in Nat /\ p[2] < ModelsOf(p[1])  BY PlaceIs
  <2>2. CASE p[1] < it[0]  BY <2>2 DEF Before
  <2>3. CASE p[1] = it[0]
    <3>1. CASE p[2] < it[1]  BY <2>3, <3>1 DEF Before
    <3>2. CASE p[2] = it[1]  BY <1>1, <2>1, <2>3, <3>2
    <3>3. CASE it[1] < p[2]  BY <1>1, <2>1, <2>3, <3>3 DEF KindAt
    <3> QED  BY <1>1, <2>1, <3>1, <3>2, <3>3
  <2> QED  BY <1>1, <1>2, <2>1, <2>2, <2>3
<1>3. ASSUME NEW p \in Before(it) \cup {At} PROVE p[1] < it[0] + 1
  <2>1. CASE p = At  BY <1>1, <2>1
  <2>2. CASE p \in Before(it)
    <3>1. p \in Places  BY <2>2 DEF Before
    <3>2. p[1] \in Nat  BY <3>1, PlaceIs
    <3> QED  BY <1>1, <2>2, <3>2 DEF Before
  <2> QED  BY <2>1, <2>2
<1>4. CASE it[0] + 1 = Len(elems)
  <2>1. NextElement = Done  BY <1>4 DEF NextElement
  <2>2. NextElement.done = TRUE  BY <2>1 DEF Done
  <2>3. \A p \in Places : p[1] < it[0] + 1  BY <1>4, PlaceIs
  <2>4. Steps(Places, out)  BY <1>1, <1>2, <2>3 DEF Steps
  <2> QED  BY <2>2, <2>4
<1>5. CASE it[0] + 1 # Len(elems)
  <2>1. NextElement = [next |-> i, done |-> FALSE]  BY <1>5 DEF NextElement, Goto
  <2>2. i \in [0..2 -> Nat] /\ i[0] = it[0] + 1 /\ i[1] = 0 /\ i[2] = 0  BY <1>1
  <2> HIDE DEF i
  <2>3. i[0] < Len(elems)  BY <1>1, <1>5, <2>2 DEF AtPlace
  <2>4. \A p \in Places : p \in Before(i) <=> p[1] < it[0] + 1
    <3>1. \A p \in Places : p[2] \in Nat  BY PlaceIs
    <3>2. \A p \in Places : ~ (p[2] < 0)  BY <3>1
    <3> QED  BY <2>2, <3>2 DEF Before
  <2>5. Steps(Before(i), out)
    <3>1. Before(i) \subseteq Places  BY DEF Before
    <3>2. Before(it) \cup {At} \subseteq Before(i)  BY <1>1, <1>3, <2>4
    <3> QED  BY <1>2, <2>4, <3>1, <3>2 DEF Steps
  <2>6. NextElement.done = FALSE /\ NextElement.next = i  BY <2>1
  <2> QED  BY <2>2, <2>3, <2>5, <2>6
<1> QED  BY <1>4, <1>5

\* A later model of the same element, if what is between is left out.
LEMMA NextModelIs ==
  ASSUME DataInv, AtPlace, NEW out, NEW m \in Nat, it[1] < m, m < ModelsOf(it[0]),
         \A q \in Nat : it[1] < q /\ q < m => ModelAt(it[0], q) \in out
  PROVE  LET i == [it EXCEPT ![1] = m, ![2] = 0] IN
         /\ i \in [0..2 -> Nat] /\ i[0] = it[0] /\ i[1] = m /\ i[2] = 0
         /\ Steps(Before(i), out)
<1> DEFINE i == [it EXCEPT ![1] = m, ![2] = 0]
<1>1. /\ At \in Places /\ Before(it) \subseteq Places
      /\ it[0] \in Nat /\ it[1] \in Nat /\ At = <<it[0], it[1]>>
  BY AtIs
<1>2. i \in [0..2 -> Nat] /\ i[0] = it[0] /\ i[1] = m /\ i[2] = 0  BY DEF AtPlace
<1> HIDE DEF i
<1>3. ASSUME NEW p \in Before(i)
      PROVE  p \in Before(it) \/ p = At \/ (KindAt(p) \in out /\ p[2] # 0)
  <2>1. p \in Places  BY DEF Before
  <2>2. p = <<p[1], p[2]>> /\ p[1] \in Nat /\ p[2] \in Nat  BY <2>1, PlaceIs
  <2>3. CASE p[1] < it[0]  BY <2>1, <2>3 DEF Before
  <2>4. CASE p[1] = it[0] /\ p[2] < m
    <3>1. CASE p[2] < it[1]  BY <2>1, <2>4, <3>1 DEF Before
    <3>2. CASE p[2] = it[1]  BY <1>1, <2>2, <2>4, <3>2
    <3>3. CASE it[1] < p[2]  BY <1>1, <2>2, <2>4, <3>3 DEF KindAt
    <3> QED  BY <1>1, <2>2, <3>1, <3>2, <3>3
  <2> QED  BY <1>2, <2>3, <2>4 DEF Before
<1>4. Before(it) \subseteq Before(i)
  <2>1. ASSUME NEW p \in Before(it) PROVE p \in Before(i)
    <3>1. p \in Places  BY DEF Before
    <3>2. p[2] \in Nat  BY <3>1, PlaceIs
    <3> QED  BY <1>1, <1>2, <3>1, <3>2 DEF Before
  <2> QED  BY <2>1
<1>5. At \in Before(i)  BY <1>1, <1>2 DEF Before
<1>6. Before(i) \subseteq Places  BY DEF Before
<1> QED  BY <1>2, <1>3, <1>4, <1>5, <1>6 DEF Steps, i

\* iter_setpub and iter_addsub pass over the models that are left out, and no others.
LEMMA SkipIs ==
  ASSUME DataInv, AtPlace, NEW out
  PROVE  LET n == Skip(out) IN
         /\ n.done => Steps(Places, out)
         /\ ~n.done => /\ n.next \in [0..2 -> Nat] /\ n.next[0] < Len(elems) /\ n.next[2] = 0
                       /\ \/ n.next[1] = 0
                          \/ /\ n.next[1] < ModelsOf(n.next[0])
                             /\ ModelAt(n.next[0], n.next[1]) \notin out
                       /\ Steps(Before(n.next), out)
<1>1. it[0] \in Nat /\ it[1] \in Nat /\ ModelsOf(it[0]) \in Nat  BY AtIs
<1> DEFINE T == {m \in (it[1] + 1)..(ModelsOf(it[0]) - 1) : ModelAt(it[0], m) \notin out}
<1>2. CASE NextModel(out) # {}
  <2> DEFINE m == Min(NextModel(out))
             i == [it EXCEPT ![1] = m, ![2] = 0]
  <2>1. NextModel(out) \subseteq Nat  BY <1>1 DEF NextModel
  <2>2. m \in NextModel(out)  BY <1>2, <2>1, MinIs
  <2>3. Skip(out) = [next |-> i, done |-> FALSE]  BY <1>2 DEF Skip, Goto
  <2>4. Skip(out).done = FALSE /\ Skip(out).next = i  BY <2>3
  <2> HIDE DEF m
  <2>5. /\ m \in Nat /\ it[1] < m /\ m < ModelsOf(it[0])
        /\ \A q \in Nat : it[1] < q /\ q < m => ModelAt(it[0], q) \in out
        /\ ModelAt(it[0], m) \notin out
    BY <1>1, <2>2 DEF NextModel
  <2>6. /\ i \in [0..2 -> Nat] /\ i[0] = it[0] /\ i[1] < ModelsOf(it[0]) /\ i[2] = 0
        /\ i[1] = m
        /\ Steps(Before(i), out)
    BY <2>5, NextModelIs
  <2> HIDE DEF i
  <2> QED  BY <2>4, <2>5, <2>6 DEF AtPlace
<1>3. CASE NextModel(out) = {}
  <2>1. T = {}
    <3> SUFFICES ASSUME T # {} PROVE FALSE
      OBVIOUS
    <3>1. T \subseteq Nat  BY <1>1
    <3>2. PICK x \in T : \A y \in T : x <= y
      <4> HIDE DEF T
      <4> QED  BY <3>1, Least
    <3>3. \A q \in (it[1] + 1)..(x - 1) : ModelAt(it[0], q) \in out  BY <1>1, <3>2
    <3>4. x \in NextModel(out)  BY <3>3 DEF NextModel
    <3> QED  BY <1>3, <3>4
  <2>2. \A m \in Nat : it[1] < m /\ m < ModelsOf(it[0]) => ModelAt(it[0], m) \in out
    BY <1>1, <2>1
  <2>3. Skip(out) = NextElement  BY <1>3 DEF Skip
  <2> QED  BY <2>2, <2>3, NextElementIs
<1> QED  BY <1>2, <1>3
-----------------------------------------------------------------------------
(* Requests and phases *)

LEMMA InitInv == Init => IInv
<1> SUFFICES ASSUME Init PROVE IInv
  OBVIOUS
<1>1. it \in [0..2 -> Nat] /\ it = Zero /\ elems \in Seq(Seq(Kinds))  BY DEF Init, Zero
<1>2. cfg.current \subseteq Nat /\ IsFiniteSet(cfg.current)  BY ItemsAssumption DEF Init
<1>3. NodeType /\ FeatsInv  BY <1>2 DEF Init, NodeType, FeatsInv
<1>4. TypeOK  BY <1>1 DEF Init, TypeOK
<1>5. DataInv /\ CurrentInv  BY <1>1 DEF Init, DataInv, CurrentInv
<1>6. ToldInv  BY DEF Init, ToldInv, KeysInv, BoundInv, PubsInv, SubsInv
<1> QED  BY <1>3, <1>4, <1>5, <1>6 DEF IInv

\* A request is in order if it is about something that exists, else the process ends.
LEMMA RequestInv ==
  ASSUME IInv, abort = "no", phase \in DOMAIN Succ, NEW i \in [0..2 -> Nat], Request(i),
         UNCHANGED <<raw, cfg, elems>>,
         phase = "addappkey" => i[0] < Len(cfg.bindings),
         phase \in {"bindappkey", "setpub", "addsub"} => i[0] < Len(elems),
         phase = "bindappkey" => i[2] < Len(cfg.bindings),
         phase = "setpub" => \E k \in 1..Len(cfg.bindings) : cfg.bindings[k] = cfg.aki,
         phase = "addsub" => i[2] < Len(cfg.subs),
         phase = "setconfig" => Differ' # {}
  PROVE  TypeOK' /\ DataInv' /\ CurrentInv' /\ UsedKeys' = UsedKeys
<1> DEFINE ok == Problem(i) = "no"
<1>1. /\ it' = i /\ wait' = ok /\ abort' = Problem(i) /\ phase' = phase
      /\ raw' = raw /\ cfg' = cfg /\ elems' = elems
  BY DEF Request
<1>2. phase \in {"addappkey", "bindappkey", "setpub", "addsub", "setconfig"}  BY DEF Succ
<1>3. Problem(i) \in {"no", "unknown key", "no such model"}  BY <1>2 DEF Problem
<1>4. /\ ok /\ phase = "addappkey" => Known(Binding(i[0]))
      /\ ok /\ phase = "bindappkey" => Known(Binding(i[2]))
      /\ ok /\ phase = "setpub" => Known(cfg.aki)
      /\ ok /\ phase \in {"bindappkey", "setpub", "addsub"} => ~(i[1] >= ModelsOf(i[0]))
  BY DEF Problem
<1>5. phase \in {"bindappkey", "setpub", "addsub"} => ModelsOf(i[0]) \in Nat
  <2>1. DataInv  BY DEF IInv
  <2>2. Len(elems) \in Nat  BY <2>1, ElemsType
  <2>3. phase \in {"bindappkey", "setpub", "addsub"} => i[0] \in 0..(Len(elems) - 1)  BY <2>2
  <2> QED  BY <2>1, <2>3, ElemsType
<1>6. ok /\ phase \in {"bindappkey", "setpub", "addsub"} => i[1] < ModelsOf(i[0])
  BY <1>4, <1>5
<1> HIDE DEF ok
<1>7. TypeOK'  BY <1>1, <1>2, <1>3, <1>6 DEF TypeOK, ModelsOf, Succ, ok
<1>8. DataInv'  BY <1>1, <1>2 DEF IInv, DataInv
<1>9. UsedKeys' = UsedKeys  BY <1>1 DEF UsedKeys
<1>10. ok /\ phase = "setpub" => cfg.aki \in UsedKeys  BY <1>4 DEF UsedKeys, Known
<1>11. CurrentInv'
  <2>1. wait' => phase' \in DOMAIN Succ /\ abort' = "no"  BY <1>1, <1>2 DEF Succ, ok
  <2>2. wait' /\ phase' = "addappkey" => Known(Binding(it[0]))'  BY <1>1, <1>4 DEF Known, Binding
  <2>3. wait' /\ phase' = "bindappkey" => Known(Binding(it[2]))'  BY <1>1, <1>4 DEF Known, Binding
  <2>4. wait' /\ phase' = "setpub" => (cfg.aki \in UsedKeys)'  BY <1>1, <1>9, <1>10
  <2>5. wait' /\ phase' = "setconfig" => Differ' # {}  BY <1>1
  <2>6. ~wait' => abort' # "no"  BY <1>1 DEF ok
  <2>7. phase' # "end"  BY <1>1, <1>2
  <2> QED  BY <2>1, <2>2, <2>3, <2>4, <2>5, <2>6, <2>7 DEF CurrentInv
<1> QED  BY <1>7, <1>8, <1>9, <1>11

\* What is told apart of the composition and the configuration does not change.
LEMMA SameData ==
  ASSUME UNCHANGED <<raw, cfg, elems>>
  PROVE  /\ Places' = Places /\ UsedKeys' = UsedKeys
         /\ \A j : Keys(j)' = Keys(j) /\ First(j)' = First(j)
         /\ \A p : KindAt(p)' = KindAt(p)
         /\ \A P : PubsOf(P)' = PubsOf(P)
<1>1. Places' = Places  BY DEF Places, ModelsOf
<1>2. UsedKeys' = UsedKeys  BY DEF UsedKeys
<1>3. \A j : Keys(j)' = Keys(j) /\ First(j)' = First(j)  BY DEF Keys, First, Binding
<1>4. \A p : KindAt(p)' = KindAt(p)  BY DEF KindAt, ModelAt
<1>5. \A P : PubsOf(P)' = PubsOf(P)  BY <1>2, <1>4 DEF PubsOf
<1> QED  BY <1>1, <1>2, <1>3, <1>4, <1>5

\* The end of a phase.
LEMMA NextPhaseInv ==
  ASSUME IInv, abort = "no", phase \in DOMAIN Succ, NextPhase, UNCHANGED <<raw, cfg, elems>>
  PROVE  TypeOK' /\ DataInv' /\ CurrentInv'
<1>1. /\ it' = Zero /\ wait' = FALSE /\ phase' = Succ[phase] /\ abort' = "no"
      /\ raw' = raw /\ cfg' = cfg /\ elems' = elems
  BY DEF NextPhase
<1>2. /\ phase \in {"addappkey", "bindappkey", "setpub", "addsub", "setconfig"}
      /\ phase' \in {"bindappkey", "setpub", "addsub", "setconfig", "end"}
  BY <1>1 DEF Succ
<1>3. TypeOK'  BY <1>1, <1>2 DEF TypeOK, Zero, Succ
<1>4. DataInv'  BY <1>1, <1>2 DEF IInv, DataInv
<1>5. CurrentInv'  BY <1>1, <1>2 DEF CurrentInv
<1> QED  BY <1>3, <1>4, <1>5

LEMMA DcdStoreInv == IInv /\ abort = "no" /\ DcdStore => IInv'
<1> SUFFICES ASSUME IInv, abort = "no", DcdStore PROVE IInv'
  OBVIOUS
<1>1. phase = "getdcd" /\ ~wait /\ it = Zero /\ UNCHANGED <<raw, cfg, it, wait, node>>
  BY DEF DcdStore, IInv, CurrentInv, Succ, TypeOK
<1>2. NodeType' /\ (phase' # "end" => FeatsInv')  BY <1>1 DEF IInv, NodeType, FeatsInv
<1>3. CASE abort' # "no"
  <2>1. phase' = phase /\ elems' = elems /\ abort' \in {"endless loop", "past the data"}
    BY <1>3 DEF DcdStore
  <2>2. TypeOK' /\ DataInv' /\ CurrentInv'
    BY <1>1, <2>1 DEF IInv, TypeOK, DataInv, CurrentInv, Succ
  <2> QED  BY <1>1, <1>2, <1>3, <2>1, <2>2 DEF IInv
<1>4. CASE abort' = "no"
  <2> DEFINE n == Min(Counts(raw))
  <2>1. Counts(raw) # {} /\ ~(n > Len(raw))
    BY <1>4 DEF DcdStore
  <2>2. elems' = [e \in 1..n |-> Models(raw[e])] /\ phase' = "addappkey"
    BY <1>4, <2>1 DEF DcdStore
  <2>3. raw \in Compositions /\ raw' = raw /\ Len(raw) \in Nat
    BY <1>1, ItemsAssumption DEF IInv, DataInv
  <2>4. n \in 1..Len(raw)
    <3>1. Counts(raw) \subseteq Nat /\ Counts(raw) \subseteq 1..255  BY DEF Counts
    <3>2. n \in Counts(raw)  BY <2>1, <3>1, MinIs
    <3>3. n \in 1..255 /\ ~(n > Len(raw))  BY <2>1, <3>1, <3>2
    <3> HIDE DEF n
    <3> QED  BY <2>3, <3>3
  <2> HIDE DEF n
  <2>5. \A e \in 1..n : Models(raw[e]) \in Seq(Kinds)  BY <2>3, <2>4, ElementsType
  <2>6. /\ elems' \in Seq(Seq(Kinds)) /\ Len(elems') = n
        /\ \A e \in 1..n : elems'[e] = Models(raw[e])
    BY <2>2, <2>3, <2>4, <2>5
  <2>7. DataInv'  BY <1>1, <2>2, <2>3, <2>4, <2>6 DEF IInv, DataInv
  <2>8. TypeOK' /\ CurrentInv'  BY <1>1, <1>4, <2>2 DEF IInv, TypeOK, CurrentInv, Succ
  <2>9. ToldInv'
    BY <1>1, <1>4, <2>2 DEF IInv, ToldInv, KeysInv, BoundInv, PubsInv, SubsInv
  <2> QED  BY <1>2, <2>2, <2>7, <2>8, <2>9 DEF IInv
<1> QED  BY <1>3, <1>4
\* A phase begins with its first item, or is left out if its guard finds nothing to do.
LEMMA EnterInv == IInv /\ abort = "no" /\ Enter => IInv'
<1> SUFFICES ASSUME IInv, abort = "no", Enter PROVE IInv'
  OBVIOUS
<1>1. /\ phase \in DOMAIN Succ /\ ~wait /\ UNCHANGED <<raw, cfg, elems, node>>
      /\ IF Guard THEN Request(it) ELSE NextPhase
  BY DEF Enter
<1>2. phase \in {"addappkey", "bindappkey", "setpub", "addsub", "setconfig"}  BY <1>1 DEF Succ
<1>3. it = Zero /\ it \in [0..2 -> Nat] /\ it[0] = 0 /\ it[1] = 0 /\ it[2] = 0
  BY <1>1, <1>2 DEF IInv, CurrentInv, Zero
<1>4. DataInv /\ ToldInv /\ NodeType /\ FeatsInv  BY DEF IInv
<1>5. Len(cfg.bindings) \in Nat /\ Len(cfg.subs) \in Nat /\ Len(elems) \in Nat /\ 0 < Len(elems)
  <2>1. raw \in Seq(Element) /\ phase # "getdcd"
    BY <1>2, <1>4, ItemsAssumption DEF DataInv, Element
  <2>2. Len(elems) \in 1..Len(raw)  BY <1>4, <2>1 DEF DataInv
  <2> QED  BY <1>4, <2>1, <2>2, CfgType, ElemsType
<1>6. NodeType'  BY <1>1, <1>4 DEF NodeType
<1>7. /\ Places' = Places /\ UsedKeys' = UsedKeys
      /\ \A j : Keys(j)' = Keys(j) /\ First(j)' = First(j)
      /\ \A p : KindAt(p)' = KindAt(p)
      /\ \A P : PubsOf(P)' = PubsOf(P)
  BY <1>1, SameData
<1>8. Keys(0) = {} /\ Keys(Len(cfg.bindings)) = UsedKeys  BY <1>4, KeysEnds
<1>9. Before(it) = {}
  <2>1. \A p \in Places : p[1] \in Nat /\ p[2] \in Nat  BY <1>4, PlaceIs
  <2>2. \A p \in Places : ~ (p[1] < 0) /\ ~ (p[2] < 0)  BY <2>1
  <2> QED  BY <1>3, <2>2 DEF Before
<1>10. \A p : Subs(p)' = Subs(p) /\ Subscribed(p)' = Subscribed(p)
  BY <1>1, <1>7 DEF Subs, Subscribed
<1>11. Differ' = Differ  BY <1>1 DEF Differ
<1>12. CASE Guard
  <2>1. Request(it)  BY <1>1, <1>12
  <2>2. /\ phase = "addappkey" => 0 < Len(cfg.bindings)
        /\ phase = "bindappkey" => 0 < Len(cfg.bindings)
        /\ phase = "setpub" => \E k \in 1..Len(cfg.bindings) : cfg.bindings[k] = cfg.aki
        /\ phase = "addsub" => 0 < Len(cfg.subs)
        /\ phase = "setconfig" => Differ # {}
    BY <1>2, <1>5, <1>12 DEF Guard
  <2>3. TypeOK' /\ DataInv' /\ CurrentInv'
    BY <1>1, <1>3, <1>5, <1>11, <2>1, <2>2, RequestInv
  <2>4. it' = it /\ phase' = phase  BY <2>1 DEF Request
  <2>5. FeatsInv'  BY <1>1, <1>2, <1>4, <2>4 DEF FeatsInv
  <2>6. At' = At /\ Before(it)' = Before(it)  BY <1>7, <2>4 DEF At, Before
  <2>7. KeysInv'  BY <1>1, <1>2, <1>3, <1>4, <1>7, <1>8, <2>4 DEF ToldInv, KeysInv
  <2>8. BoundInv'
    BY <1>1, <1>2, <1>3, <1>4, <1>7, <1>8, <1>9, <2>4, <2>6 DEF ToldInv, BoundInv
  <2>9. PubsInv'
    <3>1. PubsOf({}) = {}  BY DEF PubsOf
    <3>2. it'[1] = 0  BY <1>1, <1>3, <2>4 DEF Zero
    <3> QED  BY <1>1, <1>2, <1>4, <1>7, <1>9, <2>4, <2>6, <3>1, <3>2 DEF ToldInv, PubsInv
  <2>10. SubsInv'
    <3>1. node.subs = {} => Subs(At) = {}  BY DEF Subs
    <3>2. First(0) = {}  BY DEF First
    <3>3. /\ node' = node /\ phase' = phase /\ it'[2] = 0
          /\ Before(it)' = {} /\ Subs(At)' = Subs(At) /\ First(0)' = First(0) /\ Places' = Places
      BY <1>1, <1>3, <1>7, <1>9, <1>10, <2>4, <2>6 DEF Subs
    <3>4. SubsInv  BY <1>4 DEF ToldInv
    <3>5. CASE phase = "addsub"  BY <1>1, <3>1, <3>2, <3>3, <3>4, <3>5 DEF SubsInv
    <3>6. CASE phase # "addsub"  BY <1>1, <1>2, <1>10, <3>3, <3>4, <3>6 DEF SubsInv
    <3> QED  BY <3>5, <3>6
  <2> QED  BY <1>6, <2>3, <2>5, <2>7, <2>8, <2>9, <2>10 DEF IInv, ToldInv
<1>13. CASE ~Guard
  <2>1. NextPhase  BY <1>1, <1>13
  <2>2. TypeOK' /\ DataInv' /\ CurrentInv'  BY <1>1, <2>1, NextPhaseInv
  <2>3. ~wait' /\ phase' = Succ[phase]  BY <2>1 DEF NextPhase
  <2>4. /\ phase = "addappkey" => Len(cfg.bindings) = 0 /\ phase' = "bindappkey"
        /\ phase = "bindappkey" => Len(cfg.bindings) = 0 /\ phase' = "setpub"
        /\ phase = "setpub" => /\ \A k \in 1..Len(cfg.bindings) : cfg.bindings[k] # cfg.aki
                               /\ phase' = "addsub"
        /\ phase = "addsub" => Len(cfg.subs) = 0 /\ phase' = "setconfig"
        /\ phase = "setconfig" => Differ = {} /\ phase' = "end"
    <3>1. phase \in {"addappkey", "bindappkey"} => Len(cfg.bindings) = 0
      <4>1. phase = "addappkey" => ~(Len(cfg.bindings) > 0)  BY <1>13 DEF Guard
      <4>2. phase = "bindappkey" => ~(Len(cfg.bindings) > 0)  BY <1>13 DEF Guard
      <4> QED  BY <1>5, <4>1, <4>2
    <3>2. phase = "setpub" => \A k \in 1..Len(cfg.bindings) : cfg.bindings[k] # cfg.aki
      BY <1>13 DEF Guard
    <3>3. phase = "addsub" => Len(cfg.subs) = 0  BY <1>5, <1>13 DEF Guard
    <3>4. phase = "setconfig" => Differ = {}  BY <1>13 DEF Guard
    <3> QED  BY <2>3, <3>1, <3>2, <3>3, <3>4 DEF Succ
  <2>5. Len(cfg.bindings) = 0 => UsedKeys = {}  BY <1>8
  <2>6. FeatsInv'
    <3>1. phase = "setconfig" => node.feats = cfg.target  BY <2>4 DEF Differ
    <3> QED  BY <1>1, <1>2, <1>4, <2>4, <3>1 DEF FeatsInv
  <2>7. KeysInv'  BY <1>1, <1>2, <1>4, <1>7, <2>3, <2>4, <2>5 DEF ToldInv, KeysInv
  <2>8. BoundInv'  BY <1>1, <1>2, <1>4, <1>7, <2>3, <2>4, <2>5 DEF ToldInv, BoundInv
  <2>9. PubsInv'
    <3>1. phase = "setpub" => PubsOf(Places) = {}  BY <2>4 DEF PubsOf, UsedKeys
    <3> QED  BY <1>1, <1>2, <1>4, <1>7, <2>3, <2>4, <3>1 DEF ToldInv, PubsInv
  <2>10. SubsInv'
    <3>1. Len(cfg.subs) = 0 /\ node.subs = {} /\ node.full = {} => \A p : Subscribed(p)
      BY DEF Subscribed, Subs, First
    <3> QED  BY <1>1, <1>2, <1>4, <1>7, <1>10, <2>3, <2>4, <3>1 DEF ToldInv, SubsInv
  <2> QED  BY <1>6, <2>2, <2>6, <2>7, <2>8, <2>9, <2>10 DEF IInv, ToldInv
<1> QED  BY <1>12, <1>13
-----------------------------------------------------------------------------
(* Acknowledgements *)

\* What all phases have in common when an item is done with: a node of its type and
\* either the next item or the next phase, in order.
LEMMA AckTypes ==
  ASSUME IInv, abort = "no", wait, node' = Told
  PROVE  NodeType'
<1>1. NodeType /\ DataInv /\ wait /\ phase \in DOMAIN Succ  BY DEF IInv, CurrentInv
<1>2. phase \in {"addappkey", "bindappkey", "setpub", "addsub", "setconfig"}  BY <1>1 DEF Succ
<1>3. it[0] \in Nat /\ it[1] \in Nat /\ it[2] \in Nat /\ At \in Nat \X Nat
  BY DEF IInv, TypeOK, At
<1>4. CASE phase = "addappkey"
  <2>1. it[0] < Len(cfg.bindings) /\ Len(cfg.bindings) \in Nat
    BY <1>1, <1>4, CfgType DEF IInv, TypeOK
  <2>2. Binding(it[0]) \in Nat  BY <1>1, <1>3, <2>1, CfgType
  <2>3. Told = [node EXCEPT !.keys = @ \cup {Binding(it[0])}]  BY <1>4 DEF Told
  <2> QED  BY <1>1, <2>2, <2>3 DEF NodeType
<1>5. CASE phase = "bindappkey"
  <2>1. it[2] < Len(cfg.bindings) /\ Len(cfg.bindings) \in Nat
    BY <1>1, <1>5, CfgType DEF IInv, TypeOK
  <2>2. Binding(it[2]) \in Nat  BY <1>1, <1>3, <2>1, CfgType
  <2>3. Told = [node EXCEPT !.bound = @ \cup {<<At, Binding(it[2])>>}]  BY <1>5 DEF Told
  <2> QED  BY <1>1, <1>3, <2>2, <2>3 DEF NodeType
<1>6. CASE phase = "setpub"
  <2>1. Told = [node EXCEPT !.pubs =
                  IF CanPublish(ModelAt(it[0], it[1])) THEN @ \cup {At} ELSE @]
    BY <1>6 DEF Told
  <2> QED  BY <1>1, <1>3, <2>1 DEF NodeType
<1>7. CASE phase = "addsub"
  <2>1. it[2] < Len(cfg.subs) /\ Len(cfg.subs) \in Nat /\ cfg.subs \in Seq(Nat)
    BY <1>1, <1>7, CfgType DEF IInv, TypeOK
  <2>2. cfg.subs[it[2] + 1] \in Nat
    <3>1. it[2] + 1 \in 1..Len(cfg.subs)  BY <1>3, <2>1
    <3> QED  BY <2>1, <3>1
  <2> DEFINE new == (IF it[2] = 0 THEN {s \in node.subs : s[1] # At} ELSE node.subs)
                    \cup {<<At, cfg.subs[it[2] + 1]>>}
  <2>3. Told = [node EXCEPT !.subs = new]  BY <1>7 DEF Told
  <2>4. new \subseteq (Nat \X Nat) \X Nat  BY <1>1, <1>3, <2>2 DEF NodeType
  <2> HIDE DEF new
  <2> QED  BY <1>1, <2>3, <2>4 DEF NodeType
<1>8. CASE phase = "setconfig"
  <2> DEFINE b == Min(Differ)
             new == IF b \in cfg.target THEN node.feats \cup {b} ELSE node.feats \ {b}
  <2>1. Differ \subseteq Nat /\ Differ # {}
    BY <1>1, <1>8, CfgType DEF IInv, CurrentInv, Differ, NodeType
  <2>2. b \in Nat  BY <2>1, MinIs
  <2>3. Told = [node EXCEPT !.feats = new]  BY <1>8 DEF Told
  <2>4. new \subseteq Nat  BY <1>1, <2>2 DEF NodeType
  <2> HIDE DEF new
  <2> QED  BY <1>1, <2>3, <2>4 DEF NodeType
<1> QED  BY <1>2, <1>4, <1>5, <1>6, <1>7, <1>8

\* The next key, or all keys are there.
LEMMA AckAppkey == IInv /\ abort = "no" /\ phase = "addappkey" /\ Ack => IInv'
<1> SUFFICES ASSUME IInv, abort = "no", phase = "addappkey", Ack PROVE IInv'
  OBVIOUS
<1>1. /\ wait /\ node' = Told /\ UNCHANGED <<raw, cfg, elems>>
      /\ IF IterAppkey.done THEN NextPhase ELSE Request(IterAppkey.next)
  BY DEF Ack, Iter
<1>2. DataInv /\ CurrentInv /\ ToldInv /\ NodeType /\ FeatsInv  BY DEF IInv
<1>3. /\ it \in [0..2 -> Nat] /\ it[0] < Len(cfg.bindings) /\ Len(cfg.bindings) \in Nat
      /\ Known(Binding(it[0])) /\ it[0] \in 0..(Len(cfg.bindings) - 1)
  BY <1>1, <1>2, CfgType DEF IInv, TypeOK, CurrentInv
<1>4. NodeType'  BY <1>1, AckTypes
<1>5. node' = [node EXCEPT !.keys = @ \cup {Binding(it[0])}]  BY <1>1 DEF Told
<1>6. /\ node'.keys = node.keys \cup {Binding(it[0])} /\ node'.bound = node.bound
      /\ node'.pubs = node.pubs /\ node'.subs = node.subs /\ node'.full = node.full
      /\ node'.feats = node.feats
  BY <1>2, <1>5 DEF NodeType
<1>7. node.keys = Keys(it[0])  BY <1>1, <1>2 DEF ToldInv, KeysInv
<1>8. /\ Places' = Places /\ UsedKeys' = UsedKeys /\ \A j : Keys(j)' = Keys(j)
  BY <1>1, SameData
<1>9. CASE NextKey(it[0]) # {}
  <2> DEFINE j == Min(NextKey(it[0]))
             i == [it EXCEPT ![0] = j]
  <2>1. /\ j \in (it[0] + 1)..(Len(cfg.bindings) - 1)
        /\ Keys(j) = Keys(it[0]) \cup {Binding(it[0])}
    BY <1>2, <1>3, <1>9, NextKeyIs
  <2>2. IterAppkey = [next |-> i, done |-> FALSE]  BY <1>9 DEF IterAppkey, Goto
  <2> HIDE DEF j
  <2>3. Request(i)  BY <1>1, <2>2
  <2>4. i \in [0..2 -> Nat] /\ i[0] = j /\ j < Len(cfg.bindings)  BY <1>3, <2>1
  <2> HIDE DEF i
  <2>5. TypeOK' /\ DataInv' /\ CurrentInv'
    BY <1>1, <2>3, <2>4, RequestInv DEF Succ
  <2>6. it' = i /\ phase' = "addappkey"  BY <2>3 DEF Request
  <2>7. abort' = "no" => wait'  BY <2>3 DEF Request
  <2>8. abort' = "no" => ToldInv'
    BY <1>2, <1>6, <1>7, <1>8, <2>1, <2>4, <2>6, <2>7
       DEF ToldInv, KeysInv, BoundInv, PubsInv, SubsInv
  <2>9. FeatsInv'  BY <1>2, <1>6, <2>6 DEF FeatsInv
  <2> QED  BY <1>4, <2>5, <2>8, <2>9 DEF IInv
<1>10. CASE NextKey(it[0]) = {}
  <2>1. UsedKeys = Keys(it[0]) \cup {Binding(it[0])}  BY <1>2, <1>3, <1>10, NextKeyIs
  <2>2. NextPhase  BY <1>1, <1>10 DEF IterAppkey, Done
  <2>3. TypeOK' /\ DataInv' /\ CurrentInv'  BY <1>1, <2>2, NextPhaseInv DEF Succ
  <2>4. ~wait' /\ phase' = "bindappkey"  BY <2>2 DEF NextPhase, Succ
  <2>5. ToldInv'
    BY <1>2, <1>6, <1>7, <1>8, <2>1, <2>4 DEF ToldInv, KeysInv, BoundInv, PubsInv, SubsInv
  <2>6. FeatsInv'  BY <1>2, <1>6, <2>4 DEF FeatsInv
  <2> QED  BY <1>4, <2>3, <2>5, <2>6 DEF IInv
<1> QED  BY <1>9, <1>10

\* The next model, or the first one of the next element: iter_bindings passes over none.
LEMMA MoveIs ==
  ASSUME DataInv, AtPlace, NextKey(it[2]) = {}
  PROVE  LET n == IterBindings IN
         /\ n.done => Steps(Places, {})
         /\ ~n.done => /\ n.next \in [0..2 -> Nat] /\ n.next[0] < Len(elems) /\ n.next[2] = 0
                       /\ n.next[1] = 0 \/ n.next[1] < ModelsOf(n.next[0])
                       /\ Steps(Before(n.next), {})
<1>1. it[0] \in Nat /\ it[1] \in Nat /\ ModelsOf(it[0]) \in Nat  BY AtIs
<1>2. CASE it[1] + 1 # ModelsOf(it[0])
  <2> DEFINE m == it[1] + 1
             i == [it EXCEPT ![1] = m, ![2] = 0]
  <2>1. IterBindings = [next |-> i, done |-> FALSE]
    <3>1. [it EXCEPT ![1] = @ + 1, ![2] = 0] = i  BY DEF AtPlace
    <3> QED  BY <1>2, <3>1 DEF IterBindings, Goto
  <2>2. m \in Nat /\ it[1] < m /\ m < ModelsOf(it[0])  BY <1>1, <1>2 DEF AtPlace
  <2>3. \A q \in Nat : it[1] < q /\ q < m => ModelAt(it[0], q) \in {}  BY <1>1
  <2> HIDE DEF m
  <2>4. /\ i \in [0..2 -> Nat] /\ i[0] = it[0] /\ i[1] < ModelsOf(it[0]) /\ i[2] = 0
        /\ Steps(Before(i), {})
    BY <2>2, <2>3, NextModelIs
  <2> HIDE DEF i
  <2>5. IterBindings.done = FALSE /\ IterBindings.next = i  BY <2>1
  <2> QED  BY <2>4, <2>5 DEF AtPlace
<1>3. CASE it[1] + 1 = ModelsOf(it[0])
  <2>1. IterBindings = NextElement  BY <1>3 DEF IterBindings
  <2>2. \A m \in Nat : it[1] < m /\ m < ModelsOf(it[0]) => ModelAt(it[0], m) \in {}
    BY <1>1, <1>3
  <2> QED  BY <2>1, <2>2, NextElementIs
<1> QED  BY <1>2, <1>3

\* The next key of the model, or the next model with its first key.
LEMMA AckBindappkey == IInv /\ abort = "no" /\ phase = "bindappkey" /\ Ack => IInv'
<1> SUFFICES ASSUME IInv, abort = "no", phase = "bindappkey", Ack PROVE IInv'
  OBVIOUS
<1>1. /\ wait /\ node' = Told /\ UNCHANGED <<raw, cfg, elems>>
      /\ IF IterBindings.done THEN NextPhase ELSE Request(IterBindings.next)
  BY DEF Ack, Iter
<1>2. DataInv /\ CurrentInv /\ ToldInv /\ NodeType /\ FeatsInv  BY DEF IInv
<1>3. /\ it[2] < Len(cfg.bindings) /\ Len(cfg.bindings) \in Nat /\ AtPlace
      /\ Known(Binding(it[2])) /\ it[2] \in 0..(Len(cfg.bindings) - 1)
      /\ it \in [0..2 -> Nat]
  BY <1>1, <1>2, CfgType DEF IInv, TypeOK, CurrentInv, AtPlace
<1>4. NodeType'  BY <1>1, AckTypes
<1>5. node' = [node EXCEPT !.bound = @ \cup {<<At, Binding(it[2])>>}]  BY <1>1 DEF Told
<1>6. /\ node'.bound = node.bound \cup {<<At, Binding(it[2])>>} /\ node'.keys = node.keys
      /\ node'.pubs = node.pubs /\ node'.subs = node.subs /\ node'.full = node.full
      /\ node'.feats = node.feats
  BY <1>2, <1>5 DEF NodeType
<1>7. node.bound = (Before(it) \X UsedKeys) \cup ({At} \X Keys(it[2]))
  BY <1>1, <1>2 DEF ToldInv, BoundInv
<1>8. /\ Places' = Places /\ UsedKeys' = UsedKeys /\ \A j : Keys(j)' = Keys(j)
  BY <1>1, SameData
<1>9. CASE NextKey(it[2]) # {}
  <2> DEFINE j == Min(NextKey(it[2]))
             i == [it EXCEPT ![2] = j]
  <2>1. /\ j \in (it[2] + 1)..(Len(cfg.bindings) - 1)
        /\ Keys(j) = Keys(it[2]) \cup {Binding(it[2])}
    BY <1>2, <1>3, <1>9, NextKeyIs
  <2>2. IterBindings = [next |-> i, done |-> FALSE]  BY <1>9 DEF IterBindings, Goto
  <2> HIDE DEF j
  <2>3. Request(i)  BY <1>1, <2>2
  <2>4. /\ i \in [0..2 -> Nat] /\ i[2] = j /\ j < Len(cfg.bindings)
        /\ i[0] = it[0] /\ i[1] = it[1]
    BY <1>3, <2>1
  <2> HIDE DEF i
  <2>5. TypeOK' /\ DataInv' /\ CurrentInv'
    BY <1>1, <1>3, <2>3, <2>4, RequestInv DEF Succ, AtPlace
  <2>6. it' = i /\ phase' = "bindappkey"  BY <2>3 DEF Request
  <2>7. abort' = "no" => wait'  BY <2>3 DEF Request
  <2>8. At' = At /\ Before(it)' = Before(it)  BY <1>8, <2>4, <2>6 DEF At, Before
  <2>9. node'.bound = (Before(it) \X UsedKeys) \cup ({At} \X Keys(j))
    BY <1>6, <1>7, <2>1
  <2>10. abort' = "no" => BoundInv'
    BY <1>8, <2>4, <2>6, <2>7, <2>8, <2>9 DEF BoundInv
  <2>11. abort' = "no" => ToldInv'
    BY <1>2, <1>6, <1>8, <2>6, <2>7, <2>10
       DEF ToldInv, KeysInv, PubsInv, SubsInv
  <2>12. FeatsInv'  BY <1>2, <1>6, <2>6 DEF FeatsInv
  <2> QED  BY <1>4, <2>5, <2>11, <2>12 DEF IInv
<1>10. CASE NextKey(it[2]) = {}
  <2> DEFINE n == IterBindings
  <2>1. /\ n.done => Steps(Places, {})
        /\ ~n.done => /\ n.next \in [0..2 -> Nat] /\ n.next[0] < Len(elems) /\ n.next[2] = 0
                      /\ Steps(Before(n.next), {})
    BY <1>2, <1>3, <1>10, MoveIs
  <2>2. UsedKeys = Keys(it[2]) \cup {Binding(it[2])}  BY <1>2, <1>3, <1>10, NextKeyIs
  <2>3. ASSUME NEW P, Steps(P, {}) PROVE node'.bound = P \X UsedKeys
    <3>1. P = Before(it) \cup {At}  BY <2>3 DEF Steps
    <3> QED  BY <1>6, <1>7, <2>2, <3>1
  <2> HIDE DEF n
  <2>4. CASE n.done
    <3>1. NextPhase  BY <1>1, <2>4 DEF n
    <3>2. TypeOK' /\ DataInv' /\ CurrentInv'  BY <1>1, <3>1, NextPhaseInv DEF Succ
    <3>3. ~wait' /\ phase' = "setpub"  BY <3>1 DEF NextPhase, Succ
    <3>4. node'.bound = Places \X UsedKeys  BY <2>1, <2>3, <2>4
    <3>5. BoundInv'  BY <1>8, <3>3, <3>4 DEF BoundInv
    <3>6. ToldInv'  BY <1>2, <1>6, <1>8, <3>3, <3>5 DEF ToldInv, KeysInv, PubsInv, SubsInv
    <3>7. FeatsInv'  BY <1>2, <1>6, <3>3 DEF FeatsInv
    <3> QED  BY <1>4, <3>2, <3>6, <3>7 DEF IInv
  <2>5. CASE ~n.done
    <3> DEFINE i == n.next
    <3>1. Request(i)  BY <1>1, <2>5 DEF n
    <3>2. /\ i \in [0..2 -> Nat] /\ i[0] < Len(elems) /\ i[2] = 0
          /\ Steps(Before(i), {})
      BY <2>1, <2>5
    <3> HIDE DEF i
    <3>3. TypeOK' /\ DataInv' /\ CurrentInv'
      BY <1>1, <1>3, <3>1, <3>2, RequestInv DEF Succ
    <3>4. it' = i /\ phase' = "bindappkey"  BY <3>1 DEF Request
    <3>5. abort' = "no" => wait'  BY <3>1 DEF Request
    <3>6. node'.bound = Before(i) \X UsedKeys  BY <2>3, <3>2
    <3>7. Keys(0) = {}  BY <1>2, KeysEnds
    <3>8. Before(it)' = Before(i)  BY <1>8, <3>4 DEF Before
    <3>9. abort' = "no" => BoundInv'
      BY <1>8, <3>2, <3>4, <3>5, <3>6, <3>7, <3>8 DEF BoundInv
    <3>10. abort' = "no" => ToldInv'
      BY <1>2, <1>6, <1>8, <3>4, <3>5, <3>9 DEF ToldInv, KeysInv, PubsInv, SubsInv
    <3>11. FeatsInv'  BY <1>2, <1>6, <3>4 DEF FeatsInv
    <3> QED  BY <1>4, <3>3, <3>10, <3>11 DEF IInv
  <2> QED  BY <2>4, <2>5
<1> QED  BY <1>9, <1>10

\* The publication of the model, if it can publish, and the next one that can.
LEMMA AckSetpub == IInv /\ abort = "no" /\ phase = "setpub" /\ Ack => IInv'
<1> SUFFICES ASSUME IInv, abort = "no", phase = "setpub", Ack PROVE IInv'
  OBVIOUS
<1> DEFINE n == Skip(not_pub_models)
<1>1. /\ wait /\ node' = Told /\ UNCHANGED <<raw, cfg, elems>>
      /\ IF n.done THEN NextPhase ELSE Request(n.next)
  BY DEF Ack, Iter, IterSetpub
<1>2. DataInv /\ CurrentInv /\ ToldInv /\ NodeType /\ FeatsInv  BY DEF IInv
<1>3. AtPlace /\ cfg.aki \in UsedKeys
  BY <1>1, <1>2 DEF IInv, TypeOK, CurrentInv, AtPlace
<1>4. NodeType'  BY <1>1, AckTypes
<1>5. node' = [node EXCEPT !.pubs =
                 IF CanPublish(ModelAt(it[0], it[1])) THEN @ \cup {At} ELSE @]
  BY <1>1 DEF Told
<1>6. /\ node'.pubs = IF CanPublish(KindAt(At)) THEN node.pubs \cup {At} ELSE node.pubs
      /\ node'.keys = node.keys /\ node'.bound = node.bound
      /\ node'.subs = node.subs /\ node'.full = node.full /\ node'.feats = node.feats
  BY <1>2, <1>5 DEF NodeType, KindAt, At
<1>7. /\ node.pubs = PubsOf(Before(it))
      /\ PubSupported(KindAt(At)) \/ At[2] = 0
  BY <1>1, <1>2 DEF ToldInv, PubsInv, KindAt, At
<1>8. Places' = Places /\ UsedKeys' = UsedKeys /\ \A P : PubsOf(P)' = PubsOf(P)
  BY <1>1, SameData
<1>9. ASSUME NEW P, Steps(P, not_pub_models) PROVE node'.pubs = PubsOf(P)
  <2>1. Publishes(At, KindAt(At)) <=> CanPublish(KindAt(At))  BY <1>7 DEF Publishes
  <2>2. \A p \in P : p \in Before(it) \/ p = At \/ ~Publishes(p, KindAt(p))
    BY <1>9 DEF Steps, Publishes, PubSupported
  <2> QED  BY <1>3, <1>6, <1>7, <1>9, <2>1, <2>2 DEF Steps, PubsOf
<1>10. /\ n.done => Steps(Places, not_pub_models)
       /\ ~n.done => /\ n.next \in [0..2 -> Nat] /\ n.next[0] < Len(elems) /\ n.next[2] = 0
                     /\ Steps(Before(n.next), not_pub_models)
                     /\ \/ n.next[1] = 0
                        \/ PubSupported(ModelAt(n.next[0], n.next[1]))
  BY <1>2, <1>3, SkipIs DEF PubSupported
<1> HIDE DEF n
<1>11. CASE n.done
  <2>1. NextPhase  BY <1>1, <1>11
  <2>2. TypeOK' /\ DataInv' /\ CurrentInv'  BY <1>1, <2>1, NextPhaseInv DEF Succ
  <2>3. ~wait' /\ phase' = "addsub"  BY <2>1 DEF NextPhase, Succ
  <2>4. node'.pubs = PubsOf(Places)  BY <1>9, <1>10, <1>11
  <2>5. PubsInv'  BY <1>8, <2>3, <2>4 DEF PubsInv
  <2>6. ToldInv'  BY <1>2, <1>6, <1>8, <2>3, <2>5 DEF ToldInv, KeysInv, BoundInv, SubsInv
  <2>7. FeatsInv'  BY <1>2, <1>6, <2>3 DEF FeatsInv
  <2> QED  BY <1>4, <2>2, <2>6, <2>7 DEF IInv
<1>12. CASE ~n.done
  <2> DEFINE i == n.next
  <2>1. Request(i)  BY <1>1, <1>12
  <2>2. /\ i \in [0..2 -> Nat] /\ i[0] < Len(elems) /\ Steps(Before(i), not_pub_models)
        /\ PubSupported(ModelAt(i[0], i[1])) \/ i[1] = 0
    BY <1>10, <1>12
  <2> HIDE DEF i
  <2>3. \E k \in 1..Len(cfg.bindings) : cfg.bindings[k] = cfg.aki  BY <1>3 DEF UsedKeys
  <2>4. TypeOK' /\ DataInv' /\ CurrentInv'
    BY <1>1, <2>1, <2>2, <2>3, RequestInv DEF Succ
  <2>5. it' = i /\ phase' = "setpub"  BY <2>1 DEF Request
  <2>6. abort' = "no" => wait'  BY <2>1 DEF Request
  <2>7. node'.pubs = PubsOf(Before(i))  BY <1>9, <2>2
  <2>8. Before(it)' = Before(i)  BY <1>8, <2>5 DEF Before
  <2>9. abort' = "no" => PubsInv'
    BY <1>1, <1>8, <2>2, <2>5, <2>6, <2>7, <2>8 DEF PubsInv, ModelAt
  <2>10. abort' = "no" => ToldInv'
    BY <1>2, <1>6, <1>8, <2>5, <2>6, <2>9 DEF ToldInv, KeysInv, BoundInv, SubsInv
  <2>11. FeatsInv'  BY <1>2, <1>6, <2>5 DEF FeatsInv
  <2> QED  BY <1>4, <2>4, <2>10, <2>11 DEF IInv
<1> QED  BY <1>11, <1>12

\* The lowest feature that differs is made the same; when none does, the node is done.
LEMMA AckSetconfig == IInv /\ abort = "no" /\ phase = "setconfig" /\ Ack => IInv'
<1> SUFFICES ASSUME IInv, abort = "no", phase = "setconfig", Ack PROVE IInv'
  OBVIOUS
<1> DEFINE b == Min(Differ)
           new == IF b \in cfg.target THEN node.feats \cup {b} ELSE node.feats \ {b}
<1>1. /\ wait /\ node' = Told /\ UNCHANGED <<raw, cfg, elems>>
      /\ IF Cardinality(Differ) = 1 THEN NextPhase ELSE Request(it)
  BY DEF Ack
<1>2. DataInv /\ CurrentInv /\ ToldInv /\ NodeType /\ FeatsInv  BY DEF IInv
<1>3. /\ IsFiniteSet(cfg.target) /\ cfg.target \subseteq Nat
      /\ IsFiniteSet(node.feats) /\ node.feats \subseteq Nat
  BY <1>2, CfgType DEF FeatsInv
<1>4. Differ # {} /\ Differ \subseteq Nat  BY <1>1, <1>2, <1>3 DEF CurrentInv, Differ
<1>5. b \in Differ  BY <1>4, MinIs
<1>6. node' = [node EXCEPT !.feats = new]  BY <1>1 DEF Told
<1> HIDE DEF b
<1>7. NodeType'  BY <1>1, AckTypes
<1>8. /\ node'.feats = new /\ node'.pubs = node.pubs /\ node'.keys = node.keys
      /\ node'.bound = node.bound /\ node'.subs = node.subs /\ node'.full = node.full
  BY <1>2, <1>6 DEF NodeType
<1>9. Differ' = Differ \ {b}  BY <1>1, <1>5, <1>8 DEF Differ
<1>10. IsFiniteSet(new) /\ new \subseteq Nat
  <2>1. IsFiniteSet(node.feats \cup {b}) /\ IsFiniteSet(node.feats \ {b})
    BY <1>3, FS_AddElement, FS_RemoveElement
  <2> QED  BY <1>3, <1>4, <1>5, <2>1
<1>11. IsFiniteSet(Differ)
  <2>1. IsFiniteSet(cfg.target \ node.feats) /\ IsFiniteSet(node.feats \ cfg.target)
    BY <1>3, FS_Difference
  <2> QED  BY <2>1, FS_Union DEF Differ
<1>12. /\ Places' = Places /\ UsedKeys' = UsedKeys
       /\ \A j : Keys(j)' = Keys(j) /\ First(j)' = First(j)
       /\ \A p : KindAt(p)' = KindAt(p) /\ \A P : PubsOf(P)' = PubsOf(P)
  BY <1>1, SameData
<1>13. \A p : Subscribed(p)' = Subscribed(p)  BY <1>1, <1>8, <1>12 DEF Subscribed, Subs
<1> HIDE DEF new
<1>14. CASE Cardinality(Differ) = 1
  <2>1. NextPhase  BY <1>1, <1>14
  <2>2. TypeOK' /\ DataInv' /\ CurrentInv'  BY <1>1, <2>1, NextPhaseInv DEF Succ
  <2>3. ~wait' /\ phase' = "end"  BY <2>1 DEF NextPhase, Succ
  <2>4. Differ' = {}
    <3>1. PICK x : Differ = {x}  BY <1>11, <1>14, FS_Singleton
    <3> QED  BY <1>5, <1>9, <3>1
  <2>5. node'.feats = cfg.target  BY <1>1, <2>4 DEF Differ
  <2>6. FeatsInv'  BY <1>1, <1>8, <1>10, <2>5 DEF FeatsInv
  <2>7. ToldInv'
    BY <1>2, <1>8, <1>12, <1>13, <2>3 DEF ToldInv, KeysInv, BoundInv, PubsInv, SubsInv
  <2> QED  BY <1>7, <2>2, <2>6, <2>7 DEF IInv
<1>15. CASE Cardinality(Differ) # 1
  <2>1. Request(it)  BY <1>1, <1>15
  <2>2. Differ' # {}
    <3>1. Differ # {b}  BY <1>15, FS_Singleton
    <3> QED  BY <1>5, <1>9, <3>1
  <2>3. it \in [0..2 -> Nat]  BY DEF IInv, TypeOK
  <2>4. TypeOK' /\ DataInv' /\ CurrentInv'  BY <1>1, <2>1, <2>2, <2>3, RequestInv DEF Succ
  <2>5. phase' = "setconfig"  BY <2>1 DEF Request
  <2>6. FeatsInv'  BY <1>8, <1>10, <2>5 DEF FeatsInv
  <2>7. ToldInv'
    BY <1>2, <1>8, <1>12, <1>13, <2>5 DEF ToldInv, KeysInv, BoundInv, PubsInv, SubsInv
  <2> QED  BY <1>7, <2>4, <2>6, <2>7 DEF IInv
<1> QED  BY <1>14, <1>15

\* What an acknowledged address changes: the subscriptions of the current model, only.
LEMMA ToldSubs ==
  ASSUME IInv, abort = "no", phase = "addsub", wait, node' = Told, UNCHANGED <<raw, cfg, elems>>
  PROVE  /\ {s[2] : s \in {q \in node'.subs : q[1] = At}} = First(it[2] + 1)
         /\ \A p : p # At => {s[2] : s \in {q \in node'.subs : q[1] = p}} = Subs(p)
         /\ \A s \in node'.subs : s[1] \in Before(it) \cup {At}
         /\ node'.full = node.full /\ node'.keys = node.keys /\ node'.bound = node.bound
         /\ node'.pubs = node.pubs /\ node'.feats = node.feats
<1> DEFINE a == cfg.subs[it[2] + 1]
           old == IF it[2] = 0 THEN {s \in node.subs : s[1] # At} ELSE node.subs
<1>1. DataInv /\ NodeType /\ SubsInv /\ it[2] \in Nat  BY DEF IInv, ToldInv, TypeOK
<1>2. /\ Subs(At) = First(it[2])
      /\ \A s \in node.subs : s[1] \in Before(it) \cup {At}
  BY <1>1 DEF SubsInv
<1>3. node' = [node EXCEPT !.subs = old \cup {<<At, a>>}]  BY DEF Told
<1>4. /\ node'.subs = old \cup {<<At, a>>}
      /\ node'.full = node.full /\ node'.keys = node.keys /\ node'.bound = node.bound
      /\ node'.pubs = node.pubs /\ node'.feats = node.feats
  BY <1>1, <1>3 DEF NodeType
<1>5. First(it[2] + 1) = First(it[2]) \cup {a}
  <2>1. \A i : i \in 1..(it[2] + 1) <=> i \in 1..it[2] \/ i = it[2] + 1  BY <1>1
  <2> QED  BY <2>1 DEF First
<1>6. it[2] = 0 => First(it[2]) = {}  BY DEF First
<1>7. {q \in node'.subs : q[1] = At} = {q \in old : q[1] = At} \cup {<<At, a>>}  BY <1>4
<1>8. {s[2] : s \in {q \in old : q[1] = At}} = First(it[2])
  <2>1. CASE it[2] = 0
    <3>1. {q \in old : q[1] = At} = {}  BY <2>1
    <3> QED  BY <1>6, <2>1, <3>1
  <2>2. CASE it[2] # 0  BY <1>2, <2>2 DEF Subs
  <2> QED  BY <2>1, <2>2
<1>9. \A p : p # At => {q \in node'.subs : q[1] = p} = {q \in node.subs : q[1] = p}  BY <1>4
<1>10. {s[2] : s \in {q \in node'.subs : q[1] = At}} = First(it[2] + 1)
  <2> HIDE DEF old, a
  <2> DEFINE S == {q \in old : q[1] = At}
             T == {q \in node'.subs : q[1] = At}
  <2>1. T = S \cup {<<At, a>>} /\ {s[2] : s \in S} = First(it[2])  BY <1>7, <1>8
  <2> HIDE DEF S, T
  <2>2. {s[2] : s \in T} = {s[2] : s \in S} \cup {a}
    <3>1. \A s \in T : s[2] \in {q[2] : q \in S} \cup {a}  BY <2>1
    <3>2. \A s \in S : s \in T  BY <2>1
    <3>3. a \in {s[2] : s \in T}
      <4>1. <<At, a>> \in T /\ <<At, a>>[2] = a  BY <2>1
      <4> QED  BY <4>1
    <3>4. {s[2] : s \in T} \subseteq {s[2] : s \in S} \cup {a}  BY <3>1
    <3>5. {s[2] : s \in S} \subseteq {s[2] : s \in T}  BY <3>2
    <3> QED  BY <3>3, <3>4, <3>5
  <2>3. {s[2] : s \in T} = First(it[2] + 1)  BY <1>5, <2>1, <2>2
  <2> QED  BY <2>3 DEF T
<1>11. \A p : p # At => {s[2] : s \in {q \in node'.subs : q[1] = p}} = Subs(p)
  BY <1>9 DEF Subs
<1>12. \A s \in node'.subs : s[1] \in Before(it) \cup {At}  BY <1>2, <1>4
<1> QED  BY <1>4, <1>10, <1>11, <1>12

\* The current model has the subscriptions that it is to have; the next one that can
\* subscribe.  The models that are passed over have none.
LEMMA NextSubModel ==
  ASSUME IInv, abort = "no", phase = "addsub", wait, UNCHANGED <<raw, cfg, elems>>,
         NodeType', node'.feats = node.feats, node'.keys = node.keys,
         node'.bound = node.bound, node'.pubs = node.pubs,
         \A p : p # At => {s[2] : s \in {q \in node'.subs : q[1] = p}} = Subs(p),
         \A s \in node'.subs : s[1] \in Before(it) \cup {At},
         \A p : p # At => (p \in node'.full <=> p \in node.full),
         \E j \in 0..Len(cfg.subs) :
            /\ At \in node'.full \/ j = Len(cfg.subs)
            /\ {s[2] : s \in {q \in node'.subs : q[1] = At}} = First(j),
         IF Skip(not_sub_models).done THEN NextPhase ELSE Request(Skip(not_sub_models).next)
  PROVE  IInv'
<1> DEFINE n == Skip(not_sub_models)
<1>1. DataInv /\ CurrentInv /\ ToldInv /\ NodeType /\ FeatsInv /\ SubsInv  BY DEF IInv, ToldInv
<1>2. AtPlace /\ it[2] < Len(cfg.subs) /\ Len(cfg.subs) \in Nat /\ it[2] \in Nat
  BY <1>1, CfgType DEF IInv, TypeOK, AtPlace
<1>3. At \in Places /\ At \notin Before(it)  BY <1>1, <1>2, AtIs
<1>4. /\ \A p \in Before(it) : Subscribed(p)
      /\ node.full \subseteq Before(it)
      /\ \A s \in node.subs : s[1] \in Before(it) \cup {At}
  BY <1>1 DEF SubsInv
<1>5. /\ Places' = Places /\ UsedKeys' = UsedKeys
      /\ \A j : First(j)' = First(j)
      /\ \A p : KindAt(p)' = KindAt(p) /\ \A P : PubsOf(P)' = PubsOf(P)
  BY SameData
<1>6. \A p : Subs(p)' = {s[2] : s \in {q \in node'.subs : q[1] = p}}  BY DEF Subs
<1>7. First(0) = {}  BY DEF First
<1>8. ASSUME NEW p, p \notin Before(it), p # At PROVE Subs(p)' = {}
  <2>1. Subs(p) = {}  BY <1>4, <1>8 DEF Subs
  <2> QED  BY <1>6, <1>8, <2>1
<1>9. ASSUME NEW P, Steps(P, not_sub_models), NEW p \in P PROVE Subscribed(p)'
  <2> SUFFICES \E j \in 0..Len(cfg.subs) :
                 /\ SubSupported(KindAt(p)) /\ p \notin node'.full => j = Len(cfg.subs)
                 /\ Subs(p)' = First(j)
    <3>1. KindAt(p)' = KindAt(p) /\ \A j : First(j)' = First(j)  BY <1>5
    <3> QED  BY <3>1 DEF Subscribed
  <2>1. CASE p \in Before(it)
    <3>1. p # At  BY <1>3, <2>1
    <3>2. Subs(p)' = Subs(p) /\ (p \in node'.full <=> p \in node.full)  BY <1>6, <3>1
    <3> QED  BY <1>4, <2>1, <3>2 DEF Subscribed
  <2>2. CASE p = At  BY <1>6, <2>2
  <2>3. CASE p \notin Before(it) /\ p # At
    <3>1. ~SubSupported(KindAt(p))  BY <1>9, <2>3 DEF Steps, SubSupported
    <3>2. 0 \in 0..Len(cfg.subs)  BY <1>2
    <3> QED  BY <1>7, <1>8, <2>3, <3>1, <3>2
  <2> QED  BY <2>1, <2>2, <2>3
<1>10. node'.full \subseteq Before(it) \cup {At}  BY <1>4
<1>11. /\ n.done => Steps(Places, not_sub_models)
       /\ ~n.done => /\ n.next \in [0..2 -> Nat] /\ n.next[0] < Len(elems) /\ n.next[2] = 0
                     /\ Steps(Before(n.next), not_sub_models)
  BY <1>1, <1>2, SkipIs
<1> HIDE DEF n
<1>12. CASE n.done
  <2>1. NextPhase  BY <1>12 DEF n
  <2>2. TypeOK' /\ DataInv' /\ CurrentInv'  BY <2>1, NextPhaseInv DEF Succ
  <2>3. ~wait' /\ phase' = "setconfig"  BY <2>1 DEF NextPhase, Succ
  <2>4. \A p \in Places : Subscribed(p)'  BY <1>9, <1>11, <1>12
  <2>5. SubsInv'  BY <1>5, <2>3, <2>4 DEF SubsInv
  <2>6. ToldInv'  BY <1>1, <1>5, <2>3, <2>5 DEF ToldInv, KeysInv, BoundInv, PubsInv
  <2>7. FeatsInv'  BY <1>1, <2>3 DEF FeatsInv
  <2> QED  BY <2>2, <2>6, <2>7 DEF IInv
<1>13. CASE ~n.done
  <2> DEFINE i == n.next
  <2>1. Request(i)  BY <1>13 DEF n
  <2>2. /\ i \in [0..2 -> Nat] /\ i[0] < Len(elems) /\ i[2] = 0
        /\ Steps(Before(i), not_sub_models)
    BY <1>11, <1>13
  <2> HIDE DEF i
  <2>3. i[2] < Len(cfg.subs)  BY <1>2, <2>2
  <2>4. TypeOK' /\ DataInv' /\ CurrentInv'  BY <2>1, <2>2, <2>3, RequestInv DEF Succ
  <2>5. it' = i /\ phase' = "addsub"  BY <2>1 DEF Request
  <2>6. abort' = "no" => wait'  BY <2>1 DEF Request
  <2>7. Before(it)' = Before(i) /\ At' = <<i[0], i[1]>>  BY <1>5, <2>5 DEF Before, At
  <2>8. At' \notin Before(i)
    <3>1. i[0] \in Nat /\ i[1] \in Nat  BY <2>2
    <3> QED  BY <2>7, <3>1 DEF Before
  <2>9. Before(it) \cup {At} \subseteq Before(i)  BY <2>2 DEF Steps
  <2>10. \A p \in Before(i) : Subscribed(p)'  BY <1>9, <2>2
  <2>11. {s[2] : s \in {q \in node'.subs : q[1] = At'}} = {}
    <3> DEFINE p == At'
    <3>1. p \notin Before(it) /\ p # At  BY <2>8, <2>9
    <3>2. \A s \in node'.subs : s[1] # p  BY <3>1
    <3> QED  BY <3>2
  <2>12. abort' = "no" => SubsInv'
    <3>1. \A p \in Before(it)' : Subscribed(p)'  BY <2>7, <2>10
    <3>2. Subs(At)' = First(it[2])'
      <4>1. Subs(At)' = {}  BY <2>11 DEF Subs
      <4>2. First(0)' = {}  BY <1>5, <1>7
      <4> QED  BY <2>2, <2>5, <4>1, <4>2
    <3>3. node'.full \subseteq Before(it)'  BY <1>10, <2>7, <2>9
    <3>4. \A s \in node'.subs : s[1] \in Before(it)' \cup {At'}  BY <2>7, <2>9
    <3>5. phase' = "addsub"  BY <2>5
    <3> QED  BY <2>6, <3>1, <3>2, <3>3, <3>4, <3>5 DEF SubsInv
  <2>13. abort' = "no" => ToldInv'
    BY <1>1, <1>5, <2>5, <2>6, <2>12 DEF ToldInv, KeysInv, BoundInv, PubsInv
  <2>14. FeatsInv'  BY <1>1, <2>5 DEF FeatsInv
  <2> QED  BY <2>4, <2>13, <2>14 DEF IInv
<1> QED  BY <1>12, <1>13

\* The next address of the model, or the next model with the first one.
LEMMA AckAddsub == IInv /\ abort = "no" /\ phase = "addsub" /\ Ack => IInv'
<1> SUFFICES ASSUME IInv, abort = "no", phase = "addsub", Ack PROVE IInv'
  OBVIOUS
<1>1. /\ wait /\ node' = Told /\ UNCHANGED <<raw, cfg, elems>>
      /\ LET n == IterAddsub(it[2]) IN IF n.done THEN NextPhase ELSE Request(n.next)
  BY DEF Ack, Iter
<1>2. DataInv /\ CurrentInv /\ ToldInv /\ NodeType /\ FeatsInv /\ SubsInv  BY DEF IInv, ToldInv
<1>3. /\ it \in [0..2 -> Nat] /\ it[2] \in Nat /\ it[2] < Len(cfg.subs) /\ Len(cfg.subs) \in Nat
      /\ it[0] < Len(elems)
  BY <1>1, <1>2, CfgType DEF IInv, TypeOK
<1>4. NodeType'  BY <1>1, AckTypes
<1>5. /\ {s[2] : s \in {q \in node'.subs : q[1] = At}} = First(it[2] + 1)
      /\ \A p : p # At => {s[2] : s \in {q \in node'.subs : q[1] = p}} = Subs(p)
      /\ \A s \in node'.subs : s[1] \in Before(it) \cup {At}
      /\ node'.full = node.full /\ node'.keys = node.keys /\ node'.bound = node.bound
      /\ node'.pubs = node.pubs /\ node'.feats = node.feats
  BY <1>1, ToldSubs
<1>6. CASE it[2] + 1 = Len(cfg.subs)
  <2>1. IterAddsub(it[2]) = Skip(not_sub_models)  BY <1>6 DEF IterAddsub
  <2>2. Len(cfg.subs) \in 0..Len(cfg.subs)  BY <1>3
  <2>3. \E j \in 0..Len(cfg.subs) :
           /\ At \in node'.full \/ j = Len(cfg.subs)
           /\ {s[2] : s \in {q \in node'.subs : q[1] = At}} = First(j)
    BY <1>5, <1>6, <2>2
  <2> QED  BY <1>1, <1>4, <1>5, <2>1, <2>3, NextSubModel
<1>7. CASE it[2] + 1 # Len(cfg.subs)
  <2> DEFINE i == [it EXCEPT ![2] = it[2] + 1]
  <2>1. IterAddsub(it[2]) = [next |-> i, done |-> FALSE]  BY <1>7 DEF IterAddsub, Goto
  <2>2. Request(i)  BY <1>1, <2>1
  <2>3. /\ i \in [0..2 -> Nat] /\ i[0] = it[0] /\ i[1] = it[1] /\ i[2] = it[2] + 1
        /\ i[2] < Len(cfg.subs)
    BY <1>3, <1>7
  <2> HIDE DEF i
  <2>4. TypeOK' /\ DataInv' /\ CurrentInv'
    BY <1>1, <1>3, <2>2, <2>3, RequestInv DEF Succ
  <2>5. it' = i /\ phase' = "addsub"  BY <2>2 DEF Request
  <2>6. abort' = "no" => wait'  BY <2>2 DEF Request
  <2>7. /\ Places' = Places /\ UsedKeys' = UsedKeys
        /\ \A j : First(j)' = First(j)
        /\ \A p : KindAt(p)' = KindAt(p) /\ \A P : PubsOf(P)' = PubsOf(P)
    BY <1>1, SameData
  <2>8. Before(it)' = Before(it) /\ At' = At  BY <2>3, <2>5, <2>7 DEF Before, At
  <2>9. AtPlace /\ At \notin Before(it)
    <3>1. AtPlace  BY <1>1, <1>2 DEF IInv, TypeOK, AtPlace
    <3> QED  BY <1>2, <3>1, AtIs
  <2>10. \A p \in Before(it) : Subscribed(p)'
    <3>1. \A p \in Before(it) : Subs(p)' = Subs(p)  BY <1>5, <2>9 DEF Subs
    <3> QED  BY <1>1, <1>2, <1>5, <2>5, <2>7, <3>1 DEF SubsInv, Subscribed
  <2>11. Subs(At)' = First(it[2])'
    <3>1. Subs(At)' = First(it[2] + 1)  BY <1>5, <2>8 DEF Subs
    <3> QED  BY <2>3, <2>5, <2>7, <3>1
  <2>12. node'.full \subseteq Before(it)' /\ \A s \in node'.subs : s[1] \in Before(it)' \cup {At'}
    BY <1>1, <1>2, <1>5, <2>8 DEF SubsInv
  <2>13. abort' = "no" => SubsInv'
    <3>1. \A p \in Before(it)' : Subscribed(p)'  BY <2>8, <2>10
    <3> QED  BY <2>5, <2>6, <2>11, <2>12, <3>1 DEF SubsInv
  <2>14. abort' = "no" => ToldInv'
    BY <1>2, <1>5, <2>5, <2>6, <2>7, <2>13 DEF ToldInv, KeysInv, BoundInv, PubsInv
  <2>15. FeatsInv'  BY <1>2, <1>5, <2>5 DEF FeatsInv
  <2> QED  BY <1>4, <2>4, <2>14, <2>15 DEF IInv
<1> QED  BY <1>6, <1>7

\* A model that is full has the addresses up to the one that did not fit.
LEMMA NoResourcesInv == IInv /\ abort = "no" /\ NoResources => IInv'
<1> SUFFICES ASSUME IInv, abort = "no", NoResources PROVE IInv'
  OBVIOUS
<1>1. /\ wait /\ phase = "addsub" /\ node' = [node EXCEPT !.full = @ \cup {At}]
      /\ UNCHANGED <<raw, cfg, elems>>
      /\ LET n == IterAddsub(Len(cfg.subs) - 1) IN IF n.done THEN NextPhase ELSE Request(n.next)
  BY DEF NoResources
<1>2. DataInv /\ NodeType /\ SubsInv  BY <1>1 DEF IInv, ToldInv
<1>3. /\ it[2] \in Nat /\ it[2] < Len(cfg.subs) /\ Len(cfg.subs) \in Nat
      /\ At \in Nat \X Nat
  BY <1>1, <1>2, CfgType DEF IInv, TypeOK, At
<1>4. IterAddsub(Len(cfg.subs) - 1) = Skip(not_sub_models)
  <2>1. (Len(cfg.subs) - 1) + 1 = Len(cfg.subs)  BY <1>3
  <2> QED  BY <2>1 DEF IterAddsub
<1>5. /\ node'.full = node.full \cup {At} /\ node'.subs = node.subs /\ node'.keys = node.keys
      /\ node'.bound = node.bound /\ node'.pubs = node.pubs /\ node'.feats = node.feats
  BY <1>1, <1>2 DEF NodeType
<1>6. NodeType'  BY <1>1, <1>2, <1>3 DEF NodeType
<1>7. \A p : {s[2] : s \in {q \in node'.subs : q[1] = p}} = Subs(p)  BY <1>5 DEF Subs
<1>8. \E j \in 0..Len(cfg.subs) :
         /\ At \in node'.full \/ j = Len(cfg.subs)
         /\ {s[2] : s \in {q \in node'.subs : q[1] = At}} = First(j)
  <2>1. it[2] \in 0..Len(cfg.subs)  BY <1>3
  <2>2. Subs(At) = First(it[2])  BY <1>1, <1>2 DEF SubsInv
  <2> QED  BY <1>5, <1>7, <2>1, <2>2
<1>9. \A s \in node'.subs : s[1] \in Before(it) \cup {At}  BY <1>1, <1>2, <1>5 DEF SubsInv
<1>10. IF Skip(not_sub_models).done THEN NextPhase ELSE Request(Skip(not_sub_models).next)
  BY <1>1, <1>4
<1> QED  BY <1>1, <1>5, <1>6, <1>7, <1>8, <1>9, <1>10, NextSubModel

LEMMA RefusedInv == IInv /\ abort = "no" /\ Refused => IInv'
<1> SUFFICES ASSUME IInv, abort = "no", Refused PROVE IInv'
  OBVIOUS
<1>1. /\ phase = "addsub" /\ phase' = "failed" /\ wait' = FALSE
      /\ UNCHANGED <<raw, cfg, elems, it, node, abort>>
  BY DEF Refused, Rejects
<1>2. TypeOK' /\ DataInv' /\ CurrentInv' /\ NodeType' /\ FeatsInv'
  BY <1>1 DEF IInv, TypeOK, DataInv, CurrentInv, NodeType, FeatsInv, Succ
<1>3. ToldInv'  BY <1>1 DEF ToldInv, KeysInv, BoundInv, PubsInv, SubsInv
<1> QED  BY <1>2, <1>3 DEF IInv

LEMMA StutterInv == IInv /\ UNCHANGED vars => IInv'
<1> SUFFICES ASSUME IInv, UNCHANGED vars PROVE IInv'
  OBVIOUS
<1>1. /\ raw' = raw /\ cfg' = cfg /\ elems' = elems /\ it' = it /\ phase' = phase
      /\ wait' = wait /\ node' = node /\ abort' = abort
  BY DEF vars
<1>2. /\ Places' = Places /\ UsedKeys' = UsedKeys
      /\ \A j : Keys(j)' = Keys(j) /\ First(j)' = First(j)
      /\ \A p : KindAt(p)' = KindAt(p) /\ \A P : PubsOf(P)' = PubsOf(P)
  BY <1>1, SameData
<1>3. \A p : Subs(p)' = Subs(p) /\ Subscribed(p)' = Subscribed(p)
  BY <1>1, <1>2 DEF Subs, Subscribed
<1>4. At' = At /\ Before(it)' = Before(it) /\ Differ' = Differ  BY <1>1, <1>2 DEF At, Before, Differ
<1>5. TypeOK' /\ DataInv' /\ NodeType' /\ FeatsInv'
  BY <1>1 DEF IInv, TypeOK, DataInv, NodeType, FeatsInv, ModelsOf
<1>6. CurrentInv'  BY <1>1, <1>2, <1>4 DEF IInv, CurrentInv, Known, Binding
<1>7. KeysInv /\ BoundInv /\ PubsInv => (KeysInv /\ BoundInv /\ PubsInv)'
  BY <1>1, <1>2, <1>4 DEF KeysInv, BoundInv, PubsInv, ModelAt
<1>8. SubsInv => SubsInv'
  <2>1. Subs(At)' = Subs(At)  BY <1>1, <1>4 DEF Subs
  <2>2. First(it[2])' = First(it[2])  BY <1>1 DEF First
  <2> QED  BY <1>1, <1>2, <1>3, <1>4, <2>1, <2>2 DEF SubsInv
<1> QED  BY <1>1, <1>5, <1>6, <1>7, <1>8 DEF IInv, ToldInv

LEMMA NextInv == IInv /\ [Next]_vars => IInv'
<1> SUFFICES ASSUME IInv, [Next]_vars PROVE IInv'
  OBVIOUS
<1>1. CASE UNCHANGED vars  BY <1>1, StutterInv
<1>2. CASE abort = "no" /\ DcdStore  BY <1>2, DcdStoreInv
<1>3. CASE abort = "no" /\ Enter  BY <1>3, EnterInv
<1>4. CASE abort = "no" /\ Ack
  <2>1. phase \in {"addappkey", "bindappkey", "setpub", "addsub", "setconfig"}
    BY <1>4 DEF Ack, IInv, CurrentInv, Succ
  <2> QED  BY <1>4, <2>1, AckAppkey, AckBindappkey, AckSetpub, AckAddsub, AckSetconfig
<1>5. CASE abort = "no" /\ NoResources  BY <1>5, NoResourcesInv
<1>6. CASE abort = "no" /\ Refused  BY <1>6, RefusedInv
<1> QED  BY <1>1, <1>2, <1>3, <1>4, <1>5, <1>6 DEF Next

-----------------------------------------------------------------------------
(* Theorems *)

\* What a node has acknowledged is what is before the iterators, in every phase.
THEOREM ItemsInvariant == Spec => []IInv
<1>1. Init => IInv  BY InitInv
<1>2. IInv /\ [Next]_vars => IInv'  BY NextInv
<1> QED  BY <1>1, <1>2, PTL DEF Spec

\* While a request is out, its iterators are within the arrays that the request
\* functions and the *_inprg handlers read (dcd.elems, the bindings, the addresses).
THEOREM TypeCorrect == Spec => []TypeOK
<1>1. IInv => TypeOK  BY DEF IInv
<1> QED  BY <1>1, ItemsInvariant, PTL

\* __dcd_store finds every element, if its first loop counts them right: that is
\* what it takes, as the loop steps by the size of the first element.
THEOREM ElementsFound ==
  ASSUME \A r \in Compositions : Counted(r)
  PROVE  Spec => []AllElementsFound
<1>1. Init => AllElementsFound  BY DEF Init, AllElementsFound
<1>2. IInv /\ AllElementsFound /\ [Next]_vars => AllElementsFound'
  <2> SUFFICES ASSUME IInv, AllElementsFound, [Next]_vars PROVE AllElementsFound'
    OBVIOUS
  <2>1. raw \in Compositions /\ (wait => phase \in DOMAIN Succ)
    BY DEF IInv, DataInv, CurrentInv
  <2>2. CASE DcdStore
    <3>1. CASE phase' = "getdcd"  BY <3>1 DEF AllElementsFound
    <3>2. CASE phase' # "getdcd"
      <4>1. elems' = [e \in 1..Min(Counts(raw)) |-> Models(raw[e])] /\ raw' = raw
        BY <2>2, <3>2 DEF DcdStore
      <4>2. Min(Counts(raw)) = Len(raw) /\ Len(raw) \in Nat
        BY <2>1, ItemsAssumption DEF Counted
      <4> QED  BY <4>1, <4>2 DEF AllElementsFound
    <3> QED  BY <3>1, <3>2
  <2>3. CASE Enter \/ Ack \/ NoResources \/ Refused
    <3>1. phase # "getdcd" /\ raw' = raw /\ elems' = elems
      BY <2>1, <2>3 DEF Enter, Ack, NoResources, Refused, Succ
    <3> QED  BY <3>1 DEF AllElementsFound
  <2>4. CASE UNCHANGED vars  BY <2>4 DEF vars, AllElementsFound
  <2> QED  BY <2>2, <2>3, <2>4 DEF Next
<1> QED  BY <1>1, <1>2, ItemsInvariant, PTL DEF Spec

\* Then the places are those of the composition.
LEMMA PlacesWanted ==
  ASSUME IInv, AllElementsFound, phase # "getdcd"
  PROVE  Places = Wanted /\ \A p \in Places : KindAt(p) = Kind(p)
<1>1. /\ Len(elems) = Len(raw) /\ Len(raw) \in Nat
      /\ \A e \in 1..Len(elems) : elems[e] = Models(raw[e])
  BY ItemsAssumption DEF IInv, DataInv, AllElementsFound
<1>2. \A e \in 0..(Len(elems) - 1) : elems[e + 1] = Models(raw[e + 1])
  <2>1. \A e \in 0..(Len(elems) - 1) : e + 1 \in 1..Len(elems)  BY <1>1
  <2> QED  BY <1>1, <2>1
<1>3. Places = Wanted
  <2>1. \A e \in 0..(Len(elems) - 1) : {e} \X (0..ModelsOf(e) - 1)
                                         = {e} \X (0..Len(Models(raw[e + 1])) - 1)
    BY <1>2 DEF ModelsOf
  <2> QED  BY <1>1, <2>1 DEF Places, Wanted
<1>4. ASSUME NEW p \in Places PROVE KindAt(p) = Kind(p)
  <2>1. p[1] \in 0..(Len(elems) - 1)  BY <1>1, PlaceIs DEF IInv
  <2> QED  BY <1>2, <2>1 DEF KindAt, ModelAt, Kind
<1> QED  BY <1>3, <1>4

\* Every key, binding and publication that the configuration asks for, and the features,
\* are sent before a node is configured, and nothing else is: for any composition data
\* whose elements are counted right.
THEOREM EverythingSent ==
  ASSUME \A r \in Compositions : Counted(r)
  PROVE  Spec => []ConfiguredAsAsked
<1>1. IInv /\ AllElementsFound => ConfiguredAsAsked
  <2> SUFFICES ASSUME IInv, AllElementsFound, phase = "end"
               PROVE  /\ node.keys = UsedKeys
                      /\ node.bound = Wanted \X UsedKeys
                      /\ node.pubs = IF cfg.aki \in UsedKeys
                                       THEN {p \in Wanted : Publishes(p, Kind(p))} ELSE {}
                      /\ node.feats = cfg.target
    BY DEF ConfiguredAsAsked
  <2>1. abort = "no" /\ FeatsInv /\ ToldInv  BY DEF IInv, CurrentInv
  <2>2. /\ node.keys = UsedKeys /\ node.bound = Places \X UsedKeys
        /\ node.pubs = PubsOf(Places) /\ node.feats = cfg.target
    BY <2>1 DEF FeatsInv, ToldInv, KeysInv, BoundInv, PubsInv
  <2>3. Places = Wanted /\ \A p \in Places : KindAt(p) = Kind(p)  BY PlacesWanted
  <2>4. PubsOf(Places) = IF cfg.aki \in UsedKeys
                          THEN {p \in Wanted : Publishes(p, Kind(p))} ELSE {}
    BY <2>3 DEF PubsOf
  <2> QED  BY <2>2, <2>3, <2>4
<1> QED  BY <1>1, ItemsInvariant, ElementsFound, PTL

\* iter_addsub gives every model the addresses in order, and stops early only for a
\* model that cannot subscribe or that has no room left.
THEOREM SubscriptionsInOrder ==
  ASSUME \A r \in Compositions : Counted(r)
  PROVE  Spec => []SubsInOrder
<1>1. IInv /\ AllElementsFound => SubsInOrder
  <2> SUFFICES ASSUME IInv, AllElementsFound, phase = "end", NEW p \in Wanted
               PROVE  \E j \in 0..Len(cfg.subs) :
                        /\ SubSupported(Kind(p)) /\ p \notin node.full => j = Len(cfg.subs)
                        /\ {s[2] : s \in {q \in node.subs : q[1] = p}}
                             = {cfg.subs[i] : i \in 1..j}
    BY DEF SubsInOrder
  <2>1. p \in Places /\ KindAt(p) = Kind(p)  BY PlacesWanted
  <2>2. Subscribed(p)  BY <2>1 DEF IInv, CurrentInv, ToldInv, SubsInv
  <2> QED  BY <2>1, <2>2 DEF Subscribed, Subs, First
<1> QED  BY <1>1, ItemsInvariant, ElementsFound, PTL

\* A request that finds what it reads.
LEMMA NoProblem ==
  ASSUME IInv, AllElementsFound, phase \in DOMAIN Succ, Modelled(raw), NEW i \in [0..2 -> Nat],
         phase = "addappkey" => Known(Binding(i[0])),
         phase = "bindappkey" => Known(Binding(i[2])),
         phase = "setpub" => Known(cfg.aki),
         phase \in {"bindappkey", "setpub", "addsub"} =>
           i[0] < Len(elems) /\ (i[1] = 0 \/ i[1] < ModelsOf(i[0]))
  PROVE  Problem(i) = "no"
<1>1. phase \in {"addappkey", "bindappkey", "setpub", "addsub", "setconfig"}  BY DEF Succ
<1>2. ASSUME phase \in {"bindappkey", "setpub", "addsub"} PROVE ~(i[1] >= ModelsOf(i[0]))
  <2>1. /\ Len(elems) = Len(raw) /\ Len(raw) \in Nat /\ elems \in Seq(Seq(Kinds))
        /\ \A e \in 1..Len(elems) : elems[e] = Models(raw[e])
    BY <1>2, ItemsAssumption DEF IInv, DataInv, AllElementsFound
  <2>2. i[0] + 1 \in 1..Len(raw)  BY <1>2, <2>1
  <2>3. elems[i[0] + 1] # <<>> /\ elems[i[0] + 1] \in Seq(Kinds)
    BY <2>1, <2>2 DEF Modelled
  <2>4. ModelsOf(i[0]) \in Nat /\ ModelsOf(i[0]) > 0  BY <2>3 DEF ModelsOf
  <2> QED  BY <1>2, <2>4
<1>3. CASE phase \in {"addappkey", "setconfig"}  BY <1>3 DEF Problem
<1>4. CASE phase \in {"bindappkey", "setpub", "addsub"}  BY <1>2, <1>4 DEF Problem
<1> QED  BY <1>1, <1>3, <1>4

\* Neither the ASSERT on the key nor a read past an array ends the process, for any
\* number of elements, bindings and addresses, if the data are as Counted, Modelled
\* and Keyed say; later keys may well be unknown, and are passed over.
THEOREM NothingAborts ==
  ASSUME \A r \in Compositions : Counted(r) /\ Modelled(r), \A c \in Configs : Keyed(c)
  PROVE  Spec => [](abort = "no")
<1>1. Init => abort = "no"  BY DEF Init
<1>2. IInv /\ AllElementsFound /\ abort = "no" /\ [Next]_vars => (abort = "no")'
  <2> SUFFICES ASSUME IInv, AllElementsFound, abort = "no", [Next]_vars PROVE abort' = "no"
    OBVIOUS
  <2>1. DataInv /\ CurrentInv /\ it \in [0..2 -> Nat] /\ Modelled(raw) /\ Keyed(cfg)
    BY DEF IInv, TypeOK, DataInv
  <2>2. Len(cfg.bindings) \in Nat /\ Len(cfg.subs) \in Nat  BY <2>1, CfgType
  <2>3. /\ Len(cfg.bindings) > 0 => Known(Binding(0))
        /\ (\E k \in 1..Len(cfg.bindings) : cfg.bindings[k] = cfg.aki) => Known(cfg.aki)
    BY <2>1 DEF Keyed, Known, Binding
  <2>4. \A i : Request(i) => abort' = Problem(i)  BY DEF Request
  <2>5. NextPhase => abort' = "no"  BY DEF NextPhase
  <2>6. CASE DcdStore
    <3>1. Counts(raw) # {} /\ Min(Counts(raw)) = Len(raw) /\ Len(raw) \in Nat
      BY <2>1, ItemsAssumption DEF DataInv, Counted
    <3>2. ~(Min(Counts(raw)) > Len(raw))  BY <3>1
    <3> QED  BY <2>6, <3>1, <3>2 DEF DcdStore
  <2>7. CASE Enter
    <3>1. phase \in DOMAIN Succ /\ ~wait /\ IF Guard THEN Request(it) ELSE NextPhase
      BY <2>7 DEF Enter
    <3>2. CASE Guard
      <4>1. it = Zero /\ it[0] = 0 /\ it[1] = 0 /\ it[2] = 0
        BY <2>1, <3>1 DEF CurrentInv, Zero, Succ
      <4>2. phase = "addappkey" \/ phase = "bindappkey" => Len(cfg.bindings) > 0
        <5>1. phase = "addappkey" => Len(cfg.bindings) > 0  BY <3>2 DEF Guard
        <5>2. phase = "bindappkey" => Len(cfg.bindings) > 0  BY <3>2 DEF Guard
        <5> QED  BY <5>1, <5>2
      <4>3. phase = "setpub" => Known(cfg.aki)  BY <2>3, <3>2 DEF Guard
      <4>4. phase \in {"bindappkey", "setpub", "addsub"} => 0 < Len(elems)
        <5>1. raw \in Seq(Element) /\ (phase # "getdcd" => Len(elems) \in 1..Len(raw))
          BY <2>1, ItemsAssumption DEF DataInv, Element
        <5> QED  BY <2>1, <5>1, ElemsType
      <4>5. Problem(it) = "no"  BY <2>1, <2>3, <3>1, <4>1, <4>2, <4>3, <4>4, NoProblem
      <4> QED  BY <2>4, <3>1, <3>2, <4>5
    <3>3. CASE ~Guard  BY <2>5, <3>1, <3>3
    <3> QED  BY <3>2, <3>3
  <2>8. CASE Ack \/ NoResources
    <3>1. wait /\ phase \in DOMAIN Succ  BY <2>1, <2>8 DEF Ack, NoResources, CurrentInv
    <3>2. phase \in {"addappkey", "bindappkey", "setpub", "addsub", "setconfig"}
      BY <3>1 DEF Succ
    <3>3. phase \in {"bindappkey", "setpub", "addsub"} => AtPlace
      BY <2>1, <3>1 DEF IInv, TypeOK, AtPlace
    <3>4. CASE phase = "setconfig"
      <4>1. NextPhase \/ Request(it)  BY <2>8, <3>4 DEF Ack, NoResources
      <4>2. Problem(it) = "no"  BY <2>1, <3>1, <3>4, NoProblem
      <4> QED  BY <2>4, <2>5, <4>1, <4>2
    <3>5. CASE phase = "addappkey"
      <4>1. IF IterAppkey.done THEN NextPhase ELSE Request(IterAppkey.next)
        BY <2>8, <3>5 DEF Ack, Iter, NoResources
      <4>2. it[0] \in 0..(Len(cfg.bindings) - 1) /\ Known(Binding(it[0]))
        BY <2>1, <2>2, <3>1, <3>5 DEF IInv, TypeOK, CurrentInv
      <4>3. CASE NextKey(it[0]) # {}
        <5> DEFINE j == Min(NextKey(it[0]))
                   i == [it EXCEPT ![0] = j]
        <5>1. j \in Nat /\ Known(Binding(j))  BY <2>1, <2>2, <4>2, <4>3, NextKeyIs
        <5>2. IterAppkey = [next |-> i, done |-> FALSE]  BY <4>3 DEF IterAppkey, Goto
        <5> HIDE DEF j
        <5>3. i \in [0..2 -> Nat] /\ i[0] = j /\ Request(i)  BY <2>1, <4>1, <5>1, <5>2
        <5> HIDE DEF i
        <5>4. Problem(i) = "no"  BY <2>1, <3>1, <3>5, <5>1, <5>3, NoProblem
        <5> QED  BY <2>4, <5>3, <5>4
      <4>4. CASE NextKey(it[0]) = {}  BY <2>5, <4>1, <4>4 DEF IterAppkey, Done
      <4> QED  BY <4>3, <4>4
    <3>6. CASE phase = "bindappkey"
      <4> DEFINE n == IterBindings
      <4>1. IF n.done THEN NextPhase ELSE Request(n.next)
        BY <2>8, <3>6 DEF Ack, Iter, NoResources
      <4>2. it[2] \in 0..(Len(cfg.bindings) - 1) /\ Known(Binding(it[2])) /\ AtPlace
        BY <2>1, <2>2, <3>1, <3>3, <3>6 DEF IInv, TypeOK, CurrentInv
      <4>3. CASE NextKey(it[2]) # {}
        <5> DEFINE j == Min(NextKey(it[2]))
                   i == [it EXCEPT ![2] = j]
        <5>1. j \in Nat /\ Known(Binding(j))  BY <2>1, <2>2, <4>2, <4>3, NextKeyIs
        <5>2. IterBindings = [next |-> i, done |-> FALSE]  BY <4>3 DEF IterBindings, Goto
        <5> HIDE DEF j
        <5>3. i \in [0..2 -> Nat] /\ i[0] = it[0] /\ i[1] = it[1] /\ i[2] = j /\ Request(i)
          BY <2>1, <4>1, <5>1, <5>2
        <5> HIDE DEF i
        <5>4. Problem(i) = "no"  BY <2>1, <3>1, <3>6, <4>2, <5>1, <5>3, NoProblem DEF AtPlace
        <5> QED  BY <2>4, <5>3, <5>4
      <4>4. CASE NextKey(it[2]) = {}
        <5>1. ~n.done => /\ n.next \in [0..2 -> Nat] /\ n.next[0] < Len(elems) /\ n.next[2] = 0
                         /\ n.next[1] = 0 \/ n.next[1] < ModelsOf(n.next[0])
          BY <2>1, <4>2, <4>4, MoveIs
        <5>2. Known(Binding(0))  BY <2>2, <2>3, <4>2
        <5> HIDE DEF n
        <5>3. ~n.done => Problem(n.next) = "no"  BY <2>1, <3>1, <3>6, <5>1, <5>2, NoProblem
        <5> QED  BY <2>4, <2>5, <4>1, <5>3
      <4> QED  BY <4>3, <4>4
    <3>7. ASSUME NEW out, phase \in {"setpub", "addsub"},
                 IF Skip(out).done THEN NextPhase ELSE Request(Skip(out).next)
          PROVE  abort' = "no"
      <4> DEFINE n == Skip(out)
      <4>1. ~n.done => /\ n.next \in [0..2 -> Nat] /\ n.next[0] < Len(elems)
                       /\ n.next[1] = 0 \/ n.next[1] < ModelsOf(n.next[0])
        BY <2>1, <3>3, <3>7, SkipIs
      <4>2. phase = "setpub" => Known(cfg.aki)
        BY <2>1, <3>1 DEF CurrentInv, UsedKeys, Known
      <4>3. IF n.done THEN NextPhase ELSE Request(n.next)  BY <3>7
      <4> HIDE DEF n
      <4>4. ~n.done => Problem(n.next) = "no"  BY <2>1, <3>1, <3>7, <4>1, <4>2, NoProblem
      <4> QED  BY <2>4, <2>5, <4>3, <4>4
    <3>8. CASE phase = "setpub"
      <4>1. IF Skip(not_pub_models).done THEN NextPhase ELSE Request(Skip(not_pub_models).next)
        BY <2>8, <3>8 DEF Ack, Iter, NoResources, IterSetpub
      <4> QED  BY <3>7, <3>8, <4>1
    <3>9. CASE phase = "addsub"
      <4> DEFINE k == IF Ack THEN it[2] ELSE Len(cfg.subs) - 1
      <4>1. LET n == IterAddsub(k) IN IF n.done THEN NextPhase ELSE Request(n.next)
        BY <2>8, <3>9 DEF Ack, Iter, NoResources
      <4>2. CASE k + 1 = Len(cfg.subs)
        <5>1. IterAddsub(k) = Skip(not_sub_models)  BY <4>2 DEF IterAddsub
        <5> QED  BY <3>7, <3>9, <4>1, <5>1
      <4>3. CASE k + 1 # Len(cfg.subs)
        <5>1. k = it[2]  BY <2>2, <4>3
        <5> HIDE DEF k
        <5> DEFINE i == [it EXCEPT ![2] = k + 1]
        <5>2. IterAddsub(k) = [next |-> i, done |-> FALSE]  BY <4>3 DEF IterAddsub, Goto
        <5>3. Request(i)  BY <4>1, <5>2
        <5>4. i \in [0..2 -> Nat] /\ i[0] = it[0] /\ i[1] = it[1]  BY <2>1, <5>1
        <5> HIDE DEF i
        <5>5. Problem(i) = "no"  BY <2>1, <3>1, <3>3, <3>9, <5>4, NoProblem DEF AtPlace
        <5> QED  BY <2>4, <5>3, <5>5
      <4> QED  BY <4>2, <4>3
    <3> QED  BY <3>2, <3>4, <3>5, <3>6, <3>8, <3>9
  <2>9. CASE Refused \/ UNCHANGED vars  BY <2>9 DEF Refused, vars
  <2> QED  BY <2>6, <2>7, <2>8, <2>9 DEF Next
<1>3. Spec => []AllElementsFound  BY ElementsFound
<1> QED  BY <1>1, <1>2, <1>3, ItemsInvariant, PTL DEF Spec

-----------------------------------------------------------------------------
(* Only forward *)

\* Where the iterators go next is behind where they are.
LEMMA NextElementLater ==
  ASSUME DataInv, AtPlace
  PROVE  ~NextElement.done => Later(it, NextElement.next)
<1> DEFINE i == [j \in 0..2 |-> IF j = 0 THEN it[0] + 1 ELSE 0]
<1>1. it[0] \in Nat  BY DEF AtPlace
<1>2. CASE it[0] + 1 = Len(elems)  BY <1>2 DEF NextElement, Done
<1>3. CASE it[0] + 1 # Len(elems)
  <2>1. NextElement.next = i  BY <1>3 DEF NextElement, Goto
  <2>2. i[0] = it[0] + 1  OBVIOUS
  <2> HIDE DEF i
  <2>3. it[0] < i[0]  BY <1>1, <2>2
  <2> QED  BY <2>1, <2>3 DEF Later
<1> QED  BY <1>2, <1>3

LEMMA SkipLater ==
  ASSUME DataInv, AtPlace, NEW out
  PROVE  ~Skip(out).done => Later(it, Skip(out).next)
<1>1. it[0] \in Nat /\ it[1] \in Nat /\ ModelsOf(it[0]) \in Nat  BY AtIs
<1>2. CASE NextModel(out) # {}
  <2> DEFINE m == Min(NextModel(out))
             i == [it EXCEPT ![1] = m, ![2] = 0]
  <2>1. NextModel(out) \subseteq Nat  BY <1>1 DEF NextModel
  <2>2. m \in NextModel(out)  BY <1>2, <2>1, MinIs
  <2>3. Skip(out).next = i  BY <1>2 DEF Skip, Goto
  <2> HIDE DEF m
  <2>4. it[1] < m  BY <1>1, <2>2 DEF NextModel
  <2>5. i[0] = it[0] /\ i[1] = m  BY DEF AtPlace
  <2> HIDE DEF i
  <2>6. Later(it, i)  BY <2>4, <2>5 DEF Later
  <2> QED  BY <2>3, <2>6
<1>3. CASE NextModel(out) = {}
  <2>1. Skip(out) = NextElement  BY <1>3 DEF Skip
  <2> QED  BY <2>1, NextElementLater
<1> QED  BY <1>2, <1>3

\* One request after the other, in every phase but the last.
LEMMA IterLater ==
  ASSUME IInv, abort = "no", wait, phase # "setconfig", NEW k,
         k = it[2] \/ (phase = "addsub" /\ k + 1 = Len(cfg.subs))
  PROVE  ~Iter(k).done => Later(it, Iter(k).next)
<1>1. DataInv /\ it \in [0..2 -> Nat] /\ phase \in DOMAIN Succ
  BY DEF IInv, TypeOK, CurrentInv
<1>2. Len(cfg.bindings) \in Nat  BY <1>1, CfgType
<1>3. phase \in {"bindappkey", "setpub", "addsub"} => AtPlace
  BY <1>1 DEF IInv, TypeOK, AtPlace
<1>4. CASE phase = "addappkey"
  <2>1. Iter(k) = IterAppkey  BY <1>4 DEF Iter
  <2>2. it[0] \in 0..(Len(cfg.bindings) - 1) /\ Known(Binding(it[0]))
    BY <1>1, <1>2, <1>4 DEF IInv, TypeOK, CurrentInv
  <2>3. CASE NextKey(it[0]) # {}
    <3> DEFINE j == Min(NextKey(it[0]))
               i == [it EXCEPT ![0] = j]
    <3>1. j \in (it[0] + 1)..(Len(cfg.bindings) - 1)  BY <1>1, <2>2, <2>3, NextKeyIs
    <3>2. Iter(k).next = i  BY <2>1, <2>3 DEF IterAppkey, Goto
    <3> HIDE DEF j
    <3>3. i[0] = j  BY <1>1
    <3> HIDE DEF i
    <3>4. it[0] < i[0]  BY <1>1, <1>2, <3>1, <3>3
    <3> QED  BY <3>2, <3>4 DEF Later
  <2>4. CASE NextKey(it[0]) = {}  BY <2>1, <2>4 DEF IterAppkey, Done
  <2> QED  BY <2>3, <2>4
<1>5. CASE phase = "bindappkey"
  <2>1. Iter(k) = IterBindings  BY <1>5 DEF Iter
  <2>2. /\ it[2] \in 0..(Len(cfg.bindings) - 1) /\ Known(Binding(it[2]))
        /\ it[0] \in Nat /\ it[1] \in Nat /\ it[2] \in Nat
    BY <1>1, <1>2, <1>5 DEF IInv, TypeOK, CurrentInv
  <2>3. CASE NextKey(it[2]) # {}
    <3> DEFINE j == Min(NextKey(it[2]))
               i == [it EXCEPT ![2] = j]
    <3>1. j \in (it[2] + 1)..(Len(cfg.bindings) - 1)  BY <1>1, <2>2, <2>3, NextKeyIs
    <3>2. Iter(k).next = i  BY <2>1, <2>3 DEF IterBindings, Goto
    <3> HIDE DEF j
    <3>3. i[0] = it[0] /\ i[1] = it[1] /\ i[2] = j  BY <1>1
    <3> HIDE DEF i
    <3>4. it[2] < i[2]  BY <1>2, <2>2, <3>1, <3>3
    <3> QED  BY <3>2, <3>3, <3>4 DEF Later
  <2>4. CASE NextKey(it[2]) = {} /\ it[1] + 1 # ModelsOf(it[0])
    <3> DEFINE i == [it EXCEPT ![1] = @ + 1, ![2] = 0]
    <3>1. Iter(k).next = i  BY <2>1, <2>4 DEF IterBindings, Goto
    <3>2. i[0] = it[0] /\ i[1] = it[1] + 1  BY <1>1
    <3> HIDE DEF i
    <3>3. it[1] < i[1]  BY <2>2, <3>2
    <3> QED  BY <3>1, <3>2, <3>3 DEF Later
  <2>5. CASE NextKey(it[2]) = {} /\ it[1] + 1 = ModelsOf(it[0])
    <3>1. Iter(k) = NextElement  BY <2>1, <2>5 DEF IterBindings
    <3> QED  BY <1>1, <1>3, <1>5, <3>1, NextElementLater
  <2> QED  BY <2>3, <2>4, <2>5
<1>6. CASE phase = "setpub"
  <2>1. Iter(k) = Skip(not_pub_models)  BY <1>6 DEF Iter, IterSetpub
  <2> QED  BY <1>1, <1>3, <1>6, <2>1, SkipLater
<1>7. CASE phase = "addsub"
  <2>1. Iter(k) = IterAddsub(k)  BY <1>7 DEF Iter
  <2>2. CASE k + 1 = Len(cfg.subs)
    <3>1. Iter(k) = Skip(not_sub_models)  BY <2>1, <2>2 DEF IterAddsub
    <3> QED  BY <1>1, <1>3, <1>7, <3>1, SkipLater
  <2>3. CASE k + 1 # Len(cfg.subs)
    <3> DEFINE i == [it EXCEPT ![2] = k + 1]
    <3>1. k = it[2] /\ k \in Nat  BY <1>1, <2>3
    <3>2. Iter(k).next = i  BY <2>1, <2>3 DEF IterAddsub, Goto
    <3>3. i[0] = it[0] /\ i[1] = it[1] /\ i[2] = k + 1  BY <1>1
    <3> HIDE DEF i
    <3>4. it[2] < i[2]  BY <3>1, <3>3
    <3> QED  BY <3>2, <3>3, <3>4 DEF Later
  <2> QED  BY <2>2, <2>3
<1> QED  BY <1>1, <1>4, <1>5, <1>6, <1>7 DEF Succ

LEMMA PhaseRank ==
  ASSUME phase \in DOMAIN Succ, NextPhase
  PROVE  phase' # phase /\ Rank[phase] < Rank[phase']
BY DEF NextPhase, Succ, Rank

\* Every iterator (iter_appkey, iter_bindings, iter_setpub, iter_addsub and
\* __next_config_item) moves on with every answer, for any composition, bindings and
\* addresses, whether counted right or not.  As TypeOK bounds the iterators, the number of
\* requests to a node is bounded by its data: what Ends needs besides fairness.
THEOREM NeverBack == Spec => Forward
<1> DEFINE Step == IF phase' # phase THEN Rank[phase] < Rank[phase']
                   ELSE IF ~wait THEN it' = it /\ (wait' \/ abort' # "no")
                   ELSE IF phase = "setconfig" THEN Differ' \subseteq Differ /\ Differ' # Differ
                   ELSE Later(it, it')
<1>1. IInv /\ [Next]_vars => [Step]_vars
  <2> SUFFICES ASSUME IInv, Next PROVE Step
    OBVIOUS
  <2>1. abort = "no" /\ DataInv /\ CurrentInv /\ FeatsInv  BY DEF Next, IInv
  <2>2. CASE DcdStore
    <3>1. phase = "getdcd" /\ ~wait /\ it' = it
      BY <2>1, <2>2 DEF DcdStore, CurrentInv, Succ
    <3>2. phase' = "addappkey" \/ (phase' = phase /\ abort' # "no")  BY <2>2 DEF DcdStore
    <3> QED  BY <3>1, <3>2 DEF Rank, Succ
  <2>3. CASE Enter
    <3>1. /\ phase \in DOMAIN Succ /\ ~wait
          /\ Request(it) \/ NextPhase
      BY <2>3 DEF Enter
    <3>2. CASE Request(it)
      <4>1. it' = it /\ phase' = phase /\ (wait' \/ abort' # "no")  BY <3>2 DEF Request
      <4> QED  BY <3>1, <4>1
    <3>3. CASE NextPhase  BY <3>1, <3>3, PhaseRank
    <3> QED  BY <3>1, <3>2, <3>3
  <2>4. CASE Ack /\ phase = "setconfig"
    <3> DEFINE b == Min(Differ)
    <3>1. wait /\ phase \in DOMAIN Succ  BY <2>1, <2>4 DEF Ack, CurrentInv
    <3>2. CASE NextPhase  BY <3>1, <3>2, PhaseRank
    <3>3. CASE Request(it)
      <4>1. phase' = phase  BY <3>3 DEF Request
      <4>2. Differ # {} /\ Differ \subseteq Nat
        BY <2>1, <2>4, <3>1, CfgType DEF CurrentInv, FeatsInv, Differ
      <4>3. b \in Differ  BY <4>2, MinIs
      <4>4. cfg' = cfg /\ node' = [node EXCEPT !.feats =
                               IF b \in cfg.target THEN @ \cup {b} ELSE @ \ {b}]
        BY <2>4 DEF Ack, Told
      <4> HIDE DEF b
      <4>5. node'.feats = IF b \in cfg.target THEN node.feats \cup {b} ELSE node.feats \ {b}
        BY <4>4 DEF IInv, NodeType
      <4>6. Differ' = Differ \ {b}  BY <4>3, <4>4, <4>5 DEF Differ
      <4> QED  BY <2>4, <3>1, <4>1, <4>3, <4>6
    <3> QED  BY <2>4, <3>2, <3>3 DEF Ack
  <2>5. ASSUME NEW k, wait, phase # "setconfig",
               k = it[2] \/ (phase = "addsub" /\ k + 1 = Len(cfg.subs)),
               IF Iter(k).done THEN NextPhase ELSE Request(Iter(k).next)
        PROVE  Step
    <3>1. phase \in DOMAIN Succ  BY <2>1, <2>5 DEF CurrentInv
    <3>2. CASE NextPhase  BY <3>1, <3>2, PhaseRank
    <3>3. CASE ~Iter(k).done /\ Request(Iter(k).next)
      <4>1. phase' = phase /\ it' = Iter(k).next  BY <3>3 DEF Request
      <4>2. Later(it, Iter(k).next)  BY <2>1, <2>5, <3>3, IterLater
      <4> QED  BY <2>5, <4>1, <4>2
    <3> QED  BY <2>5, <3>2, <3>3
  <2>6. CASE Ack /\ phase # "setconfig"
    <3>1. wait /\ IF Iter(it[2]).done THEN NextPhase ELSE Request(Iter(it[2]).next)
      BY <2>6 DEF Ack
    <3> QED  BY <2>5, <2>6, <3>1
  <2>7. CASE NoResources
    <3> DEFINE k == Len(cfg.subs) - 1
    <3>1. phase = "addsub" /\ wait /\ Iter(k) = IterAddsub(k)
      BY <2>7 DEF NoResources, Iter
    <3>2. IF Iter(k).done THEN NextPhase ELSE Request(Iter(k).next)
      BY <2>7, <3>1 DEF NoResources
    <3>3. k + 1 = Len(cfg.subs)  BY <2>1, CfgType
    <3> QED  BY <2>5, <3>1, <3>2, <3>3
  <2>8. CASE Refused
    <3>1. phase = "addsub" /\ phase' = "failed"  BY <2>8 DEF Refused, Rejects
    <3> QED  BY <3>1 DEF Rank, Succ
  <2> QED  BY <2>2, <2>3, <2>4, <2>6, <2>7, <2>8 DEF Next
<1> QED  BY <1>1, ItemsInvariant, PTL DEF Spec, Forward

-----------------------------------------------------------------------------
(* Subscriptions that are refused *)

\* The first model of an element can subscribe.
LEMMA FirstCan ==
  ASSUME IInv, AllElementsFound, phase # "getdcd", SubFirst(raw),
         NEW e \in 0..(Len(elems) - 1), ModelsOf(e) > 0
  PROVE  CanSubscribe(ModelAt(e, 0))
<1>1. /\ Len(elems) = Len(raw) /\ Len(raw) \in Nat /\ elems \in Seq(Seq(Kinds))
      /\ \A x \in 1..Len(elems) : elems[x] = Models(raw[x])
  BY ItemsAssumption DEF IInv, DataInv, AllElementsFound
<1>2. e + 1 \in 1..Len(raw)  BY <1>1
<1>3. elems[e + 1] = Models(raw[e + 1]) /\ elems[e + 1] \in Seq(Kinds)  BY <1>1, <1>2
<1>4. elems[e + 1] # <<>>  BY <1>3 DEF ModelsOf
<1>5. CanSubscribe(Models(raw[e + 1])[1])  BY <1>2, <1>3, <1>4 DEF SubFirst
<1> QED  BY <1>3, <1>5 DEF ModelAt

\* Where iter_addsub goes, there is a model that can subscribe.
LEMMA SkipCan ==
  ASSUME IInv, AllElementsFound, phase = "addsub", SubFirst(raw), AtPlace,
         NEW n, n = Skip(not_sub_models), ~n.done, n.next[1] < ModelsOf(n.next[0])
  PROVE  CanSubscribe(ModelAt(n.next[0], n.next[1]))
<1>1. /\ it[0] \in Nat /\ it[1] \in Nat /\ ModelsOf(it[0]) \in Nat
      /\ Len(elems) \in Nat /\ it \in [0..2 -> Nat]
  BY AtIs DEF IInv, AtPlace
<1>2. CASE NextModel(not_sub_models) # {}
  <2> DEFINE m == Min(NextModel(not_sub_models))
             i == [it EXCEPT ![1] = m, ![2] = 0]
  <2>1. NextModel(not_sub_models) \subseteq Nat  BY <1>1 DEF NextModel
  <2>2. m \in NextModel(not_sub_models)  BY <1>2, <2>1, MinIs
  <2>3. n.next = i  BY <1>2 DEF Skip, Goto
  <2> HIDE DEF m
  <2>4. ModelAt(it[0], m) \notin not_sub_models  BY <2>2 DEF NextModel
  <2>5. i[0] = it[0] /\ i[1] = m  BY <1>1
  <2> HIDE DEF i
  <2> QED  BY <2>3, <2>4, <2>5 DEF CanSubscribe, not_sub_models
<1>3. CASE NextModel(not_sub_models) = {}
  <2>1. n = NextElement  BY <1>3 DEF Skip
  <2> DEFINE i == [j \in 0..2 |-> IF j = 0 THEN it[0] + 1 ELSE 0]
  <2>2. it[0] + 1 # Len(elems) /\ n.next = i  BY <2>1 DEF NextElement, Done, Goto
  <2>3. i[0] = it[0] + 1 /\ i[1] = 0  OBVIOUS
  <2> HIDE DEF i
  <2>4. it[0] + 1 \in 0..(Len(elems) - 1)  BY <1>1, <2>2 DEF AtPlace
  <2>5. ModelsOf(it[0] + 1) > 0
    <3>1. ModelsOf(it[0] + 1) \in Nat  BY <2>4, ElemsType DEF IInv
    <3> QED  BY <2>2, <2>3, <3>1
  <2>6. CanSubscribe(ModelAt(it[0] + 1, 0))  BY <2>4, <2>5, FirstCan
  <2> QED  BY <2>2, <2>3, <2>6
<1> QED  BY <1>2, <1>3

\* iter_addsub and as_addsub_entry ask no model for a subscription that it cannot have, so
\* that addsub_inprg sees no refusal, if the first model of each element can subscribe: the
\* iterator looks at the models behind it only.
THEOREM NoneRefused ==
  ASSUME \A r \in Compositions : Counted(r) /\ SubFirst(r)
  PROVE  Spec => [](OnlySupportedSubs /\ NeverRefused)
<1> DEFINE Inv == OnlySupportedSubs /\ NeverRefused
           Can == CanSubscribe(ModelAt(it[0], it[1]))
<1>1. Init => Inv  BY DEF Init, OnlySupportedSubs, NeverRefused
<1>2. IInv /\ IInv' /\ AllElementsFound /\ Inv /\ [Next]_vars => Inv'
  <2> SUFFICES ASSUME IInv, IInv', AllElementsFound, Inv, [Next]_vars
               PROVE  /\ phase' # "failed"
                      /\ phase' = "addsub" /\ wait' => Can'
    BY DEF OnlySupportedSubs, NeverRefused
  <2>1. /\ DataInv /\ CurrentInv /\ it \in [0..2 -> Nat] /\ SubFirst(raw)
        /\ phase # "failed"
        /\ phase = "addsub" /\ wait => Can /\ AtPlace
    BY DEF IInv, TypeOK, DataInv, OnlySupportedSubs, NeverRefused, AtPlace
  <2>2. UNCHANGED elems => Can' = CanSubscribe(ModelAt(it'[0], it'[1]))
    BY DEF ModelAt, CanSubscribe
  <2>3. ASSUME NextPhase, phase \in DOMAIN Succ
        PROVE  phase' # "failed" /\ ~wait'
    BY <2>3 DEF NextPhase, Succ
  <2>4. ASSUME NEW i, Request(i), UNCHANGED elems, phase \in DOMAIN Succ,
               phase = "addsub" /\ ~(i[1] >= ModelsOf(i[0])) =>
                 CanSubscribe(ModelAt(i[0], i[1]))
        PROVE  /\ phase' # "failed"
               /\ phase' = "addsub" /\ wait' => Can'
    <3>1. phase' = phase /\ it' = i /\ wait' = (Problem(i) = "no")  BY <2>4 DEF Request
    <3>2. ASSUME phase' = "addsub", wait' PROVE Can'
      <4>1. phase = "addsub" /\ Problem(i) = "no"  BY <3>1, <3>2
      <4>2. ~(i[1] >= ModelsOf(i[0]))  BY <4>1 DEF Problem
      <4>3. CanSubscribe(ModelAt(i[0], i[1]))  BY <2>4, <4>1, <4>2
      <4>4. Can' = CanSubscribe(ModelAt(i[0], i[1]))  BY <2>2, <2>4, <3>1
      <4> QED  BY <4>3, <4>4
    <3> QED  BY <2>1, <3>1, <3>2
  <2>5. CASE DcdStore
    BY <2>5 DEF DcdStore
  <2>6. CASE abort = "no" /\ Enter
    <3>1. /\ phase \in DOMAIN Succ /\ ~wait /\ UNCHANGED elems
          /\ Request(it) \/ NextPhase
      BY <2>6 DEF Enter
    <3>2. CASE Request(it)
      <4>1. it[0] = 0 /\ it[1] = 0
        BY <2>1, <2>6, <3>1 DEF CurrentInv, Zero, Succ
      <4>2. ASSUME phase = "addsub", ~(it[1] >= ModelsOf(it[0]))
            PROVE  CanSubscribe(ModelAt(it[0], it[1]))
        <5>1. Len(elems) \in 1..Len(raw) /\ Len(raw) \in Nat
          BY <2>1, <4>2, ItemsAssumption DEF DataInv
        <5>2. 0 \in 0..(Len(elems) - 1)  BY <5>1
        <5>3. ModelsOf(0) \in Nat  BY <2>1, <5>2, ElemsType
        <5>4. ModelsOf(0) > 0  BY <4>1, <4>2, <5>3
        <5>5. CanSubscribe(ModelAt(0, 0))  BY <2>1, <4>2, <5>2, <5>4, FirstCan
        <5> QED  BY <4>1, <5>5
      <4> QED  BY <2>4, <3>1, <3>2, <4>2
    <3> QED  BY <2>3, <3>1, <3>2
  <2>7. CASE (Ack \/ NoResources) /\ phase # "addsub"
    <3>1. wait /\ phase \in DOMAIN Succ  BY <2>1, <2>7 DEF Ack, NoResources, CurrentInv
    <3>2. NextPhase \/ \E i : Request(i)  BY <2>7 DEF Ack, NoResources
    <3>3. (\E i : Request(i)) => phase' = phase  BY DEF Request
    <3> QED  BY <2>1, <2>3, <2>7, <3>1, <3>2, <3>3
  <2>8. CASE (Ack \/ NoResources) /\ phase = "addsub"
    <3>1. wait /\ phase \in DOMAIN Succ /\ UNCHANGED elems
      BY <2>1, <2>8 DEF Ack, NoResources, CurrentInv
    <3>2. AtPlace /\ CanSubscribe(ModelAt(it[0], it[1]))  BY <2>1, <2>8, <3>1
    <3>3. PICK k \in {it[2], Len(cfg.subs) - 1} :
            IF IterAddsub(k).done THEN NextPhase ELSE Request(IterAddsub(k).next)
      BY <2>8 DEF Ack, NoResources, Iter
    <3>4. CASE IterAddsub(k).done  BY <2>3, <3>1, <3>3, <3>4
    <3>5. CASE ~IterAddsub(k).done
      <4> DEFINE i == IterAddsub(k).next
      <4>1. Request(i)  BY <3>3, <3>5
      <4>2. ASSUME ~(i[1] >= ModelsOf(i[0])) PROVE CanSubscribe(ModelAt(i[0], i[1]))
        <5>1. CASE k + 1 # Len(cfg.subs)
          <6>1. i = [it EXCEPT ![2] = k + 1]  BY <5>1 DEF IterAddsub, Goto
          <6> HIDE DEF i
          <6>2. i[0] = it[0] /\ i[1] = it[1]  BY <2>1, <6>1
          <6> QED  BY <3>2, <6>2
        <5>2. CASE k + 1 = Len(cfg.subs)
          <6>1. IterAddsub(k) = Skip(not_sub_models)  BY <5>2 DEF IterAddsub
          <6> DEFINE n == Skip(not_sub_models)
          <6>2. n.next = i /\ ~n.done  BY <3>5, <6>1
          <6>3. /\ i \in [0..2 -> Nat] /\ i[0] < Len(elems)
            BY <2>1, <3>2, <6>2, SkipIs
          <6> HIDE DEF n, i
          <6>4. Len(elems) \in Nat  BY <2>1, ElemsType
          <6>5. i[0] \in 0..(Len(elems) - 1) /\ i[1] \in Nat  BY <6>3, <6>4
          <6>6. ModelsOf(i[0]) \in Nat  BY <2>1, <6>5, ElemsType
          <6>7. i[1] < ModelsOf(i[0])  BY <4>2, <6>5, <6>6
          <6> QED  BY <2>1, <2>8, <3>2, <6>2, <6>7, SkipCan DEF n
        <5> QED  BY <5>1, <5>2
      <4> HIDE DEF i
      <4> QED  BY <2>4, <3>1, <4>1, <4>2
    <3> QED  BY <3>4, <3>5
  <2>9. CASE Refused
    <3>1. phase = "addsub" /\ wait /\ ~CanSubscribe(ModelAt(it[0], it[1]))
      BY <2>9 DEF Refused, Rejects
    <3> QED  BY <2>1, <3>1
  <2>10. CASE UNCHANGED vars
    <3>1. UNCHANGED <<phase, wait, it, elems>>  BY <2>10 DEF vars
    <3> QED  BY <2>1, <2>2, <3>1
  <2> QED  BY <2>5, <2>6, <2>7, <2>8, <2>9, <2>10 DEF Next
<1>3. Spec => []AllElementsFound  BY ElementsFound
<1> QED  BY <1>1, <1>2, <1>3, ItemsInvariant, PTL DEF Spec
=============================================================================
