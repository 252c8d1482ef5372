------------------------------ MODULE AsItems -------------------------------
(***************************************************************************)
(* What one slot of the configuration engine sends to its node, and in     *)
(* which order: the composition data (as_getdcd.c) and the iterators of    *)
(* the phases as_addappkey.c, as_bindappkey.c, as_setpub.c, as_addsub.c    *)
(* and as_setconfig.c.  Timeouts, retries and out-of-memory, which send    *)
(* the same item again, are in AccEngine.                                  *)
(*                                                                         *)
(* Models are told apart as far as the code does: "cfg" are the two        *)
(* configuration models, which are left out; "setup" is a model of         *)
(* not_pub_models; "time" is in not_sub_models, too; "std" is any other    *)
(* SIG model and "ven" a vendor model.  "vsetup" and "vtime" are vendor    *)
(* models whose vendor gave them the number of a "setup" or a "time".      *)
(***************************************************************************)
EXTENDS Integers, Sequences, FiniteSets, FiniteSetsExt

CONSTANTS
  Compositions,  \* composition data of the nodes: sequences of [sig, ven]
  Configs,       \* configurations: [bindings, known, aki, subs, target, current]
  Full           \* the node may run out of space for subscriptions

SigModels == {"cfg", "std", "setup", "time"}
VenModels == {"ven", "vsetup", "vtime"}

\* Keys and addresses are numbers, features are bits.
ASSUME ItemsAssumption ==
  /\ \A r \in Compositions : /\ r \in Seq([sig : Seq(SigModels), ven : Seq(VenModels)])
                             /\ r # <<>>
  /\ \A c \in Configs : /\ c.bindings \in Seq(Nat) /\ c.subs \in Seq(Nat)
                        /\ c.known \subseteq Nat /\ c.aki \in Nat
                        /\ IsFiniteSet(c.target) /\ c.target \subseteq Nat
                        /\ IsFiniteSet(c.current) /\ c.current \subseteq Nat
  /\ Full \in BOOLEAN

VARIABLES
  raw,    \* the composition of the node
  cfg,    \* node->config, and the app keys that exist (known)
  elems,  \* cache->dcd.elems: the models of each element
  it,     \* cache->iterators
  phase,  \* cache->state
  wait,   \* WAIT_RESPONSE
  node,   \* what the node has acknowledged, and the models that it reported full
  abort   \* what ended the process

vars == <<raw, cfg, elems, it, phase, wait, node, abort>>

-----------------------------------------------------------------------------
(* __dcd_store *)

Bytes(e) == 2 * Len(e.sig) + 4 * Len(e.ven)

\* Length of the composition data: 10 bytes, then per element its location, the
\* two numbers and the models.
DataLen(r) == 10 + MapThenSumSet(LAMBDA e : 4 + Bytes(r[e]), 1..Len(r))

\* The first loop: i is a uint8_t and each round skips what the FIRST element has.
Counts(r) == {c \in 1..255 : (14 + c * Bytes(r[1])) % 256 >= DataLen(r)}

\* The second loop: the models of an element, without the configuration models.
Models(e) ==
  LET kept[n \in 0..Len(e.sig)] == IF n = 0 THEN <<>>
                                   ELSE IF e.sig[n] = "cfg" THEN kept[n - 1]
                                   ELSE Append(kept[n - 1], e.sig[n])
  IN  kept[Len(e.sig)] \o e.ven

DcdStore ==
  /\ phase = "getdcd"
  /\ IF Counts(raw) = {}
       THEN abort' = "endless loop" /\ UNCHANGED <<elems, phase>>
     ELSE IF Min(Counts(raw)) > Len(raw)
       THEN abort' = "past the data" /\ UNCHANGED <<elems, phase>>
     ELSE /\ elems' = [e \in 1..Min(Counts(raw)) |-> Models(raw[e])]
          /\ phase' = "addappkey"
          /\ UNCHANGED abort
  /\ UNCHANGED <<raw, cfg, it, wait, node>>

-----------------------------------------------------------------------------
(* Iterators *)

\* Indexes as the code has them, from 0.
Binding(k) == cfg.bindings[k + 1]
ModelsOf(e) == Len(elems[e + 1])
ModelAt(e, m) == elems[e + 1][m + 1]

\* appkey_by_refid
Known(refid) == refid \in cfg.known

\* __pub_supported, __sub_supported: the lists hold numbers of SIG models; of a vendor
\* model the code compares the number, too, without the vendor.
not_pub_models == {"setup", "time", "vsetup", "vtime"}
not_sub_models == {"time", "vtime"}
PubSupported(x) == x \notin not_pub_models
SubSupported(x) == x \notin not_sub_models

\* What the models of the node can do.
CanPublish(x) == x \notin {"setup", "time"}
CanSubscribe(x) == x # "time"

Zero == [i \in 0..2 |-> 0]
Done == [next |-> Zero, done |-> TRUE]
Goto(i) == [next |-> i, done |-> FALSE]

\* The first key behind k that exists, or none.
NextKey(k) == {j \in k + 1..Len(cfg.bindings) - 1 :
                 Known(Binding(j)) /\ \A q \in k + 1..j - 1 : ~Known(Binding(q))}

\* Mutant: the search starts from the first key again.
IterAppkey_FromStart ==
  IF NextKey(0) # {} THEN Goto([it EXCEPT ![0] = Min(NextKey(0))]) ELSE Done

\* iter_appkey
IterAppkey ==
  IF NextKey(it[0]) # {} THEN Goto([it EXCEPT ![0] = Min(NextKey(it[0]))]) ELSE Done

\* The first model of the next element.
NextElement ==
  IF it[0] + 1 = Len(elems) THEN Done ELSE Goto([i \in 0..2 |-> IF i = 0 THEN it[0] + 1 ELSE 0])

\* Mutant: the last model of an element is left out.
IterBindings_LastModel ==
  IF NextKey(it[2]) # {} THEN Goto([it EXCEPT ![2] = Min(NextKey(it[2]))])
  ELSE IF it[1] + 2 < ModelsOf(it[0]) THEN Goto([it EXCEPT ![1] = @ + 1, ![2] = 0])
  ELSE NextElement

\* iter_bindings: keys, then models, then elements
IterBindings ==
  IF NextKey(it[2]) # {} THEN Goto([it EXCEPT ![2] = Min(NextKey(it[2]))])
  ELSE IF it[1] + 1 # ModelsOf(it[0]) THEN Goto([it EXCEPT ![1] = @ + 1, ![2] = 0])
  ELSE NextElement

\* The first model behind the current one that is not left out, in the same element.
NextModel(out) ==
  {m \in it[1] + 1..ModelsOf(it[0]) - 1 :
     ModelAt(it[0], m) \notin out /\ \A q \in it[1] + 1..m - 1 : ModelAt(it[0], q) \in out}

Skip(out) ==
  IF NextModel(out) # {} THEN Goto([it EXCEPT ![1] = Min(NextModel(out)), ![2] = 0])
  ELSE NextElement

\* iter_setpub
IterSetpub == Skip(not_pub_models)

\* Mutant: the iterator of the addresses is not set back for the next model.
IterAddsub_NoReset(i) ==
  IF i + 1 # Len(cfg.subs) THEN Goto([it EXCEPT ![2] = i + 1])
  ELSE LET n == Skip(not_sub_models) IN
       IF n.done THEN n ELSE [n EXCEPT !.next[2] = i]

\* Mutant: off by one, an address behind the last one.
IterAddsub_OffByOne(i) ==
  IF i # Len(cfg.subs) THEN Goto([it EXCEPT ![2] = i + 1]) ELSE Skip(not_sub_models)

\* iter_addsub; i is the current address, the last one if the node is full
IterAddsub(i) ==
  IF i + 1 # Len(cfg.subs) THEN Goto([it EXCEPT ![2] = i + 1]) ELSE Skip(not_sub_models)

\* __next_config_item: the lowest feature bit that differs
Differ == (cfg.target \ node.feats) \cup (node.feats \ cfg.target)

-----------------------------------------------------------------------------
(* Phases *)

Succ == [addappkey |-> "bindappkey", bindappkey |-> "setpub", setpub |-> "addsub",
         addsub |-> "setconfig", setconfig |-> "end"]

\* as_*_guard
Guard ==
  CASE phase \in {"addappkey", "bindappkey"} -> Len(cfg.bindings) > 0
    [] phase = "setpub" -> \E k \in 1..Len(cfg.bindings) : cfg.bindings[k] = cfg.aki
    [] phase = "addsub" -> Len(cfg.subs) > 0
    [] phase = "setconfig" -> Differ # {}

\* The request functions: the ASSERT that the key exists, and the model that is read.
Problem(i) ==
  CASE phase = "addappkey" /\ ~Known(Binding(i[0])) -> "unknown key"
    [] phase = "bindappkey" /\ ~Known(Binding(i[2])) -> "unknown key"
    [] phase = "setpub" /\ ~Known(cfg.aki) -> "unknown key"
    [] phase \in {"bindappkey", "setpub", "addsub"} /\ i[1] >= ModelsOf(i[0]) -> "no such model"
    [] OTHER -> "no"

Request(i) ==
  /\ it' = i
  /\ wait' = (Problem(i) = "no") /\ abort' = Problem(i)
  /\ UNCHANGED phase

NextPhase ==
  it' = Zero /\ wait' = FALSE /\ phase' = Succ[phase] /\ UNCHANGED abort

\* as_*_entry
Enter ==
  /\ phase \in DOMAIN Succ /\ ~wait
  /\ IF Guard THEN Request(it) ELSE NextPhase
  /\ UNCHANGED <<raw, cfg, elems, node>>

\* The node after it has acknowledged the current request.
At == <<it[0], it[1]>>
Told ==
  CASE phase = "addappkey"  -> [node EXCEPT !.keys = @ \cup {Binding(it[0])}]
    [] phase = "bindappkey" -> [node EXCEPT !.bound = @ \cup {<<At, Binding(it[2])>>}]
    [] phase = "setpub"     -> [node EXCEPT !.pubs =
                                  IF CanPublish(ModelAt(it[0], it[1])) THEN @ \cup {At} ELSE @]
    [] phase = "addsub"     ->     \* the first address overwrites, the others are added
         [node EXCEPT !.subs = (IF it[2] = 0 THEN {s \in @ : s[1] # At} ELSE @)
                               \cup {<<At, cfg.subs[it[2] + 1]>>}]
    [] phase = "setconfig"  -> LET b == Min(Differ) IN
         [node EXCEPT !.feats = IF b \in cfg.target THEN @ \cup {b} ELSE @ \ {b}]

\* The node cannot have the subscription.
Rejects == phase = "addsub" /\ ~CanSubscribe(ModelAt(it[0], it[1]))

Iter(i) ==
  CASE phase = "addappkey"  -> IterAppkey
    [] phase = "bindappkey" -> IterBindings
    [] phase = "setpub"     -> IterSetpub
    [] phase = "addsub"     -> IterAddsub(i)

\* *_inprg: the request succeeded; the next one, or the next phase.
Ack ==
  /\ wait /\ ~Rejects
  /\ node' = Told
  /\ IF phase = "setconfig"
       THEN IF Cardinality(Differ) = 1 THEN NextPhase ELSE Request(it)
       ELSE IF Iter(it[2]).done THEN NextPhase ELSE Request(Iter(it[2]).next)
  /\ UNCHANGED <<raw, cfg, elems>>

\* addsub_inprg: insufficient resources, the other addresses are skipped.
NoResources ==
  /\ Full /\ wait /\ phase = "addsub" /\ ~Rejects
  /\ LET n == IterAddsub(Len(cfg.subs) - 1) IN
     IF n.done THEN NextPhase ELSE Request(n.next)
  /\ node' = [node EXCEPT !.full = @ \cup {At}]
  /\ UNCHANGED <<raw, cfg, elems>>

\* Any other result ends the node.
Refused ==
  /\ wait /\ Rejects
  /\ phase' = "failed" /\ wait' = FALSE
  /\ UNCHANGED <<raw, cfg, elems, it, node, abort>>

-----------------------------------------------------------------------------
Init ==
  /\ raw \in Compositions /\ cfg \in Configs
  /\ elems = <<>> /\ it = Zero /\ phase = "getdcd" /\ wait = FALSE
  /\ node = [keys |-> {}, bound |-> {}, pubs |-> {}, subs |-> {}, full |-> {},
             feats |-> cfg.current]
  /\ abort = "no"

Next == abort = "no" /\ (DcdStore \/ Enter \/ Ack \/ NoResources \/ Refused)

Spec == Init /\ [][Next]_vars

\* The engine goes on, and the node answers.
FairSpec == Spec /\ WF_vars(Next)

-----------------------------------------------------------------------------
(* Properties *)

\* Types: while a request is out, the iterators are within the arrays that they
\* index (the request functions and the *_inprg handlers read there).
TypeOK ==
  /\ phase \in {"getdcd", "end", "failed"} \cup DOMAIN Succ
  /\ it \in [0..2 -> Nat] /\ wait \in BOOLEAN
  /\ wait /\ phase = "addappkey" => it[0] < Len(cfg.bindings)
  /\ wait /\ phase \in {"bindappkey", "setpub", "addsub"} =>
       it[0] < Len(elems) /\ it[1] < ModelsOf(it[0])
  /\ wait /\ phase = "bindappkey" => it[2] < Len(cfg.bindings)
  /\ wait /\ phase = "addsub" => it[2] < Len(cfg.subs)
  /\ abort \in {"no", "endless loop", "past the data", "unknown key", "no such model"}

\* The models of the node that are configured, as the composition lists them.
Wanted == UNION {{e} \X (0..Len(Models(raw[e + 1])) - 1) : e \in 0..Len(raw) - 1}
Kind(p) == Models(raw[p[1] + 1])[p[2] + 1]
UsedKeys == {k \in cfg.known : \E b \in 1..Len(cfg.bindings) : cfg.bindings[b] = k}

\* A model of kind x at p gets the publication: iter_setpub comes to it, which it does
\* to the first model of an element whatever it is, and it can publish.
Publishes(p, x) == CanPublish(x) /\ (PubSupported(x) \/ p[2] = 0)

\* A node that reaches the end has been told everything its configuration asks
\* for: every existing key, bound to every model, the publication of every model
\* that can publish and is not passed over, and the features; no more and no less.
ConfiguredAsAsked ==
  phase = "end" =>
    /\ node.keys = UsedKeys
    /\ node.bound = Wanted \X UsedKeys
    /\ node.pubs = IF cfg.aki \in UsedKeys THEN {p \in Wanted : Publishes(p, Kind(p))} ELSE {}
    /\ node.feats = cfg.target

\* Every model's subscriptions are the first ones of the list, and all of them
\* unless the model is passed over or the node reported that it is full: iter_addsub
\* neither skips nor repeats an address, and a model that is full does not cost
\* the next one any.
SubsInOrder ==
  phase = "end" =>
    \A p \in Wanted : \E j \in 0..Len(cfg.subs) :
      /\ SubSupported(Kind(p)) /\ p \notin node.full => j = Len(cfg.subs)
      /\ {s[2] : s \in {q \in node.subs : q[1] = p}} = {cfg.subs[i] : i \in 1..j}

\* Every phase comes to its end.
Ends == <>(phase \in {"end", "failed"})

\* The ASSERT of the request functions: the key exists.
KeyExists == abort # "unknown key"

\* The first loop finds the elements of r, as it does if they do not differ much in
\* their bytes.
Counted(r) == Counts(r) # {} /\ Min(Counts(r)) = Len(r)

\* What the request functions take for granted: every element has a model besides the
\* configuration models, the key of the first binding exists, and so does the key of
\* the publication if it is bound.
Modelled(r) == \A e \in 1..Len(r) : Models(r[e]) # <<>>
Keyed(c) == /\ Len(c.bindings) > 0 => c.bindings[1] \in c.known
            /\ (\E k \in 1..Len(c.bindings) : c.bindings[k] = c.aki) => c.aki \in c.known

\* All elements of the node are found in its composition data.
AllElementsFound == phase \notin {"getdcd"} => Len(elems) = Len(raw)

\* A model that cannot subscribe is passed over ("doesn't support Sub, pass").
OnlySupportedSubs == phase = "addsub" /\ wait => CanSubscribe(ModelAt(it[0], it[1]))

\* What iter_addsub takes for granted, since it passes over later models only: the
\* first model of each element can subscribe.
SubFirst(r) == \A e \in 1..Len(r) : Models(r[e]) # <<>> => CanSubscribe(Models(r[e])[1])

\* The node refuses no subscription.
NeverRefused == phase # "failed"

Rank == [p \in {"getdcd", "end", "failed"} \cup DOMAIN Succ |->
           CASE p = "getdcd"     -> 0
             [] p = "addappkey"  -> 1
             [] p = "bindappkey" -> 2
             [] p = "setpub"     -> 3
             [] p = "addsub"     -> 4
             [] p = "setconfig"  -> 5
             [] OTHER            -> 6]

\* Iterators j are further than i.
Later(i, j) ==
  \/ i[0] < j[0]
  \/ i[0] = j[0] /\ i[1] < j[1]
  \/ i[0] = j[0] /\ i[1] = j[1] /\ i[2] < j[2]

\* Nothing is sent twice, and no step goes back: a step ends a phase, sends its first
\* request, moves the iterators on, or leaves one feature less to be set.
Forward ==
  [][IF phase' # phase THEN Rank[phase] < Rank[phase']
     ELSE IF ~wait THEN it' = it /\ (wait' \/ abort' # "no")
     ELSE IF phase = "setconfig" THEN Differ' \subseteq Differ /\ Differ' # Differ
     ELSE Later(it, it')]_vars
=============================================================================
