-------------------------- MODULE AccEngineProofs ---------------------------
(***************************************************************************)
(* Proofs about the configuration engine, for any number of nodes, slots,  *)
(* retries and requests.                                                   *)
(***************************************************************************)
EXTENDS AccEngine, FiniteSetTheorems, TLAPS

Results == {"ok", "oom", "api"}
Answers == {"none", "data", "status", "lost"}
Aborts  == {"no", "oom while waiting", "retry budget", "no cache for handle", "freed"}

USE DEF to_next, provisioned, get_dcd, addappkey, bindappkey, setpub, addsub,
        setconfig, end, rm, rmend, Phases

-----------------------------------------------------------------------------
(* The operators on one slot *)

\* A slot that is reset by __cache_reset is a slot.
LEMMA FreeCacheType == /\ FreeCache \in Cache
                       /\ FreeCache.node = None /\ FreeCache.timer = "off" /\ ~FreeCache.oom
BY DEF FreeCache, Cache

\* __cache_item_load fills the slot and starts nothing.
LEMMA ItemLoadType ==
  ASSUME NEW n \in Nodes, NEW type
  PROVE  LET c == ItemLoad(n, type) IN
         c \in Cache /\ c.node = n /\ c.timer = "off" /\ ~c.oom
<1> DEFINE c == ItemLoad(n, type)
           q == IF type = "config" THEN provisioned ELSE end
           x == IF type = "config" THEN get_dcd ELSE rm
<1>1. c = [FreeCache EXCEPT !.node = n, !.state = q, !.next = x]
  BY DEF ItemLoad
<1>2. q \in provisioned..rm /\ x \in get_dcd..rmend  OBVIOUS
<1> HIDE DEF c, q, x
<1>3. c \in Cache /\ c.node = n /\ c.timer = "off" /\ ~c.oom
  BY <1>1, <1>2 DEF FreeCache, Cache
<1> QED  BY <1>3 DEF c

\* err_set_to_end keeps the node and the state and drops the control flags.
LEMMA ErrSetToType ==
  ASSUME NEW c \in Cache, NEW s \in get_dcd..rmend
  PROVE  LET d == ErrSetTo(c, s) IN
         /\ d \in Cache /\ d.node = c.node /\ d.state = c.state /\ d.next = s
         /\ d.timer = "off" /\ ~d.oom /\ ~d.wait
BY DEF ErrSetTo, Cache

\* A request keeps the node and the state.
LEMMA SendType ==
  ASSUME NEW c \in Cache, NEW p \in Phases, NEW r \in Results
  PROVE  LET d == Send(c, p, r) IN
         /\ d \in Cache /\ d.node = c.node /\ d.state = c.state
         /\ r # "api" => d.next = c.next /\ d.rem = c.rem
<1>1. CASE r = "ok"   BY <1>1 DEF Send, Cache
<1>2. CASE r = "oom"  BY <1>2 DEF Send, Cache
<1>3. CASE r = "api"
  <2>1. EndOf(p) \in get_dcd..rmend  BY DEF EndOf
  <2>2. Send(c, p, r) = ErrSetTo(c, EndOf(p))  BY <1>3 DEF Send
  <2> QED  BY <1>3, <2>1, <2>2, ErrSetToType
<1> QED  BY <1>1, <1>2, <1>3 DEF Results

\* So does a retry; it is charged to the budget only while there is one.
LEMMA RetryType ==
  ASSUME NEW c \in Cache, c.state \in Phases, NEW r \in Results,
         NEW reason \in {"timeout", "oom", "expired"},
         r = "ok" /\ reason = "timeout" => c.rem > 0
  PROVE  LET d == Retry(c, r, reason) IN
         d \in Cache /\ d.node = c.node /\ d.state = c.state
<1> DEFINE s == Send(c, c.state, r)
<1>1. s \in Cache /\ s.node = c.node /\ s.state = c.state
      /\ (r # "api" => s.rem = c.rem)
  BY SendType
<1>2. CASE r # "ok"  BY <1>1, <1>2 DEF Retry
<1>3. CASE r = "ok" /\ reason = "timeout"
  <2>1. Retry(c, r, reason) = [s EXCEPT !.rem = s.rem - 1]  BY <1>3 DEF Retry
  <2>2. s.rem - 1 \in Nat  BY <1>1, <1>3 DEF Cache
  <2> HIDE DEF s
  <2> QED  BY <1>1, <2>1, <2>2 DEF Cache
<1>4. CASE r = "ok" /\ reason = "oom"
  <2>1. Retry(c, r, reason) = [s EXCEPT !.oom = FALSE]  BY <1>4 DEF Retry
  <2> HIDE DEF s
  <2> QED  BY <1>1, <2>1 DEF Cache
<1>5. CASE r = "ok" /\ reason = "expired"
  <2>1. Retry(c, r, reason) = [s EXCEPT !.timer = "off"]  BY <1>5 DEF Retry
  <2> HIDE DEF s
  <2> QED  BY <1>1, <2>1 DEF Cache
<1> QED  BY <1>2, <1>3, <1>4, <1>5

\* to_next_state always finds a state to enter, and it lies ahead, but never
\* beyond the end of the configuration when that lies ahead.
LEMMA NextStateAhead ==
  ASSUME NEW c \in Cache, c.node \in Nodes
  PROVE  LET from == IF c.next = to_next THEN c.state + 1 ELSE c.next IN
         /\ NextState(c) \in from..rmend /\ from \in get_dcd..rmend
         /\ \A q \in from..(NextState(c) - 1) : ~Guard(c.node, q)
         /\ from <= end => NextState(c) <= end
<1> DEFINE from == IF c.next = to_next THEN c.state + 1 ELSE c.next
           G(p) == Guard(c.node, p)
           First(p) == G(p) /\ \A q \in from..(p - 1) : ~G(q)
<1>1. from \in get_dcd..rmend  BY DEF Cache
<1>2. G(end) /\ G(rmend)  BY DEF Guard
<1> HIDE DEF from, G
<1>3. \E p \in from..rmend : First(p)
  <2>1. from \in 2..10  BY <1>1
  <2> SUFFICES ASSUME \A p \in from..10 : ~First(p) PROVE FALSE  OBVIOUS
  <2>2. from = 10 \/ from = 9 \/ from <= 8  BY <2>1
  <2>3. \A p \in from..10 : (\A q \in from..(p - 1) : ~G(q)) => ~G(p)  OBVIOUS
  <2>4. CASE from <= 8  
    <3>1. from \in {2,3,4,5,6,7,8}  BY <2>1, <2>4
    <3>2. 2 >= from => ~G(2)  BY <2>3, <2>1
    <3>3. 3 >= from => ~G(3)  BY <2>3, <2>1, <3>2
    <3>4. 4 >= from => ~G(4)  BY <2>3, <2>1, <3>2, <3>3
    <3>5. 5 >= from => ~G(5)  BY <2>3, <2>1, <3>2, <3>3, <3>4
    <3>6. 6 >= from => ~G(6)  BY <2>3, <2>1, <3>2, <3>3, <3>4, <3>5
    <3>7. 7 >= from => ~G(7)  BY <2>3, <2>1, <3>2, <3>3, <3>4, <3>5, <3>6
    <3>8. ~G(8)  BY <2>3, <2>1, <2>4, <3>2, <3>3, <3>4, <3>5, <3>6, <3>7
    <3> QED  BY <3>8, <1>2
  <2>5. CASE from = 9
    <3>1. ~G(9)  BY <2>3, <2>5
    <3>2. ~G(10)  BY <2>3, <2>5, <3>1
    <3> QED  BY <3>2, <1>2
  <2>6. CASE from = 10  BY <2>3, <2>6, <1>2
  <2> QED  BY <2>2, <2>4, <2>5, <2>6
<1>4. NextState(c) = CHOOSE p \in from..rmend : First(p)
  BY DEF NextState, from, G
<1>5. NextState(c) \in from..rmend /\ First(NextState(c))
  BY <1>3, <1>4
<1>6. ASSUME from <= end, NextState(c) > end PROVE FALSE
  BY <1>1, <1>2, <1>5, <1>6
<1>7. from <= end => NextState(c) <= end
  BY <1>1, <1>5, <1>6
<1> QED  BY <1>1, <1>5, <1>7 DEF from, G

\* So it is a state of the engine.
LEMMA NextStateType ==
  ASSUME NEW c \in Cache, c.node \in Nodes
  PROVE  NextState(c) \in get_dcd..rmend
BY NextStateAhead

-----------------------------------------------------------------------------
(* How a step changes one slot *)

\* A step that changes slot i, keeps its node, and leaves the lists and the
\* database alone keeps the invariant.
LEMMA KeepSlot ==
  ASSUME IInv, Alive, NEW i \in Slots, NEW d \in Cache, NEW a \in Answers,
         d.node = cache[i].node, cache[i].node # None,
         a # "none" \/ d.timer # "off" \/ d.oom => d.state \in Phases,
         cache' = [cache EXCEPT ![i] = d],
         answer' = [answer EXCEPT ![i] = a],
         stale' \in BOOLEAN, pos' \in 0..MaxConcurrent + 1, abort' \in Aborts,
         acked' \in [Nodes -> SUBSET Phases], fail' = fail,
         UNCHANGED <<config, rmlist, mode, prov, done, errbits>>
  PROVE  IInv'
<1>1. TypeOK'
  BY DEF IInv, TypeOK, Answers, Aborts
<1>2. \A j \in Slots : cache'[j].node = cache[j].node
  BY DEF IInv, TypeOK
<1>3. Used' = Used
  BY <1>2 DEF Used
<1>4. SlotInv'
  BY DEF IInv, TypeOK, SlotInv, InPhase
<1>5. ModeInv' /\ ListInv' /\ OnePlace'
  <2>1. \A j \in Used : j \in Slots /\ cache'[j].node = cache[j].node
    BY <1>2 DEF Used
  <2> QED  BY <1>3, <2>1 DEF IInv, ModeInv, ListInv, OnePlace, Alive
<1> QED  BY <1>1, <1>4, <1>5 DEF IInv

\* So does the end of a node, which frees its slot.
LEMMA EndEntryStep ==
  ASSUME IInv, Alive, NEW i \in Slots, NEW c \in Cache, c.node = cache[i].node,
         c.node # None, NEW s, EndEntry(i, c, s),
         pos' \in 0..MaxConcurrent + 1, abort' \in Aborts,
         UNCHANGED lists
  PROVE  IInv'
<1> DEFINE n == c.node
<1>0. n \in Nodes  BY DEF Cache
<1>1. /\ cache' = [cache EXCEPT ![i] = FreeCache]
      /\ answer' = [answer EXCEPT ![i] = "none"]
      /\ stale' \in BOOLEAN
      /\ errbits' = [errbits EXCEPT ![n] = c.err]
      /\ UNCHANGED <<config, rmlist, mode>>
  BY DEF EndEntry, Forget, IInv, TypeOK, lists
<1>2. c.err \subseteq provisioned..rm  BY DEF Cache
<1>3. /\ prov' \subseteq prov /\ prov \ {n} \subseteq prov'
      /\ fail' \subseteq Nodes /\ done' \subseteq Nodes
      /\ acked' \in [Nodes -> SUBSET Phases]
  BY <1>0 DEF EndEntry, IInv, TypeOK
<1>4. TypeOK'
  BY <1>0, <1>1, <1>2, <1>3, FreeCacheType DEF IInv, TypeOK, Aborts
<1>5. /\ cache'[i] = FreeCache
      /\ \A j \in Slots \ {i} : cache'[j] = cache[j]
  BY <1>1 DEF IInv, TypeOK
<1>6. Used' = Used \ {i} /\ i \in Used
  BY <1>5, FreeCacheType DEF Used
<1>7. SlotInv'
  BY <1>1, <1>5, FreeCacheType DEF IInv, TypeOK, SlotInv, InPhase
<1>8. ModeInv'
  BY <1>1, <1>6 DEF IInv, ModeInv
<1>9. OnePlace'
  <2>1. \A j \in Used' : j \in Used /\ cache'[j] = cache[j]
    BY <1>5, <1>6 DEF Used
  <2> QED  BY <1>1, <2>1 DEF IInv, OnePlace, Alive
<1>10. ListInv'
  <2>1. n \notin config \cup rmlist  BY <1>6 DEF IInv, OnePlace, Alive
  <2>2. \A j \in Used' : j \in Used /\ cache'[j] = cache[j] /\ cache[j].node # n
    BY <1>5, <1>6 DEF IInv, OnePlace, Alive, Used
  <2> QED  BY <1>1, <1>3, <2>1, <2>2 DEF IInv, ListInv
<1> QED  BY <1>4, <1>7, <1>8, <1>9, <1>10 DEF IInv

\* The NCP bookkeeping of a request keeps its types and touches slot i only.
LEMMA RepliedType ==
  ASSUME IInv, NEW i \in Slots, NEW p, NEW r, Replied(i, p, r)
  PROVE  /\ stale' \in BOOLEAN
         /\ answer'[i] \in Answers
         /\ answer' = [answer EXCEPT ![i] = answer'[i]]
         /\ answer'[i] # "none" => r = "ok" \/ answer[i] # "none"
BY DEF Replied, Issue, Asked, IInv, TypeOK, Answers

\* Entering the next state keeps the invariant.
LEMMA ToNextStateStep ==
  ASSUME IInv, Alive, NEW i \in Slots, NEW c \in Cache, c.node = cache[i].node,
         c.node # None, NEW r \in Results, ToNextState(i, c, r),
         pos' \in 0..MaxConcurrent + 1, UNCHANGED abort, UNCHANGED lists
  PROVE  IInv'
<1> DEFINE p == NextState(c)
<1>0. c.node \in Nodes  BY DEF Cache
<1>1. p \in get_dcd..rmend  BY <1>0, NextStateType
<1>2. abort' \in Aborts  BY DEF IInv, TypeOK, Aborts
<1> HIDE DEF p
<1>3. CASE p \in {end, rmend}
  <2>1. EndEntry(i, c, p)  BY <1>3 DEF ToNextState, p
  <2> QED  BY <2>1, <1>2, EndEntryStep
<1>4. CASE p \in Phases /\ r = "api"
  <2>1. EndEntry(i, Send(c, p, r), end)  BY <1>4 DEF ToNextState, p
  <2>2. Send(c, p, r) \in Cache /\ Send(c, p, r).node = c.node
    BY <1>4, SendType
  <2> QED  BY <2>1, <2>2, <1>2, EndEntryStep
<1>5. CASE p \in Phases /\ r # "api"
  <2> DEFINE e == Send(c, p, r)
             d == [e EXCEPT !.state = p, !.next = p]
  <2>1. /\ cache' = [cache EXCEPT ![i] = d]
        /\ Replied(i, p, r)
        /\ UNCHANGED <<fail, db, acked>>
    BY <1>5 DEF ToNextState, p
  <2>2. e \in Cache /\ e.node = c.node
    BY <1>5, SendType
  <2> HIDE DEF e
  <2>3. p \in provisioned..rm /\ p \in get_dcd..rmend
    BY <1>5
  <2>4. d \in Cache /\ d.node = c.node /\ d.state = p
    BY <2>2, <2>3 DEF Cache
  <2> HIDE DEF d
  <2>5. /\ stale' \in BOOLEAN
        /\ answer'[i] \in Answers
        /\ answer' = [answer EXCEPT ![i] = answer'[i]]
    BY <2>1, RepliedType
  <2>6. /\ UNCHANGED <<config, rmlist, mode, prov, done, errbits, fail>>
        /\ acked' \in [Nodes -> SUBSET Phases]
    BY <2>1 DEF IInv, TypeOK, db, lists
  <2> QED  BY <1>2, <1>5, <2>1, <2>4, <2>5, <2>6, KeepSlot
<1> QED  BY <1>1, <1>3, <1>4, <1>5

\* One slot's turn in config_engine keeps the invariant.
LEMMA EngineStep ==
  ASSUME IInv, Alive, NEW i \in Slots, NEW r \in Results, NEW q \in Results, Engine(i, r, q)
  PROVE  IInv'
<1> DEFINE c == cache[i]
           kind == CASE c.timer = "due" -> "expired"
                     [] c.timer # "due" /\ c.oom -> "oom"
                     [] OTHER -> "none"
           c1 == IF kind = "none" THEN c ELSE Retry(c, r, kind)
<1>1. c \in Cache /\ i \in 1..MaxConcurrent /\ MaxConcurrent \in Nat
  BY SlotsAssumption DEF IInv, TypeOK, Slots
<1>a. pos = i /\ pos' = pos + 1 /\ UNCHANGED lists
  BY DEF Engine
<1>2. /\ pos' \in 0..MaxConcurrent + 1
      /\ UNCHANGED <<config, rmlist, mode>> /\ UNCHANGED lists
  BY <1>1, <1>a DEF lists
<1>3. kind \in {"expired", "oom", "none"} /\ (kind # "none" => c.timer # "off" \/ c.oom)
  BY <1>1 DEF Cache
<1>4. IF c.node = None
        THEN UNCHANGED <<cache, answer, stale, fail, abort, db, acked>>
      ELSE IF kind = "oom" /\ c.wait
        THEN abort' = "oom while waiting" /\ UNCHANGED <<cache, answer, stale, fail, db, acked>>
      ELSE /\ UNCHANGED abort
           /\ IF c1.wait \/ c1.state = c1.next
                THEN /\ cache' = [cache EXCEPT ![i] = c1]
                     /\ IF kind = "none" THEN UNCHANGED <<answer, stale>>
                                         ELSE Replied(i, c.state, r)
                     /\ UNCHANGED <<fail, db, acked>>
                ELSE ToNextState(i, c1, q)
  BY DEF Engine
<1> HIDE DEF kind
<1>5. CASE c.node = None \/ (kind = "oom" /\ c.wait)
  <2>1. /\ abort' \in {abort, "oom while waiting"}
        /\ UNCHANGED <<cache, answer, stale, fail, db, acked>>
    BY <1>4, <1>5
  <2> QED  BY <1>2, <2>1 DEF IInv, TypeOK, SlotInv, InPhase, ModeInv, ListInv, OnePlace, Alive, Used, db
<1>6. CASE c.node # None /\ ~(kind = "oom" /\ c.wait)
  <2>1. kind # "none" => c.state \in Phases
    BY <1>3 DEF IInv, SlotInv, InPhase
  <2>2. UNCHANGED abort
    BY <1>4, <1>6
  <2>3. c1.wait \/ c1.state = c1.next =>
             /\ cache' = [cache EXCEPT ![i] = c1]
             /\ kind = "none" => UNCHANGED <<answer, stale>>
             /\ kind # "none" => Replied(i, c.state, r)
             /\ UNCHANGED <<fail, db, acked>>
    BY <1>4, <1>6
  <2>4. c1 \in Cache /\ c1.node = c.node /\ c1.state = c.state
    BY <1>1, <1>3, <2>1, RetryType
  <2>5. kind = "none" => c1 = c  OBVIOUS
  <2> HIDE DEF c1
  <2>6. CASE c1.wait \/ c1.state = c1.next
    <3>1. kind = "none" => answer' = [answer EXCEPT ![i] = answer[i]] /\ stale' = stale
      BY <2>3, <2>6 DEF IInv, TypeOK
    <3>2. kind # "none" => Replied(i, c.state, r)
      BY <2>3, <2>6
    <3>3. /\ stale' \in BOOLEAN
          /\ answer'[i] \in Answers
          /\ answer' = [answer EXCEPT ![i] = answer'[i]]
      BY <3>1, <3>2, RepliedType DEF IInv, TypeOK, Answers
    <3>4. answer'[i] # "none" \/ c1.timer # "off" \/ c1.oom => c1.state \in Phases
      BY <2>1, <2>4, <2>5, <3>1 DEF IInv, TypeOK, SlotInv, InPhase
    <3>5. UNCHANGED <<fail, prov, done, errbits, acked>> /\ cache' = [cache EXCEPT ![i] = c1]
      BY <2>3, <2>6 DEF db
    <3>6. abort' \in Aborts /\ acked' \in [Nodes -> SUBSET Phases]
      BY <2>2, <3>5 DEF IInv, TypeOK, Aborts
    <3> QED  BY <1>2, <1>6, <2>4, <3>3, <3>4, <3>5, <3>6, KeepSlot
  <2>7. CASE ~(c1.wait \/ c1.state = c1.next)
    <3>1. ToNextState(i, c1, q)  BY <1>4, <1>6, <2>7
    <3> QED  BY <1>2, <1>6, <2>2, <2>4, <3>1, ToNextStateStep
  <2> QED  BY <2>6, <2>7
<1> QED  BY <1>5, <1>6

-----------------------------------------------------------------------------
(* The events *)

\* What an event that is handled on slot i has in common: the slot is in a
\* phase, and its node stays in it.
LEMMA HandledStep ==
  ASSUME IInv, Alive, NEW i \in Slots, answer[i] # "none", NEW d \in Cache,
         d.node = cache[i].node, d.state = cache[i].state,
         Handled(i, d), NEW a \in Answers, answer' = [answer EXCEPT ![i] = a],
         stale' = stale, acked' \in [Nodes -> SUBSET Phases],
         UNCHANGED <<fail, pos, lists>>
  PROVE  IInv'
<1>1. cache[i].node # None /\ cache[i].state \in Phases
  BY DEF IInv, SlotInv, InPhase
<1>2. /\ cache' = [cache EXCEPT ![i] = d]
      /\ UNCHANGED <<abort, prov, done, errbits, config, rmlist, mode, fail, pos>>
  BY DEF Handled, db, lists
<1>3. stale' \in BOOLEAN /\ pos' \in 0..MaxConcurrent + 1 /\ abort' \in Aborts
  BY <1>2 DEF IInv, TypeOK, Aborts
<1> QED  BY <1>1, <1>2, <1>3, KeepSlot

\* A retry on timeout keeps the invariant, whether or not it meets the ASSERT.
LEMMA RetryTimeoutStep ==
  ASSUME IInv, Alive, NEW i \in Slots, answer[i] # "none", NEW c \in Cache,
         c.node = cache[i].node, c.state = cache[i].state, NEW r \in Results,
         RetryTimeout(i, c, r), acked' \in [Nodes -> SUBSET Phases],
         UNCHANGED <<fail, pos, lists>>
  PROVE  IInv'
<1>1. c.state \in Phases
  BY DEF IInv, SlotInv, InPhase
<1>2. CASE RetryAsserts(c, r)
  <2>1. abort' = "retry budget" /\ UNCHANGED <<cache, answer, stale, db>>
    BY <1>2 DEF RetryTimeout
  <2> QED  BY <2>1 DEF IInv, TypeOK, SlotInv, InPhase, ModeInv, ListInv, OnePlace, Alive,
                       Used, db, lists
<1>3. CASE ~RetryAsserts(c, r)
  <2> DEFINE d == Retry(c, r, "timeout")
             a == IF r = "ok" THEN Asked(c.state) ELSE "none"
  <2>1. Handled(i, d) /\ answer' = [answer EXCEPT ![i] = a] /\ stale' = stale
    BY <1>3 DEF RetryTimeout, Consumed
  <2>2. a \in Answers  BY DEF Asked, Answers
  <2>3. r = "ok" => c.rem > 0
    BY <1>3 DEF RetryAsserts, Cache
  <2>4. d \in Cache /\ d.node = c.node /\ d.state = c.state
    BY <1>1, <2>3, RetryType
  <2> HIDE DEF d, a
  <2> QED  BY <2>1, <2>2, <2>4, HandledStep
<1> QED  BY <1>2, <1>3

\* The slot in which an event arrived is still a slot, with the same node.
LEMMA ArrivedType ==
  ASSUME IInv, NEW i \in Slots
  PROVE  LET c == Arrived(i) IN
         /\ c \in Cache /\ c.node = cache[i].node /\ c.state = cache[i].state
         /\ c.ever = cache[i].ever /\ c.rem = cache[i].rem /\ c.it = cache[i].it
<1> DEFINE b == cache[i]
           d == [b EXCEPT !.timer = "off", !.wait = FALSE]
<1>1. b \in Cache  BY DEF IInv, TypeOK
<1>2. Arrived(i) = d  BY DEF Arrived
<1> HIDE DEF b
<1>3. /\ d \in Cache /\ d.node = b.node /\ d.state = b.state
      /\ d.ever = b.ever /\ d.rem = b.rem /\ d.it = b.it
  BY <1>1 DEF Cache
<1> HIDE DEF d
<1> QED  BY <1>2, <1>3 DEF b

\* getdcd_inprg resumes in a state of the configuration.
LEMMA ResumeType ==
  ASSUME IInv, NEW n \in Nodes
  PROVE  Resume(n) \in {to_next} \cup (addappkey..setconfig)
<1> DEFINE E == errbits[n]
<1>1. E \subseteq provisioned..rm  BY DEF IInv, TypeOK
<1>2. CASE \E a \in E : a \in addappkey..setconfig /\ \A b \in E : b <= a
  <2> DEFINE m == CHOOSE a \in E : \A b \in E : b <= a
  <2>1. PICK a \in E : a \in addappkey..setconfig /\ \A b \in E : b <= a
    BY <1>2
  <2>2. m \in E /\ \A b \in E : b <= m
    BY <2>1
  <2>3. Resume(n) = m  BY <1>2 DEF Resume
  <2> HIDE DEF m
  <2>4. m \in provisioned..rm /\ a <= m /\ m <= a /\ a \in addappkey..setconfig
    BY <1>1, <2>1, <2>2
  <2> QED  BY <2>3, <2>4
<1>3. CASE ~ \E a \in E : a \in addappkey..setconfig /\ \A b \in E : b <= a
  BY <1>3 DEF Resume
<1> QED  BY <1>2, <1>3

\* A finished phase asks for a state the engine knows.
LEMMA PhaseDoneType ==
  ASSUME IInv, NEW c \in Cache, c.node \in Nodes
  PROVE  LET d == PhaseDone(c) IN
         d \in Cache /\ d.node = c.node /\ d.state = c.state /\ d.ever = c.ever
<1> DEFINE x == IF c.state = get_dcd THEN Resume(c.node) ELSE to_next
<1>1. x \in {to_next} \cup (get_dcd..rmend)  BY ResumeType
<1>2. PhaseDone(c) = [c EXCEPT !.it = 0, !.next = x]  BY DEF PhaseDone
<1> HIDE DEF x
<1> DEFINE d == [c EXCEPT !.it = 0, !.next = x]
<1>3. d \in Cache /\ d.node = c.node /\ d.state = c.state /\ d.ever = c.ever
  BY <1>1 DEF Cache
<1> HIDE DEF d
<1> QED  BY <1>2, <1>3 DEF d

\* Progress within a phase, or its end, keeps the invariant.
LEMMA RecvProgressStep ==
  ASSUME IInv, Alive, NEW i \in Slots, NEW ev, NEW r \in Results, RecvProgress(i, ev, r),
         UNCHANGED <<fail, pos, lists>>
  PROVE  IInv'
<1> DEFINE c == Arrived(i)
           p == c.state
           last == Work[c.node][p]
           c1 == IF ev = "success" THEN [c EXCEPT !.ever = FALSE, !.rem = 0] ELSE c
<1>1. c \in Cache /\ c.node = cache[i].node /\ p = cache[i].state
  BY ArrivedType
<1>2. answer[i] = "status"  BY DEF RecvProgress
<1>3. p \in Phases /\ c.node \in Nodes
  BY <1>1, <1>2 DEF IInv, SlotInv, InPhase, Cache
<1>4. c1 \in Cache /\ c1.node = c.node /\ c1.state = p
  BY <1>1 DEF Cache
<1>5. last \in Nat /\ c.it \in Nat
  BY <1>1, <1>3, WorkAssumption DEF Cache
<1>6. PICK j \in (IF ev = "nores" THEN c.it + 1..last ELSE {c.it + 1}) :
        IF j < last
          THEN /\ Handled(i, Send([c1 EXCEPT !.it = j], p, r))
               /\ Consumed(i, p, r)
               /\ UNCHANGED acked
          ELSE /\ acked' = [acked EXCEPT ![c.node] = @ \cup {p}]
               /\ IF c1.ever
                    THEN RetryTimeout(i, PhaseDone(c1), r)
                    ELSE Handled(i, PhaseDone(c1)) /\ Consumed(i, c.state, "none")
  BY DEF RecvProgress
<1>7. j \in Nat  BY <1>5
<1> HIDE DEF c, last, c1
<1>8. CASE j < last
  <2> DEFINE e == [c1 EXCEPT !.it = j]
             d == Send(e, p, r)
             a == IF r = "ok" THEN Asked(p) ELSE "none"
  <2>1. e \in Cache /\ e.node = c.node /\ e.state = p
    BY <1>4, <1>7 DEF Cache
  <2>2. Handled(i, d) /\ answer' = [answer EXCEPT ![i] = a] /\ stale' = stale /\ acked' = acked
    BY <1>6, <1>8 DEF Consumed
  <2> HIDE DEF e
  <2>3. d \in Cache /\ d.node = e.node /\ d.state = e.state
    BY <1>3, <2>1, SendType
  <2>4. a \in Answers /\ acked' \in [Nodes -> SUBSET Phases]
    BY <2>2 DEF Asked, Answers, IInv, TypeOK
  <2> HIDE DEF d, a
  <2> QED  BY <1>1, <1>2, <2>1, <2>2, <2>3, <2>4, HandledStep
<1>9. CASE ~(j < last)
  <2> DEFINE d == PhaseDone(c1)
  <2>1. d \in Cache /\ d.node = c.node /\ d.state = p
    BY <1>3, <1>4, PhaseDoneType
  <2>2. acked' = [acked EXCEPT ![c.node] = acked[c.node] \cup {p}]
    BY <1>6, <1>9
  <2>3. acked' \in [Nodes -> SUBSET Phases]
    BY <1>3, <2>2 DEF IInv, TypeOK
  <2> HIDE DEF d
  <2>4. CASE c1.ever
    <3>1. RetryTimeout(i, d, r)  BY <1>6, <1>9, <2>4 DEF d
    <3> QED  BY <1>1, <1>2, <2>1, <2>3, <3>1, RetryTimeoutStep
  <2>5. CASE ~c1.ever
    <3>1. Handled(i, d) /\ answer' = [answer EXCEPT ![i] = "none"] /\ stale' = stale
      BY <1>6, <1>9, <2>5 DEF Consumed, d
    <3>2. "none" \in Answers  BY DEF Answers
    <3> QED  BY <1>1, <1>2, <2>1, <2>3, <3>1, <3>2, HandledStep
  <2> QED  BY <2>4, <2>5
<1> QED  BY <1>8, <1>9

\* A timeout keeps the invariant: it is retried, or ends the node.
LEMMA RecvTimeoutStep ==
  ASSUME IInv, Alive, NEW i \in Slots, NEW r \in Results, RecvTimeout(i, r),
         UNCHANGED <<fail, pos, lists>>
  PROVE  IInv'
<1> DEFINE c == Arrived(i)
           p == c.state
           c0 == [c EXCEPT !.ever = TRUE, !.rem = RetryTimes[p]]
           c1 == [c EXCEPT !.ever = FALSE, !.rem = 0]
           d == IF p = rm THEN [c1 EXCEPT !.next = to_next] ELSE ErrSetTo(c1, end)
<1>1. c \in Cache /\ c.node = cache[i].node /\ p = cache[i].state
  BY ArrivedType
<1>2. answer[i] # "none" /\ acked' = acked
  BY DEF RecvTimeout, Coming
<1>3. p \in Phases /\ acked' \in [Nodes -> SUBSET Phases]
  BY <1>1, <1>2 DEF IInv, TypeOK, SlotInv, InPhase
<1>4. \/ ~c.ever /\ RetryTimeout(i, c0, r)
      \/ RetryTimeout(i, c, r)
      \/ Consumed(i, p, "none") /\ Handled(i, d)
  <2>1. c.ever \in BOOLEAN /\ c.rem \in Nat  BY <1>1 DEF Cache
  <2>2. CASE ~c.ever  BY <2>1, <2>2 DEF RecvTimeout
  <2>3. CASE c.ever /\ c.rem > 0  BY <2>1, <2>3 DEF RecvTimeout
  <2>4. CASE c.ever /\ c.rem <= 0  BY <2>1, <2>4 DEF RecvTimeout
  <2> QED  BY <2>1, <2>2, <2>3, <2>4
<1> HIDE DEF c
<1>5. c0 \in Cache /\ c0.node = c.node /\ c0.state = p
  <2>1. RetryTimes[p] \in Nat  BY <1>3, RetryAssumption
  <2> QED  BY <1>1, <2>1 DEF Cache
<1>6. c1 \in Cache /\ c1.node = c.node /\ c1.state = p
  BY <1>1 DEF Cache
<1>7. d \in Cache /\ d.node = c.node /\ d.state = p
  <2> HIDE DEF c1
  <2>1. CASE p = rm  BY <1>6, <2>1 DEF Cache
  <2>2. CASE p # rm  BY <1>6, <2>2, ErrSetToType
  <2> QED  BY <2>1, <2>2
<1> HIDE DEF c0, c1, d
<1>8. CASE ~c.ever /\ RetryTimeout(i, c0, r)
  BY <1>1, <1>2, <1>3, <1>5, <1>8, RetryTimeoutStep
<1>9. CASE RetryTimeout(i, c, r)
  BY <1>1, <1>2, <1>3, <1>9, RetryTimeoutStep
<1>10. CASE Consumed(i, p, "none") /\ Handled(i, d)
  <2>1. answer' = [answer EXCEPT ![i] = "none"] /\ stale' = stale /\ "none" \in Answers
    BY <1>10 DEF Consumed, Answers
  <2> QED  BY <1>1, <1>2, <1>3, <1>7, <1>10, <2>1, HandledStep
<1> QED  BY <1>4, <1>8, <1>9, <1>10

\* Any other result ends the node.
LEMMA RecvErrorStep ==
  ASSUME IInv, Alive, NEW i \in Slots, RecvError(i), UNCHANGED <<fail, pos, lists>>
  PROVE  IInv'
<1> DEFINE c == Arrived(i)
           d == ErrSetTo(c, EndOf(cache[i].state))
<1>1. c \in Cache /\ c.node = cache[i].node /\ c.state = cache[i].state
  BY ArrivedType
<1>2. answer[i] # "none" /\ acked' = acked /\ Handled(i, d)
      /\ answer' = [answer EXCEPT ![i] = "none"] /\ stale' = stale
  BY DEF RecvError, Coming, Consumed
<1>3. acked' \in [Nodes -> SUBSET Phases] /\ "none" \in Answers
  BY <1>2 DEF IInv, TypeOK, Answers
<1>4. EndOf(cache[i].state) \in get_dcd..rmend  BY DEF EndOf
<1> HIDE DEF c
<1>5. d \in Cache /\ d.node = c.node /\ d.state = c.state
  BY <1>1, <1>4, ErrSetToType
<1> HIDE DEF d
<1> QED  BY <1>1, <1>2, <1>3, <1>5, HandledStep

\* Composition data keeps the invariant.
LEMMA RecvDcdDataStep ==
  ASSUME IInv, Alive, NEW i \in Slots, RecvDcdData(i), UNCHANGED <<fail, pos, lists>>
  PROVE  IInv'
<1> DEFINE b == cache[i]
           d == [b EXCEPT !.timer = "off", !.dcd = TRUE]
<1>1. b \in Cache  BY DEF IInv, TypeOK
<1>2. answer[i] # "none" /\ acked' = acked /\ stale' = stale
      /\ answer' = [answer EXCEPT ![i] = "status"] /\ Handled(i, d)
  BY DEF RecvDcdData
<1>3. acked' \in [Nodes -> SUBSET Phases] /\ "status" \in Answers
  BY <1>2 DEF IInv, TypeOK, Answers
<1> HIDE DEF b
<1>4. d \in Cache /\ d.node = b.node /\ d.state = b.state
  BY <1>1 DEF Cache
<1> HIDE DEF d
<1> QED  BY <1>2, <1>3, <1>4, HandledStep DEF b

\* Every event keeps the invariant.
LEMMA DevConfigHdrStep ==
  ASSUME IInv, Alive, DevConfigHdr
  PROVE  IInv'
<1>1. ASSUME NEW i \in Slots, DcdEvent(i) PROVE IInv'
  BY <1>1, RecvDcdDataStep DEF DcdEvent
<1>2. ASSUME NEW i \in Slots, NEW r \in Replies, StatusEvent(i, r) PROVE IInv'
  <2>1. r \in Results  BY DEF Replies, Results
  <2> QED  BY <1>2, <2>1, RecvProgressStep, RecvTimeoutStep, RecvErrorStep DEF StatusEvent
<1>3. ASSUME StaleEvent PROVE IInv'
  BY <1>3 DEF StaleEvent, RecvStale, IInv, TypeOK, SlotInv, InPhase, ModeInv, ListInv,
              OnePlace, Alive, Used, db, lists
<1> QED  BY <1>1, <1>2, <1>3 DEF DevConfigHdr

-----------------------------------------------------------------------------
(* Loading, the scheduler and the environment *)

\* __caches_load moves nodes from a list to free slots, each to one.
LEMMA AccLoopStep ==
  ASSUME IInv, Alive, AccLoop
  PROVE  IInv'
<1> DEFINE type == IF mode = "removing" THEN "rm" ELSE "config"
           L == ListOf(type)
<1>0. PICK D \in SUBSET (Slots \ Used) : \E f \in Injection(D, L) :
        /\ cache' = [i \in Slots |-> IF i \in D THEN ItemLoad(f[i], type) ELSE cache[i]]
        /\ IF type = "config" THEN config' = config \ Range(f) /\ UNCHANGED rmlist
                              ELSE rmlist' = rmlist \ Range(f) /\ UNCHANGED config
  BY DEF AccLoop, CachesLoad
<1>1. PICK f \in Injection(D, L) :
        /\ cache' = [i \in Slots |-> IF i \in D THEN ItemLoad(f[i], type) ELSE cache[i]]
        /\ IF type = "config" THEN config' = config \ Range(f) /\ UNCHANGED rmlist
                              ELSE rmlist' = rmlist \ Range(f) /\ UNCHANGED config
  BY <1>0
<1>2. /\ f \in [D -> L]
      /\ \A a, b \in D : f[a] = f[b] => a = b
      /\ Range(f) = {f[x] : x \in D}
  BY DEF Injection, IsInjective, Range
<1>3. /\ mode # "idle" /\ pos' = 1 /\ MaxConcurrent \in Nat \ {0}
      /\ UNCHANGED <<answer, stale, fail, mode, abort, prov, done, errbits, acked>>
  BY SlotsAssumption DEF AccLoop, db
<1>4. L \subseteq prov /\ L \subseteq Nodes /\ L \subseteq config \cup rmlist
  BY DEF ListOf, IInv, ListInv, TypeOK
<1>5. /\ config' \subseteq config /\ rmlist' \subseteq rmlist
      /\ \A x \in D : f[x] \notin config' \cup rmlist'
  <2>1. \A x \in D : f[x] \in Range(f) /\ f[x] \in L
    BY <1>2
  <2>2. CASE type = "config"
    <3>1. L = config /\ config' = config \ Range(f) /\ rmlist' = rmlist
      BY <1>1, <2>2 DEF ListOf
    <3> QED  BY <2>1, <3>1 DEF IInv, OnePlace, Alive
  <2>3. CASE type # "config"
    <3>1. L = rmlist /\ rmlist' = rmlist \ Range(f) /\ config' = config
      BY <1>1, <2>3 DEF ListOf
    <3> QED  BY <2>1, <3>1 DEF IInv, OnePlace, Alive
  <2> QED  BY <2>2, <2>3
<1> HIDE DEF L, type
<1>6. \A x \in D : /\ cache'[x] \in Cache /\ cache'[x].node = f[x]
                   /\ cache'[x].timer = "off" /\ ~cache'[x].oom
                   /\ f[x] \in Nodes /\ x \in Slots /\ x \notin Used
  <2> SUFFICES ASSUME NEW x \in D
               PROVE  /\ cache'[x] \in Cache /\ cache'[x].node = f[x]
                      /\ cache'[x].timer = "off" /\ ~cache'[x].oom
                      /\ f[x] \in Nodes /\ x \in Slots /\ x \notin Used
    OBVIOUS
  <2>1. f[x] \in Nodes /\ x \in Slots /\ x \notin Used  BY <1>2, <1>4
  <2>2. cache'[x] = ItemLoad(f[x], type)  BY <1>1, <2>1
  <2> QED  BY <2>1, <2>2, ItemLoadType
<1>7. \A x \in Slots \ D : cache'[x] = cache[x] /\ cache[x] \in Cache
  BY <1>1 DEF IInv, TypeOK
<1>8. TypeOK'
  <2>1. cache' \in [Slots -> Cache]
    <3>1. \A x \in Slots : cache'[x] \in Cache  BY <1>6, <1>7
    <3> QED  BY <1>1, <3>1
  <2>2. pos' \in 0..MaxConcurrent + 1  BY <1>3
  <2>3. config' \subseteq Nodes /\ rmlist' \subseteq Nodes  BY <1>5 DEF IInv, TypeOK
  <2> QED  BY <1>3, <2>1, <2>2, <2>3 DEF IInv, TypeOK
<1>9. Used' = Used \cup D
  BY <1>6, <1>7, NodesAssumption DEF Used
<1>10. \A x \in Used : x \notin D /\ x \in Slots /\ cache'[x] = cache[x]
  BY <1>6, <1>7 DEF Used
<1>11. SlotInv'
  <2> SUFFICES ASSUME NEW x \in Slots,
                      answer'[x] # "none" \/ cache'[x].timer # "off" \/ cache'[x].oom
               PROVE  cache'[x].node # None /\ cache'[x].state \in Phases
    BY DEF SlotInv, InPhase
  <2>1. CASE x \in D
    <3>1. cache[x].node = None  BY <1>6, <2>1 DEF Used
    <3>2. answer[x] = "none"  BY <3>1 DEF IInv, SlotInv, InPhase
    <3> QED  BY <1>3, <1>6, <2>1, <3>2
  <2>2. CASE x \notin D
    BY <1>3, <1>7, <2>2 DEF IInv, SlotInv, InPhase
  <2> QED  BY <2>1, <2>2
<1>12. OnePlace'
  <2>1. \A a, b \in Used' : cache'[a].node = cache'[b].node => a = b
    <3>1. \A a \in D, b \in Used : cache'[a].node # cache'[b].node
      BY <1>2, <1>4, <1>6, <1>10 DEF IInv, OnePlace, Alive
    <3> QED  BY <1>2, <1>6, <1>9, <1>10, <3>1 DEF IInv, OnePlace, Alive
  <2>2. \A a \in Used' : cache'[a].node \notin config' \cup rmlist'
    BY <1>5, <1>6, <1>9, <1>10 DEF IInv, OnePlace, Alive
  <2>3. config' \cap rmlist' = {}
    BY <1>5 DEF IInv, OnePlace, Alive
  <2> QED  BY <2>1, <2>2, <2>3 DEF OnePlace, Alive
<1>13. ModeInv'
  BY <1>3 DEF ModeInv
<1>14. ListInv'
  <2>1. \A a \in Used' : cache'[a].node \in prov
    BY <1>2, <1>4, <1>6, <1>9, <1>10 DEF IInv, ListInv
  <2> QED  BY <1>3, <1>5, <2>1 DEF IInv, ListInv
<1> QED  BY <1>8, <1>11, <1>12, <1>13, <1>14 DEF IInv

\* The initial state: nothing is provisioned, the slots are free.
LEMMA InitIInv == Init => IInv
<1> SUFFICES ASSUME Init PROVE IInv  OBVIOUS
<1>1. \A i \in Slots : cache[i] = FreeCache /\ answer[i] = "none"
  BY DEF Init
<1>2. Used = {}
  BY <1>1, FreeCacheType DEF Used
<1>3. TypeOK
  <2>1. cache \in [Slots -> Cache]  BY FreeCacheType DEF Init
  <2>2. pos \in 0..MaxConcurrent + 1  BY SlotsAssumption DEF Init
  <2> QED  BY <2>1, <2>2 DEF Init, TypeOK
<1>4. SlotInv
  BY <1>1, FreeCacheType DEF SlotInv
<1> QED  BY <1>2, <1>3, <1>4 DEF Init, IInv, ModeInv, ListInv, OnePlace

\* Every step of the system keeps the invariant.
LEMMA NextIInv == IInv /\ [Next]_vars => IInv'
<1> SUFFICES ASSUME IInv, [Next]_vars PROVE IInv'  OBVIOUS
<1> USE DEF IInv
<1>1. ASSUME Alive, AccLoop PROVE IInv'  BY <1>1, AccLoopStep
<1>2. CASE SetMngState
  <2>1. pos' = 0 /\ MaxConcurrent \in Nat  BY <1>2, SlotsAssumption DEF SetMngState
  <2>2. UNCHANGED <<cache, answer, stale, config, rmlist, fail, abort, prov, done, errbits, acked>>
    BY <1>2 DEF SetMngState, db
  <2>3. mode' \in {"idle", "config", "removing"} /\ (mode' = mode \/ Used = {})
    BY <1>2 DEF SetMngState, Picks, TypeOK
  <2>0. pos' \in 0..MaxConcurrent + 1  BY <2>1
  <2>4. TypeOK' /\ SlotInv'
    <3>1. TypeOK'  BY <2>0, <2>2, <2>3 DEF TypeOK
    <3>2. SlotInv'  BY <2>2 DEF SlotInv, InPhase
    <3> QED  BY <3>1, <3>2
  <2>5. Used' = Used  BY <2>2 DEF Used
  <2> QED  BY <2>2, <2>3, <2>4, <2>5 DEF ModeInv, ListInv, OnePlace
<1>3. ASSUME Alive, NEW i \in Slots, NEW r \in Replies, NEW q \in Replies, Engine(i, r, q)
      PROVE  IInv'
  <2>1. r \in Results /\ q \in Results  BY DEF Replies, Results
  <2> QED  BY <1>3, <2>1, EngineStep
<1>4. ASSUME Alive, DevConfigHdr PROVE IInv'  BY <1>4, DevConfigHdrStep
<1>5. ASSUME NEW R \in SUBSET prov, Sync(R) PROVE IInv'
  <2>1. /\ config' = (prov \ R) \ done /\ rmlist' = R /\ fail' = {}
        /\ mode' \in {"idle", "config", "removing"}
        /\ UNCHANGED <<cache, answer, stale, pos, abort, prov, done, errbits, acked>>
    BY <1>5 DEF Sync, ListsLoad, Picks, db
  <2>2. Used = {}  BY <1>5 DEF Sync, ModeInv
  <2> QED  BY <2>1, <2>2 DEF TypeOK, SlotInv, InPhase, ModeInv, ListInv, OnePlace, Used
<1>6. CASE SyncStop
  BY <1>6 DEF SyncStop, TypeOK, SlotInv, InPhase, ModeInv, ListInv, OnePlace, Used, db
<1>7. ASSUME NEW n \in Nodes, Provisioned(n) PROVE IInv'
  <2>1. /\ n \notin prov /\ prov' = prov \cup {n} /\ config' = config \cup {n}
        /\ UNCHANGED <<cache, answer, stale, rmlist, fail, done, errbits, acked, mode, pos, abort>>
    BY <1>7 DEF Provisioned
  <2>2. Used' = Used /\ \A i \in Used : cache[i].node # n
    BY <2>1 DEF Used, ListInv
  <2>3. TypeOK' /\ SlotInv' /\ ModeInv'
    BY <2>1, <2>2 DEF TypeOK, SlotInv, InPhase, ModeInv
  <2> QED  BY <2>1, <2>2, <2>3 DEF ListInv, OnePlace
<1>8. ASSUME NEW i \in Slots, Lose(i) PROVE IInv'
  <2>1. /\ answer[i] # "none" /\ answer' = [answer EXCEPT ![i] = "lost"]
        /\ UNCHANGED <<cache, stale, config, rmlist, fail, prov, done, errbits, acked, mode, pos, abort>>
    BY <1>8 DEF Lose, Coming, db
  <2>2. Used' = Used  BY <2>1 DEF Used
  <2> QED  BY <2>1, <2>2 DEF TypeOK, SlotInv, InPhase, ModeInv, ListInv, OnePlace
<1>9. ASSUME Alive, NEW i \in Slots, Expire(i) PROVE IInv'
  <2> DEFINE b == cache[i]
             d == [b EXCEPT !.timer = "due"]
  <2>1. /\ b.timer = "armed" /\ cache' = [cache EXCEPT ![i] = d]
        /\ UNCHANGED <<answer, stale, config, rmlist, fail, prov, done, errbits, acked, mode, pos, abort>>
    BY <1>9 DEF Expire, db
  <2>2. b \in Cache /\ b.node # None /\ b.state \in Phases /\ answer[i] \in Answers
    BY <2>1 DEF TypeOK, SlotInv, InPhase, Answers
  <2> HIDE DEF b
  <2>3. d \in Cache /\ d.node = b.node /\ d.state = b.state
    BY <2>2 DEF Cache
  <2> HIDE DEF d, IInv
  <2>4. answer' = [answer EXCEPT ![i] = answer[i]]
    BY <2>1 DEF IInv, TypeOK
  <2>5. /\ stale' \in BOOLEAN /\ pos' \in 0..MaxConcurrent + 1 /\ abort' \in Aborts
        /\ acked' \in [Nodes -> SUBSET Phases]
    BY <2>1 DEF IInv, TypeOK, Aborts
  <2> QED  BY <1>9, <2>1, <2>2, <2>3, <2>4, <2>5, KeepSlot DEF b
<1>10. CASE UNCHANGED vars
  BY <1>10 DEF vars, TypeOK, SlotInv, InPhase, ModeInv, ListInv, OnePlace, Used
<1>11. ASSUME NEW R \in SUBSET prov, RmBlClr(R) PROVE IInv'
  <2>1. /\ config' = (prov \ R) \ done /\ rmlist' = R /\ fail' = {}
        /\ abort' = IF Used # {} THEN "freed" ELSE abort
        /\ UNCHANGED <<cache, answer, stale, mode, pos, prov, done, errbits, acked>>
    BY <1>11 DEF RmBlClr, ListsLoad, db
  <2>2. Used' = Used  BY <2>1 DEF Used
  <2>3. TypeOK' /\ SlotInv' /\ ModeInv' /\ ListInv'
    BY <2>1, <2>2 DEF TypeOK, SlotInv, InPhase, ModeInv, ListInv
  <2>4. OnePlace'
    <3>1. \A i, j \in Used : cache[i].node = cache[j].node => i = j  BY DEF OnePlace
    <3>2. Used # {} => abort' = "freed"  BY <2>1
    <3>3. config' \cap rmlist' = {}  BY <2>1
    <3> QED  BY <2>1, <2>2, <3>1, <3>2, <3>3 DEF OnePlace
  <2> QED  BY <2>3, <2>4
<1> QED
  BY <1>1, <1>2, <1>3, <1>4, <1>5, <1>6, <1>7, <1>8, <1>9, <1>10, <1>11 DEF Next, Pass

\* The inductive invariant holds, however the NCP target misbehaves.
THEOREM EngineInvariant == Spec => []IInv
BY InitIInv, NextIInv, PTL DEF Spec

\* Type correctness of the engine: slots, lists and database fields keep their
\* types through config_engine, dev_config_hdr and the commands.
THEOREM EngineTypeCorrect == Spec => []TypeOK
<1>1. IInv => TypeOK  BY DEF IInv
<1> QED  BY EngineInvariant, <1>1, PTL

\* A node is never at two places: not in two slots, nor in both lists, nor in a
\* slot and a list, under any number of nodes and slots and under every
\* misbehaviour of the NCP target (__caches_load, load_lists, on_prov_success,
\* end_entry and rmend_entry together).  Only the last part has an exception: clrrb
\* with slots in use files their nodes again and frees what the slots hold.
THEOREM EngineOnePlace == Spec => []OnePlace
<1>1. IInv => OnePlace  BY DEF IInv
<1> QED  BY EngineInvariant, <1>1, PTL

-----------------------------------------------------------------------------
(***************************************************************************)
(* While guard timers are longer than the NCP target takes, a slot waits   *)
(* exactly for what the NCP still owes it, under every fault; and with the *)
(* faults that it can bear the engine meets none of its assertions: for    *)
(* any number of nodes, slots, retries and requests.                       *)
(***************************************************************************)

-----------------------------------------------------------------------------
(* The operators on one slot *)

\* The fate of a request that was just sent.
Fate(p, r) == IF r = "ok" THEN Asked(p) ELSE "none"

\* A slot that waits for nothing may send, if the faults can be borne.
Idle(c) == ~c.oom /\ c.next = c.state /\ (c.ever => "timeout" \in Faults)

\* A slot is as it is to be.
SlotGood(c, a) == SlotWait(c, a) /\ (Tolerable => SlotCalm(c))

LEMMA ReplyType == \A r \in Replies : r \in Results /\ (r = "oom" => "oom" \in Faults)
BY DEF Replies, Results

\* A request's fate is an answer that comes or none, and a request that was not
\* accepted has none.
LEMMA FateType == \A p, r : /\ Fate(p, r) \in Answers \ {"lost"}
                            /\ Fate(p, r) # "none" <=> r = "ok"
BY DEF Fate, Asked, Answers

\* A request sent by a slot that is not waiting.
LEMMA SendWait ==
  ASSUME NEW c \in Cache, NEW p \in Phases, NEW r \in Replies, ~c.wait, c.timer # "due"
  PROVE  LET d == Send(c, p, r) IN
         /\ SlotWait(d, Fate(p, r))
         /\ ~c.oom /\ (c.ever => "timeout" \in Faults) =>
              /\ d.oom => "oom" \in Faults
              /\ d.ever => "timeout" \in Faults
              /\ ~(d.wait /\ d.oom)
         /\ Idle(c) => SlotCalm(d)
<1>0. r \in Results /\ (r = "oom" => "oom" \in Faults)  BY ReplyType
<1>1. CASE r = "ok"
  <2> DEFINE d == [c EXCEPT !.wait = TRUE, !.timer = "armed"]
  <2>1. Send(c, p, r) = d  BY <1>1 DEF Send
  <2>2. /\ d.wait /\ d.oom = c.oom /\ d.timer = "armed" /\ d.ever = c.ever
        /\ d.next = c.next /\ d.state = c.state
    BY DEF Cache
  <2> HIDE DEF d
  <2> QED  BY <1>1, <2>1, <2>2, FateType DEF SlotWait, SlotCalm, Idle
<1>2. CASE r = "oom"
  <2> DEFINE d == [c EXCEPT !.oom = TRUE]
  <2>1. Send(c, p, r) = d  BY <1>2 DEF Send
  <2>2. /\ ~d.wait /\ d.oom /\ d.timer # "due" /\ d.ever = c.ever
        /\ d.next = c.next /\ d.state = c.state
    BY DEF Cache
  <2> HIDE DEF d
  <2> QED  BY <1>0, <1>2, <2>1, <2>2, FateType DEF SlotWait, SlotCalm, Idle
<1>3. CASE r = "api"
  <2>1. EndOf(p) \in get_dcd..rmend  BY DEF EndOf
  <2>2. Send(c, p, r) = ErrSetTo(c, EndOf(p))  BY <1>3 DEF Send
  <2>3. ~Send(c, p, r).ever  BY <2>2 DEF ErrSetTo, Cache
  <2> QED  BY <1>3, <2>1, <2>2, <2>3, ErrSetToType, FateType DEF SlotWait, SlotCalm
<1> QED  BY <1>0, <1>1, <1>2, <1>3 DEF Results

\* A retry after a timeout.
LEMMA RetryTimeoutWait ==
  ASSUME NEW c \in Cache, c.state \in Phases, NEW r \in Replies,
         ~c.wait, c.timer # "due", Tolerable => Idle(c)
  PROVE  SlotGood(Retry(c, r, "timeout"), Fate(c.state, r))
<1> DEFINE s == Send(c, c.state, r)
<1>1. s \in Cache  BY ReplyType, SendType
<1>2. SlotGood(s, Fate(c.state, r))  BY SendWait DEF SlotGood
<1>3. CASE r # "ok"  BY <1>2, <1>3 DEF Retry
<1>4. CASE r = "ok"
  <2> DEFINE d == [s EXCEPT !.rem = s.rem - 1]
  <2>1. Retry(c, r, "timeout") = d  BY <1>4 DEF Retry
  <2> HIDE DEF s
  <2>2. /\ d.wait = s.wait /\ d.oom = s.oom /\ d.timer = s.timer /\ d.ever = s.ever
        /\ d.next = s.next /\ d.state = s.state
    BY <1>1 DEF Cache
  <2> HIDE DEF d
  <2> QED  BY <1>2, <2>1, <2>2 DEF SlotGood, SlotWait, SlotCalm
<1> QED  BY <1>3, <1>4

\* A failed retry asks for the end of the node.
LEMMA RetryFails ==
  ASSUME NEW c \in Cache, c.state \in Phases, NEW reason
  PROVE  LET d == Retry(c, "api", reason) IN
         /\ d \in Cache /\ d.node = c.node /\ d.state # d.next /\ d.next \in {end, rmend}
         /\ ~d.wait /\ ~d.oom /\ ~d.ever /\ d.timer = "off"
<1>1. EndOf(c.state) \in {end, rmend} /\ EndOf(c.state) \in get_dcd..rmend  BY DEF EndOf
<1>2. Retry(c, "api", reason) = ErrSetTo(c, EndOf(c.state))  BY DEF Retry, Send
<1>3. ~ErrSetTo(c, EndOf(c.state)).ever  BY DEF ErrSetTo, Cache
<1>4. c.state \notin {end, rmend}  OBVIOUS
<1> QED  BY <1>1, <1>2, <1>3, <1>4, ErrSetToType

\* A retry after an OOM: the OOM is gone when the request is accepted.
LEMMA RetryOomWait ==
  ASSUME NEW c \in Cache, c.state \in Phases, NEW r \in Replies, r # "api",
         ~c.wait, c.oom, c.timer # "due", Tolerable => SlotCalm(c)
  PROVE  LET d == Retry(c, r, "oom") IN
         d \in Cache /\ d.node = c.node /\ SlotGood(d, Fate(c.state, r))
<1>1. CASE r = "ok"
  <2> DEFINE s == [c EXCEPT !.wait = TRUE, !.timer = "armed"]
             d == [s EXCEPT !.oom = FALSE]
  <2>1. Retry(c, r, "oom") = d  BY <1>1 DEF Retry, Send
  <2>2. /\ s \in Cache /\ s.wait /\ s.timer = "armed" /\ s.ever = c.ever /\ s.node = c.node
        /\ s.next = c.next /\ s.state = c.state
    BY DEF Cache
  <2> HIDE DEF s
  <2>3. /\ d \in Cache /\ d.wait /\ ~d.oom /\ d.timer = "armed" /\ d.ever = c.ever
        /\ d.node = c.node /\ d.next = c.next /\ d.state = c.state
    BY <2>2 DEF Cache
  <2> HIDE DEF d
  <2> QED  BY <1>1, <2>1, <2>3, FateType DEF SlotGood, SlotWait, SlotCalm
<1>2. CASE r = "oom"
  <2> DEFINE d == [c EXCEPT !.oom = TRUE]
  <2>1. Retry(c, r, "oom") = d  BY <1>2 DEF Retry, Send
  <2>2. /\ d \in Cache /\ ~d.wait /\ d.oom /\ d.timer # "due" /\ d.ever = c.ever
        /\ d.node = c.node /\ d.next = c.next /\ d.state = c.state
    BY DEF Cache
  <2> HIDE DEF d
  <2> QED  BY <1>2, <2>1, <2>2, FateType DEF SlotGood, SlotWait, SlotCalm
<1> QED  BY <1>1, <1>2, ReplyType DEF Results

\* A retry when the guard timer ran out: the slot goes on waiting, whether the
\* request is accepted or not.
LEMMA RetryExpiredWait ==
  ASSUME NEW c \in Cache, c.state \in Phases, NEW r \in Replies, r # "api",
         SlotGood(c, "lost")
  PROVE  LET d == Retry(c, r, "expired") IN
         /\ d \in Cache /\ d.wait
         /\ SlotGood(d, IF r = "ok" THEN Asked(c.state) ELSE "lost")
<1>1. CASE r = "ok"
  <2> DEFINE s == [c EXCEPT !.wait = TRUE, !.timer = "armed"]
             d == [s EXCEPT !.timer = "off"]
  <2>1. Retry(c, r, "expired") = d  BY <1>1 DEF Retry, Send
  <2>2. /\ s \in Cache /\ s.wait /\ s.oom = c.oom /\ s.ever = c.ever
        /\ s.next = c.next /\ s.state = c.state
    BY DEF Cache
  <2> HIDE DEF s
  <2>3. /\ d \in Cache /\ d.wait /\ d.oom = c.oom /\ d.timer = "off" /\ d.ever = c.ever
        /\ d.next = c.next /\ d.state = c.state
    BY <2>2 DEF Cache
  <2> HIDE DEF d
  <2>4. c.wait  BY DEF SlotGood, SlotWait
  <2> QED  BY <1>1, <2>1, <2>3, <2>4 DEF SlotGood, SlotWait, SlotCalm, Asked
<1>2. CASE r = "oom"
  <2> DEFINE d == [c EXCEPT !.oom = TRUE]
  <2>1. Retry(c, r, "expired") = d  BY <1>2 DEF Retry, Send
  <2>2. d \in Cache /\ d.wait = c.wait /\ d.timer = c.timer  BY DEF Cache
  <2> HIDE DEF d
  <2>3. ~Tolerable  BY <1>2, ReplyType DEF Tolerable, SlotGood, SlotWait
  <2> QED  BY <1>2, <2>1, <2>2, <2>3 DEF SlotGood, SlotWait
<1> QED  BY <1>1, <1>2, ReplyType DEF Results

\* A slot that asked for an end comes to it.
LEMMA NextStateEnds ==
  ASSUME NEW c \in Cache, c.node \in Nodes, c.next \in {end, rmend}
  PROVE  NextState(c) \in {end, rmend}
<1>1. /\ NextState(c) \in c.next..rmend
      /\ \A q \in c.next..(NextState(c) - 1) : ~Guard(c.node, q)
  BY NextStateAhead
<1>2. Guard(c.node, end) /\ Guard(c.node, rmend)  BY DEF Guard
<1>3. CASE c.next = rmend  BY <1>1, <1>3
<1>4. CASE c.next = end
  <2>1. end \notin end..(NextState(c) - 1)  BY <1>1, <1>2, <1>4
  <2> QED  BY <1>1, <1>4, <2>1
<1> QED  BY <1>3, <1>4

-----------------------------------------------------------------------------
(* One step *)

RGoal == WaitInv /\ CalmInv /\ abort # "no cache for handle"

\* A step that changes one slot and its request.
LEMMA OneSlotWait ==
  ASSUME RInv, NEW i \in Slots, NEW d, NEW a, SlotGood(d, a),
         cache' = [cache EXCEPT ![i] = d], answer' = [answer EXCEPT ![i] = a],
         stale' = stale, abort' = abort
  PROVE  RGoal'
<1>1. /\ ~stale' /\ abort' # "no cache for handle"
      /\ Tolerable => NoAbort'
  BY DEF RInv, NoAbort, WaitInv, CalmInv
<1>2. ASSUME NEW j \in Slots
      PROVE  SlotWait(cache[j], answer[j])' /\ (Tolerable => SlotCalm(cache[j])')
  <2>1. CASE j = i
    <3>1. cache'[j] = d /\ answer'[j] = a  BY <2>1 DEF RInv, IInv, TypeOK
    <3> QED  BY <3>1 DEF SlotGood, SlotWait, SlotCalm
  <2>2. CASE j # i
    <3>1. cache'[j] = cache[j] /\ answer'[j] = answer[j]  BY <2>2 DEF RInv, IInv, TypeOK
    <3>2. SlotWait(cache[j], answer[j]) /\ (Tolerable => SlotCalm(cache[j]))
      BY DEF RInv, WaitInv, CalmInv
    <3> QED  BY <3>1, <3>2 DEF SlotWait, SlotCalm
  <2> QED  BY <2>1, <2>2
<1> QED  BY <1>1, <1>2 DEF RGoal, WaitInv, CalmInv

\* A step that leaves slots and requests alone, or ends the process with one of
\* the two assertions that the faults make possible.
LEMMA NoSlotWait ==
  ASSUME RInv, UNCHANGED <<cache, answer, stale>>,
         \/ abort' = abort
         \/ ~Tolerable /\ abort' \in {"oom while waiting", "retry budget"}
  PROVE  RGoal'
<1>1. WaitInv'  BY DEF RInv, WaitInv, SlotWait
<1>2. ASSUME Tolerable PROVE NoAbort' /\ \A i \in Slots : SlotCalm(cache[i])'
  BY <1>2 DEF RInv, CalmInv, SlotCalm, NoAbort
<1>3. abort' # "no cache for handle"  BY DEF RInv
<1> QED  BY <1>1, <1>2, <1>3 DEF RGoal, CalmInv

\* Sending from a slot that nothing is due for leaves nothing stale.
LEMMA RepliedWait ==
  ASSUME RInv, NEW i \in Slots, answer[i] \notin Coming, NEW p, NEW r, Replied(i, p, r)
  PROVE  /\ stale' = stale
         /\ answer' = [answer EXCEPT ![i] = IF r = "ok" THEN Asked(p) ELSE answer[i]]
<1>1. CASE r = "ok"
  BY <1>1 DEF Replied, Issue, RInv, IInv, TypeOK
<1>2. CASE r # "ok"
  <2>1. answer' = answer /\ stale' = stale  BY <1>2 DEF Replied
  <2>2. answer = [answer EXCEPT ![i] = answer[i]]  BY DEF RInv, IInv, TypeOK
  <2> QED  BY <1>2, <2>1, <2>2
<1> QED  BY <1>1, <1>2

\* The end of a node forgets a handle for which nothing is due.
LEMMA EndEntryWait ==
  ASSUME RInv, NEW i \in Slots, answer[i] \notin Coming, NEW c, NEW s, EndEntry(i, c, s),
         abort' = abort
  PROVE  RGoal'
<1>1. /\ cache' = [cache EXCEPT ![i] = FreeCache]
      /\ answer' = [answer EXCEPT ![i] = "none"]
      /\ stale' = stale
  BY DEF EndEntry, Forget, RInv, IInv, TypeOK
<1>2. SlotGood(FreeCache, "none")
  BY DEF SlotGood, SlotWait, SlotCalm, FreeCache
<1> QED  BY <1>1, <1>2, OneSlotWait

\* Entering a state from a slot that does not wait.  After a failed retry of a
\* request whose event was lost it is an end.
LEMMA ToNextStateWait ==
  ASSUME RInv, NEW i \in Slots, NEW c \in Cache, c.node \in Nodes,
         answer[i] = "none" \/ (answer[i] \notin Coming /\ c.next \in {end, rmend}),
         ~c.wait, c.timer # "due", Tolerable => ~c.oom /\ (c.ever => "timeout" \in Faults),
         NEW r \in Replies, ToNextState(i, c, r), abort' = abort
  PROVE  RGoal'
<1> DEFINE p == NextState(c)
<1>0. answer[i] \notin Coming  BY DEF Coming
<1>1. p \in get_dcd..rmend  BY NextStateType
<1>2. p \in {end, rmend} \/ answer[i] = "none"  BY NextStateEnds
<1> HIDE DEF p
<1>3. CASE p \in {end, rmend}
  <2>1. EndEntry(i, c, p)  BY <1>3 DEF ToNextState, p
  <2> QED  BY <1>0, <2>1, EndEntryWait
<1>4. CASE p \in Phases /\ r = "api"
  <2>1. EndEntry(i, Send(c, p, r), end)  BY <1>4 DEF ToNextState, p
  <2> QED  BY <1>0, <2>1, EndEntryWait
<1>5. CASE p \in Phases /\ r # "api"
  <2> DEFINE e == Send(c, p, r)
             d == [e EXCEPT !.state = p, !.next = p]
  <2>1. cache' = [cache EXCEPT ![i] = d] /\ Replied(i, p, r)
    BY <1>5 DEF ToNextState, p
  <2>2. e \in Cache  BY <1>5, ReplyType, SendType
  <2>3. /\ SlotWait(e, Fate(p, r))
        /\ Tolerable => /\ e.oom => "oom" \in Faults
                        /\ e.ever => "timeout" \in Faults
                        /\ ~(e.wait /\ e.oom)
    BY <1>5, SendWait
  <2> HIDE DEF e
  <2>4. /\ d.wait = e.wait /\ d.oom = e.oom /\ d.timer = e.timer /\ d.ever = e.ever
        /\ d.next = d.state
    BY <1>5, <2>2 DEF Cache
  <2> HIDE DEF d
  <2>5. SlotGood(d, Fate(p, r))
    BY <2>3, <2>4 DEF SlotGood, SlotWait, SlotCalm
  <2>6. answer[i] = "none"  BY <1>2, <1>5
  <2>7. stale' = stale /\ answer' = [answer EXCEPT ![i] = Fate(p, r)]
    BY <1>0, <2>1, <2>6, RepliedWait DEF Fate
  <2> QED  BY <2>1, <2>5, <2>7, OneSlotWait
<1> QED  BY <1>1, <1>3, <1>4, <1>5

\* A turn of config_engine.
LEMMA EngineWait ==
  ASSUME RInv, NEW i \in Slots, NEW r \in Replies, NEW q \in Replies, Engine(i, r, q)
  PROVE  RGoal'
<1> DEFINE c == cache[i]
           kind == CASE c.timer = "due" -> "expired"
                     [] c.timer # "due" /\ c.oom -> "oom"
                     [] OTHER -> "none"
           c1 == IF kind = "none" THEN c ELSE Retry(c, r, kind)
<1>1. c \in Cache /\ SlotGood(c, answer[i]) /\ answer[i] \in Answers
  BY DEF RInv, IInv, TypeOK, WaitInv, CalmInv, SlotGood, Answers
<1>2. kind = IF c.timer = "due" THEN "expired" ELSE IF c.oom THEN "oom" ELSE "none"
  BY <1>1 DEF Cache
<1>3. IF c.node = None
        THEN UNCHANGED <<cache, answer, stale, fail, abort, db, acked>>
      ELSE IF kind = "oom" /\ c.wait
        THEN abort' = "oom while waiting" /\ UNCHANGED <<cache, answer, stale, fail, db, acked>>
      ELSE /\ UNCHANGED abort
           /\ IF c1.wait \/ c1.state = c1.next
                THEN /\ cache' = [cache EXCEPT ![i] = c1]
                     /\ IF kind = "none" THEN UNCHANGED <<answer, stale>>
                                         ELSE Replied(i, c.state, r)
                     /\ UNCHANGED <<fail, db, acked>>
                ELSE ToNextState(i, c1, q)
  BY DEF Engine
<1> HIDE DEF kind
<1>4. CASE c.node = None  BY <1>3, <1>4, NoSlotWait
<1>5. CASE c.node # None /\ kind = "oom" /\ c.wait
  <2>1. ~Tolerable  BY <1>1, <1>2, <1>5 DEF SlotGood, SlotCalm
  <2> QED  BY <1>3, <1>5, <2>1, NoSlotWait
<1> DEFINE Turn == c.node # None /\ ~(kind = "oom" /\ c.wait)
<1>6. Turn => /\ c.node \in Nodes
              /\ abort' = abort
              /\ c1.wait \/ c1.state = c1.next =>
                   /\ cache' = [cache EXCEPT ![i] = c1]
                   /\ kind = "none" => answer' = answer /\ stale' = stale
                   /\ kind # "none" => Replied(i, c.state, r)
              /\ ~(c1.wait \/ c1.state = c1.next) => ToNextState(i, c1, q)
  BY <1>1, <1>3 DEF Cache
<1> HIDE DEF c1
<1>7. CASE Turn /\ kind = "none"
  <2>1. c1 = c /\ ~c.oom /\ c.timer # "due"  BY <1>2, <1>7 DEF c1
  <2>2. CASE c.wait \/ c.state = c.next
    <3>1. /\ cache' = [cache EXCEPT ![i] = c] /\ answer' = [answer EXCEPT ![i] = answer[i]]
          /\ stale' = stale /\ abort' = abort
      BY <1>6, <1>7, <2>1, <2>2 DEF RInv, IInv, TypeOK
    <3> QED  BY <1>1, <3>1, OneSlotWait
  <2>3. CASE ~(c.wait \/ c.state = c.next)
    <3>1. ToNextState(i, c, q) /\ abort' = abort  BY <1>6, <1>7, <2>1, <2>3
    <3>2. answer[i] = "none" /\ ~c.wait  BY <1>1, <2>3 DEF SlotGood, SlotWait
    <3>3. Tolerable => (c.ever => "timeout" \in Faults)  BY <1>1 DEF SlotGood, SlotCalm
    <3> QED  BY <1>1, <1>6, <1>7, <2>1, <3>1, <3>2, <3>3, ToNextStateWait
  <2> QED  BY <2>2, <2>3
<1>8. c.timer # "off" \/ c.oom => c.state \in Phases
  BY DEF RInv, IInv, SlotInv, InPhase
<1>9. CASE Turn /\ kind # "none" /\ r = "api"
  <2>1. c1 = Retry(c, "api", kind) /\ c.state \in Phases  BY <1>2, <1>8, <1>9 DEF c1
  <2>2. /\ c1 \in Cache /\ c1.node = c.node /\ c1.state # c1.next /\ c1.next \in {end, rmend}
        /\ ~c1.wait /\ ~c1.oom /\ ~c1.ever /\ c1.timer = "off"
    BY <1>1, <2>1, RetryFails
  <2>3. ToNextState(i, c1, q) /\ abort' = abort  BY <1>6, <1>9, <2>2
  <2>4. answer[i] \notin Coming
    BY <1>1, <1>2, <1>9 DEF SlotGood, SlotWait, Coming
  <2> QED  BY <1>6, <1>9, <2>2, <2>3, <2>4, ToNextStateWait
<1>10. CASE Turn /\ kind = "oom" /\ r # "api"
  <2>1. /\ c1 = Retry(c, r, "oom") /\ c.oom /\ ~c.wait /\ c.timer # "due"
        /\ c.state \in Phases
    BY <1>2, <1>8, <1>10 DEF c1
  <2>2. answer[i] = "none" /\ (Tolerable => SlotCalm(c))
    BY <1>1, <2>1 DEF SlotGood, SlotWait
  <2>3. c1 \in Cache /\ c1.node = c.node /\ SlotGood(c1, Fate(c.state, r))
    BY <1>1, <1>10, <2>1, <2>2, RetryOomWait
  <2>4. CASE c1.wait \/ c1.state = c1.next
    <3>1. cache' = [cache EXCEPT ![i] = c1] /\ Replied(i, c.state, r) /\ abort' = abort
      BY <1>6, <1>10, <2>4
    <3>2. stale' = stale /\ answer' = [answer EXCEPT ![i] = Fate(c.state, r)]
      BY <2>2, <3>1, RepliedWait DEF Fate, Coming
    <3> QED  BY <2>3, <3>1, <3>2, OneSlotWait
  <2>5. CASE ~(c1.wait \/ c1.state = c1.next)
    <3>1. ToNextState(i, c1, q) /\ abort' = abort  BY <1>6, <1>10, <2>5
    <3>2. c1.timer # "due"  BY <2>3, FateType DEF SlotGood, SlotWait
    <3>3. Tolerable => ~c1.oom /\ (c1.ever => "timeout" \in Faults)
      BY <2>3, <2>5 DEF SlotGood, SlotCalm
    <3> QED  BY <1>6, <1>10, <2>2, <2>3, <2>5, <3>1, <3>2, <3>3, ToNextStateWait
  <2> QED  BY <2>4, <2>5
<1>11. CASE Turn /\ kind = "expired" /\ r # "api"
  <2>1. c1 = Retry(c, r, "expired") /\ c.timer = "due" /\ c.state \in Phases
    BY <1>2, <1>8, <1>11 DEF c1
  <2>2. answer[i] = "lost"  BY <1>1, <2>1 DEF SlotGood, SlotWait
  <2>3. c1.wait /\ SlotGood(c1, IF r = "ok" THEN Asked(c.state) ELSE "lost")
    BY <1>1, <1>11, <2>1, <2>2, RetryExpiredWait
  <2>4. cache' = [cache EXCEPT ![i] = c1] /\ Replied(i, c.state, r) /\ abort' = abort
    BY <1>6, <1>11, <2>3
  <2>5. /\ stale' = stale
        /\ answer' = [answer EXCEPT ![i] = IF r = "ok" THEN Asked(c.state) ELSE "lost"]
    BY <2>2, <2>4, RepliedWait DEF Coming
  <2> QED  BY <2>3, <2>4, <2>5, OneSlotWait
<1> QED  BY <1>2, <1>4, <1>5, <1>7, <1>9, <1>10, <1>11

-----------------------------------------------------------------------------
(* The events *)

\* The slot an event arrives in does not wait any more; if the faults can be
\* borne, it was not out of memory and its state was not about to be left.
LEMMA ArrivedWait ==
  ASSUME RInv, NEW i \in Slots, answer[i] # "none"
  PROVE  LET c == Arrived(i) IN
         /\ c \in Cache /\ c.state \in Phases /\ c.node \in Nodes
         /\ ~c.wait /\ c.timer = "off" /\ (Tolerable => Idle(c))
<1> DEFINE b == cache[i]
           d == [b EXCEPT !.timer = "off", !.wait = FALSE]
<1>1. b \in Cache /\ SlotGood(b, answer[i]) /\ b.state \in Phases /\ b.node # None
  BY DEF RInv, IInv, TypeOK, WaitInv, CalmInv, SlotGood, SlotInv, InPhase
<1>2. Arrived(i) = d  BY DEF Arrived
<1> HIDE DEF b
<1>3. b.wait /\ (Tolerable => Idle(b))  BY <1>1 DEF SlotGood, SlotWait, SlotCalm, Idle
<1>4. /\ d \in Cache /\ d.state = b.state /\ d.node = b.node
      /\ ~d.wait /\ d.oom = b.oom /\ d.timer = "off" /\ d.next = b.next /\ d.ever = b.ever
  BY <1>1, <1>3 DEF Cache
<1>5. b.node \in Nodes  BY <1>1 DEF Cache
<1> HIDE DEF d
<1> QED  BY <1>1, <1>2, <1>3, <1>4, <1>5 DEF Idle

\* The event was for the last request of the slot, and d is what is left of it.
LEMMA HandledWait ==
  ASSUME RInv, NEW i \in Slots, NEW d, NEW p, NEW r, Handled(i, d), Consumed(i, p, r),
         SlotGood(d, Fate(p, r))
  PROVE  RGoal'
<1>1. /\ cache' = [cache EXCEPT ![i] = d] /\ abort' = abort
      /\ answer' = [answer EXCEPT ![i] = Fate(p, r)] /\ stale' = stale
  BY DEF Handled, Consumed, Fate
<1> QED  BY <1>1, OneSlotWait

\* A retry on timeout meets its assertion only with faults that cannot be borne.
LEMMA RetriedWait ==
  ASSUME RInv, NEW i \in Slots, NEW r \in Replies, NEW b \in Cache, b.state \in Phases,
         ~b.wait, b.timer = "off", Tolerable => Idle(b) /\ b.ever /\ b.rem > 0,
         RetryTimeout(i, b, r)
  PROVE  RGoal'
<1>1. CASE RetryAsserts(b, r)
  <2>1. abort' = "retry budget" /\ UNCHANGED <<cache, answer, stale>>
    BY <1>1 DEF RetryTimeout
  <2>2. ~Tolerable
    <3>1. b.rem \in Nat  BY DEF Cache
    <3> QED  BY <1>1, <3>1 DEF RetryAsserts
  <2> QED  BY <2>1, <2>2, NoSlotWait
<1>2. CASE ~RetryAsserts(b, r)
  <2>1. Handled(i, Retry(b, r, "timeout")) /\ Consumed(i, b.state, r)
    BY <1>2 DEF RetryTimeout
  <2>2. SlotGood(Retry(b, r, "timeout"), Fate(b.state, r))  BY RetryTimeoutWait
  <2> QED  BY <2>1, <2>2, HandledWait
<1> QED  BY <1>1, <1>2

\* A success, or `insufficient resources'.
LEMMA ProgressWait ==
  ASSUME RInv, NEW i \in Slots, NEW r \in Replies, NEW ev \in {"success", "nores"},
         RecvProgress(i, ev, r)
  PROVE  RGoal'
<1> DEFINE c == Arrived(i)
           p == c.state
           last == Work[c.node][p]
           c1 == IF ev = "success" THEN [c EXCEPT !.ever = FALSE, !.rem = 0] ELSE c
           f == PhaseDone(c1)
<1>1. answer[i] # "none"  BY DEF RecvProgress
<1>2. /\ c \in Cache /\ p \in Phases /\ c.node \in Nodes
      /\ ~c.wait /\ c.timer = "off" /\ (Tolerable => Idle(c))
  BY <1>1, ArrivedWait
<1>3. c.it \in Nat /\ last \in Nat  BY <1>2, WorkAssumption DEF Cache
<1>4. PICK j \in Nat :
        /\ ev = "nores" => "nores" \in Faults
        /\ j < last => /\ Handled(i, Send([c1 EXCEPT !.it = j], p, r))
                       /\ Consumed(i, p, r)
        /\ ~(j < last) /\ c1.ever => RetryTimeout(i, f, r)
        /\ ~(j < last) /\ ~c1.ever => Handled(i, f) /\ Consumed(i, p, "none")
  <2>1. PICK j \in (IF ev = "nores" THEN c.it + 1..last ELSE {c.it + 1}) :
          IF j < last
            THEN Handled(i, Send([c1 EXCEPT !.it = j], p, r)) /\ Consumed(i, p, r)
            ELSE IF c1.ever THEN RetryTimeout(i, f, r)
                            ELSE Handled(i, f) /\ Consumed(i, p, "none")
    BY DEF RecvProgress
  <2>2. j \in Nat  BY <1>3, <2>1
  <2>3. ev = "nores" => "nores" \in Faults  BY DEF RecvProgress
  <2> QED  BY <2>1, <2>2, <2>3
<1> HIDE DEF c
<1>5. /\ c1 \in Cache /\ c1.state = p /\ c1.node = c.node
      /\ ~c1.wait /\ c1.timer = "off" /\ (Tolerable => Idle(c1))
      /\ ev = "success" => ~c1.ever
  BY <1>2 DEF Cache, Idle
<1>6. Tolerable => ~c1.ever
  BY <1>4, <1>5 DEF Tolerable, Idle
<1> HIDE DEF c1
<1>7. CASE j < last
  <2> DEFINE e == [c1 EXCEPT !.it = j]
  <2>1. /\ e \in Cache /\ e.state = p
        /\ ~e.wait /\ e.timer = "off" /\ (Tolerable => Idle(e))
    BY <1>5 DEF Cache, Idle
  <2>2. Handled(i, Send(e, p, r)) /\ Consumed(i, p, r)  BY <1>4, <1>7
  <2> HIDE DEF e
  <2>3. SlotGood(Send(e, p, r), Fate(p, r))  BY <1>2, <2>1, SendWait DEF SlotGood
  <2> QED  BY <2>2, <2>3, HandledWait
<1>8. CASE ~(j < last)
  <2>1. /\ f \in Cache /\ f.state = p /\ ~f.wait /\ f.timer = "off"
        /\ f.oom = c1.oom /\ f.ever = c1.ever
    <3>1. f \in Cache /\ f.state = c1.state
      BY <1>2, <1>5, PhaseDoneType DEF RInv, IInv, TypeOK
    <3> QED  BY <1>5, <3>1 DEF PhaseDone, Cache
  <2> HIDE DEF f
  <2>2. CASE c1.ever
    <3>1. ~Tolerable  BY <1>6, <2>2
    <3> QED  BY <1>2, <1>4, <1>8, <2>1, <2>2, <3>1, RetriedWait
  <2>3. CASE ~c1.ever
    <3>1. SlotGood(f, "none")
      BY <1>5, <2>1, <2>3 DEF SlotGood, SlotWait, SlotCalm, Idle
    <3>2. Fate(p, "none") = "none"  BY DEF Fate
    <3> QED  BY <1>4, <1>8, <2>3, <3>1, <3>2, HandledWait
  <2> QED  BY <2>2, <2>3
<1> QED  BY <1>7, <1>8

\* A timeout: the retry has a budget, or the node is given up.
LEMMA TimeoutWait ==
  ASSUME RInv, NEW i \in Slots, NEW r \in Replies, RecvTimeout(i, r)
  PROVE  RGoal'
<1> DEFINE c == Arrived(i)
           p == c.state
           c0 == [c EXCEPT !.ever = TRUE, !.rem = RetryTimes[p]]
           c1 == [c EXCEPT !.ever = FALSE, !.rem = 0]
           f == IF p = rm THEN [c1 EXCEPT !.next = to_next] ELSE ErrSetTo(c1, end)
<1>1. answer[i] # "none" /\ "timeout" \in Faults  BY DEF RecvTimeout, Coming
<1>2. /\ c \in Cache /\ p \in Phases /\ c.node \in Nodes
      /\ ~c.wait /\ c.timer = "off" /\ (Tolerable => Idle(c))
  BY <1>1, ArrivedWait
<1>3. c.ever \in BOOLEAN /\ c.rem \in Nat  BY <1>2 DEF Cache
<1>4. \/ RetryTimeout(i, c0, r)
      \/ c.ever /\ c.rem > 0 /\ RetryTimeout(i, c, r)
      \/ Consumed(i, p, "none") /\ Handled(i, f)
  <2>1. CASE ~c.ever  BY <1>3, <2>1 DEF RecvTimeout
  <2>2. CASE c.ever /\ c.rem > 0  BY <1>3, <2>2 DEF RecvTimeout
  <2>3. CASE c.ever /\ c.rem <= 0  BY <1>3, <2>3 DEF RecvTimeout
  <2> QED  BY <1>3, <2>1, <2>2, <2>3
<1> HIDE DEF c
<1>5. CASE RetryTimeout(i, c0, r)
  <2>1. RetryTimes[p] \in Nat /\ RetryTimes[p] > 0  BY <1>2, RetryAssumption
  <2>2. /\ c0 \in Cache /\ c0.state = p /\ c0.ever /\ c0.rem > 0
        /\ ~c0.wait /\ c0.timer = "off" /\ (Tolerable => Idle(c0))
    BY <1>1, <1>2, <2>1 DEF Cache, Idle
  <2> HIDE DEF c0
  <2> QED  BY <1>2, <1>5, <2>2, RetriedWait
<1>6. CASE c.ever /\ c.rem > 0 /\ RetryTimeout(i, c, r)
  BY <1>2, <1>6, RetriedWait
<1>7. CASE Consumed(i, p, "none") /\ Handled(i, f)
  <2>1. c1 \in Cache /\ ~c1.wait /\ c1.timer = "off" /\ (Tolerable => ~c1.oom) /\ ~c1.ever
    BY <1>2 DEF Cache, Idle
  <2> HIDE DEF c1
  <2>2. ~f.wait /\ (Tolerable => ~f.oom) /\ f.timer # "due" /\ ~f.ever
    <3>1. CASE p = rm  BY <2>1, <3>1 DEF Cache
    <3>2. CASE p # rm
      <4>1. ~ErrSetTo(c1, end).ever  BY <2>1 DEF ErrSetTo, Cache
      <4> QED  BY <2>1, <3>2, <4>1, ErrSetToType
    <3> QED  BY <3>1, <3>2
  <2> HIDE DEF f
  <2>3. SlotGood(f, "none")  BY <2>2 DEF SlotGood, SlotWait, SlotCalm
  <2>4. Fate(p, "none") = "none"  BY DEF Fate
  <2> QED  BY <1>7, <2>3, <2>4, HandledWait
<1> QED  BY <1>4, <1>5, <1>6, <1>7

\* A status event of slot i.
LEMMA StatusEventWait ==
  ASSUME RInv, NEW i \in Slots, NEW r \in Replies, StatusEvent(i, r)
  PROVE  RGoal'
<1>1. ASSUME RecvError(i) PROVE RGoal'
  <2> DEFINE c == Arrived(i)
             s == EndOf(cache[i].state)
             f == ErrSetTo(c, s)
  <2>1. answer[i] # "none"  BY <1>1 DEF RecvError, Coming
  <2>2. c \in Cache  BY <2>1, ArrivedWait
  <2>3. Handled(i, f) /\ Consumed(i, cache[i].state, "none")
    BY <1>1 DEF RecvError
  <2>4. s \in get_dcd..rmend  BY DEF EndOf
  <2> HIDE DEF c, s
  <2>5. ~f.wait /\ ~f.oom /\ f.timer # "due" /\ ~f.ever
    <3>1. ~f.ever  BY <2>2 DEF ErrSetTo, Cache
    <3> QED  BY <2>2, <2>4, <3>1, ErrSetToType
  <2> HIDE DEF f
  <2>6. SlotGood(f, "none")  BY <2>5 DEF SlotGood, SlotWait, SlotCalm
  <2>7. Fate(cache[i].state, "none") = "none"  BY DEF Fate
  <2> QED  BY <2>3, <2>6, <2>7, HandledWait
<1> QED  BY <1>1, ProgressWait, TimeoutWait DEF StatusEvent

\* Composition data switch the guard timer off; the request is still out.
LEMMA DcdEventWait ==
  ASSUME RInv, NEW i \in Slots, DcdEvent(i)
  PROVE  RGoal'
<1> DEFINE b == cache[i]
           d == [b EXCEPT !.timer = "off", !.dcd = TRUE]
<1>1. /\ answer[i] = "data" /\ stale' = stale /\ abort' = abort
      /\ answer' = [answer EXCEPT ![i] = "status"] /\ cache' = [cache EXCEPT ![i] = d]
  BY DEF DcdEvent, RecvDcdData, Handled
<1>2. b \in Cache /\ SlotGood(b, "data")
  BY <1>1 DEF RInv, IInv, TypeOK, WaitInv, CalmInv, SlotGood
<1> HIDE DEF b
<1>3. /\ d.wait = b.wait /\ d.oom = b.oom /\ d.timer = "off" /\ d.ever = b.ever
      /\ d.next = b.next /\ d.state = b.state
  BY <1>2 DEF Cache
<1> HIDE DEF d
<1>4. SlotGood(d, "status")  BY <1>2, <1>3 DEF SlotGood, SlotWait, SlotCalm
<1> QED  BY <1>1, <1>4, OneSlotWait

\* Loading starts nothing.
LEMMA AccLoopWait ==
  ASSUME RInv, AccLoop
  PROVE  RGoal'
<1> DEFINE type == IF mode = "removing" THEN "rm" ELSE "config"
           L == ListOf(type)
<1>1. PICK D \in SUBSET (Slots \ Used) : \E f \in Injection(D, L) :
        cache' = [i \in Slots |-> IF i \in D THEN ItemLoad(f[i], type) ELSE cache[i]]
  BY DEF AccLoop, CachesLoad
<1>2. PICK f \in Injection(D, L) :
        cache' = [i \in Slots |-> IF i \in D THEN ItemLoad(f[i], type) ELSE cache[i]]
  BY <1>1
<1>3. UNCHANGED <<answer, stale, abort>>
  BY DEF AccLoop
<1> HIDE DEF L, type
<1>4. ASSUME NEW x \in Slots
      PROVE  SlotWait(cache[x], answer[x])' /\ (Tolerable => SlotCalm(cache[x])')
  <2>1. CASE x \in D
    <3>1. cache'[x] = ItemLoad(f[x], type)  BY <1>2, <2>1
    <3>2. /\ ~cache'[x].wait /\ ~cache'[x].oom /\ ~cache'[x].ever
          /\ cache'[x].timer = "off"
      BY <3>1 DEF ItemLoad, FreeCache
    <3>3. cache[x].node = None  BY <2>1 DEF Used
    <3>4. answer'[x] = "none"  BY <1>3, <3>3 DEF RInv, IInv, SlotInv, InPhase
    <3> QED  BY <3>2, <3>4 DEF SlotWait, SlotCalm
  <2>2. CASE x \notin D
    <3>1. cache'[x] = cache[x] /\ answer'[x] = answer[x]  BY <1>2, <1>3, <2>2
    <3>2. SlotWait(cache[x], answer[x]) /\ (Tolerable => SlotCalm(cache[x]))
      BY DEF RInv, WaitInv, CalmInv
    <3> QED  BY <3>1, <3>2 DEF SlotWait, SlotCalm
  <2> QED  BY <2>1, <2>2
<1> QED  BY <1>3, <1>4 DEF RInv, RGoal, WaitInv, CalmInv, NoAbort

\* An event gets lost: its slot goes on waiting.
LEMMA LoseWait ==
  ASSUME RInv, NEW i \in Slots, Lose(i)
  PROVE  RGoal'
<1> DEFINE c == cache[i]
<1>1. SlotGood(c, answer[i]) /\ answer[i] \in Coming /\ "loss" \in Faults
  BY DEF RInv, WaitInv, CalmInv, SlotGood, Lose
<1>2. SlotGood(c, "lost")
  BY <1>1 DEF SlotGood, SlotWait, Coming
<1>3. /\ cache' = [cache EXCEPT ![i] = c] /\ answer' = [answer EXCEPT ![i] = "lost"]
      /\ stale' = stale /\ abort' = abort
  BY DEF Lose, RInv, IInv, TypeOK
<1> QED  BY <1>2, <1>3, OneSlotWait

\* With no low power node, a guard timer runs out only when the event was lost.
LEMMA ExpireWait ==
  ASSUME RInv, LowPower = {}, NEW i \in Slots, Expire(i)
  PROVE  RGoal'
<1> DEFINE c == cache[i]
           d == [c EXCEPT !.timer = "due"]
<1>1. SlotGood(c, answer[i]) /\ answer[i] = "lost" /\ c \in Cache
  BY DEF RInv, IInv, TypeOK, WaitInv, CalmInv, SlotGood, Expire
<1>2. /\ cache' = [cache EXCEPT ![i] = d] /\ answer' = [answer EXCEPT ![i] = "lost"]
      /\ stale' = stale /\ abort' = abort
  <2>1. answer = [answer EXCEPT ![i] = answer[i]]  BY DEF RInv, IInv, TypeOK
  <2> QED  BY <1>1, <2>1 DEF Expire
<1> HIDE DEF c
<1>3. /\ d.wait = c.wait /\ d.oom = c.oom /\ d.ever = c.ever
      /\ d.next = c.next /\ d.state = c.state
  BY <1>1 DEF Cache
<1> HIDE DEF d
<1>4. SlotGood(d, "lost")  BY <1>1, <1>3 DEF SlotGood, SlotWait, SlotCalm
<1> QED  BY <1>2, <1>4, OneSlotWait

\* Every step of the system.
LEMMA NextRInv ==
  ASSUME LowPower = {}
  PROVE  RInv /\ [Next]_vars => RInv'
<1> SUFFICES ASSUME RInv, [Next]_vars PROVE RInv'  OBVIOUS
<1>1. IInv'  BY NextIInv DEF RInv
<1>2. RGoal'
  <2>1. ASSUME UNCHANGED <<cache, answer, stale, abort>> PROVE RGoal'
    BY <2>1, NoSlotWait
  <2>2. CASE AccLoop  BY <2>2, AccLoopWait
  <2>3. CASE SetMngState  BY <2>1, <2>3 DEF SetMngState
  <2>4. ASSUME NEW i \in Slots, NEW r \in Replies, NEW q \in Replies, Engine(i, r, q)
        PROVE  RGoal'
    BY <2>4, EngineWait
  <2>5. ~StaleEvent  BY DEF StaleEvent, RecvStale, RInv, WaitInv
  <2>6. CASE DevConfigHdr  BY <2>5, <2>6, DcdEventWait, StatusEventWait DEF DevConfigHdr
  <2>7. ASSUME NEW R \in SUBSET prov, Sync(R) PROVE RGoal'
    BY <2>1, <2>7 DEF Sync
  <2>8. CASE SyncStop  BY <2>1, <2>8 DEF SyncStop
  <2>9. ASSUME NEW n \in Nodes, Provisioned(n) PROVE RGoal'
    BY <2>1, <2>9 DEF Provisioned
  <2>10. ASSUME NEW i \in Slots, Lose(i) \/ Expire(i) PROVE RGoal'
    BY <2>10, LoseWait, ExpireWait
  <2>11. ASSUME NEW R \in SUBSET prov, RmBlClr(R) PROVE RGoal'
    <3>1. UNCHANGED <<cache, answer, stale>> /\ abort' \in {abort, "freed"}
      BY <2>11 DEF RmBlClr
    <3>2. WaitInv'  BY <3>1 DEF RInv, WaitInv, SlotWait
    <3>3. ASSUME Tolerable PROVE NoAbort' /\ \A i \in Slots : SlotCalm(cache[i])'
      BY <3>1, <3>3 DEF RInv, CalmInv, SlotCalm, NoAbort
    <3>4. abort' # "no cache for handle"  BY <3>1 DEF RInv
    <3> QED  BY <3>2, <3>3, <3>4 DEF RGoal, CalmInv
  <2>12. CASE UNCHANGED vars  BY <2>1, <2>12 DEF vars
  <2> QED  BY <2>2, <2>3, <2>4, <2>6, <2>7, <2>8, <2>9, <2>10, <2>11, <2>12 DEF Next, Pass
<1> QED  BY <1>1, <1>2 DEF RInv, RGoal

\* Initially no slot waits and no event is coming.
LEMMA InitRInv == Init => RInv
<1> SUFFICES ASSUME Init PROVE RInv  OBVIOUS
<1>1. \A i \in Slots : cache[i] = FreeCache /\ answer[i] = "none"
  BY DEF Init
<1>2. SlotWait(FreeCache, "none") /\ SlotCalm(FreeCache)
  BY DEF SlotWait, SlotCalm, FreeCache
<1>3. WaitInv /\ CalmInv  BY <1>1, <1>2 DEF WaitInv, CalmInv, Init, NoAbort
<1> QED  BY <1>3, InitIInv DEF RInv, Init

\* The WAIT_RESPONSE flag of a slot and the request at the NCP agree at every
\* moment, under every fault, if no node is a low power one: nothing is awaited in
\* vain but an event that was lost, and no answer is dropped.
THEOREM EngineWaitMatches ==
  ASSUME LowPower = {}
  PROVE  Spec => []WaitMatchesNcp
<1>1. RInv => WaitMatchesNcp  BY DEF RInv, WaitInv, SlotWait, WaitMatchesNcp
<1> QED  BY InitRInv, NextRInv, <1>1, PTL DEF Spec

\* The guard timer of timer_set runs out only when the event is not coming any
\* more, and cache_from_cchandle always finds the slot of an event, under every
\* fault, if no node is a low power one.
THEOREM EngineGuardOutlives ==
  ASSUME LowPower = {}
  PROVE  Spec => [](GuardOutlivesNcp /\ abort # "no cache for handle")
<1>1. RInv => GuardOutlivesNcp /\ abort # "no cache for handle"
  BY DEF RInv, WaitInv, SlotWait, GuardOutlivesNcp, Coming
<1> QED  BY InitRInv, NextRInv, <1>1, PTL DEF Spec

\* With faults that can be borne the engine's assertions and its "no cache for
\* handle" abort are unreachable: config_engine never retries an OOM while it
\* waits, as_*_retry never runs out of budget.
THEOREM ToleratedNoAbort ==
  ASSUME Tolerable
  PROVE  Spec => [](NoAbort /\ OomNeverWaits)
<1>1. LowPower = {}  BY DEF Tolerable
<1>2. RInv => NoAbort /\ OomNeverWaits
  BY DEF RInv, CalmInv, SlotCalm, OomNeverWaits
<1> QED  BY <1>1, <1>2, InitRInv, NextRInv, PTL DEF Spec

-----------------------------------------------------------------------------
(***************************************************************************)
(* The engine implements Acc for any number of nodes, slots, retries and   *)
(* requests, and however the NCP target misbehaves.                        *)
(*                                                                         *)
(* Most steps change one slot in a way that Acc does not see: Moves.  The  *)
(* others are the end of a node, loading the slots, and the commands.      *)
(***************************************************************************)

\* What a step may do to a slot without changing the kind of its work.
Same(c, d) == /\ d.node = c.node
              /\ CfgSlot(c) => CfgSlot(d)
              /\ RmSlot(c) => RmSlot(d)

\* A step that changes at most one slot, and that within its kind.
Moves ==
  /\ \/ UNCHANGED cache
     \/ \E i \in Used : \E d \in Cache :
          Same(cache[i], d) /\ cache' = [cache EXCEPT ![i] = d]
  /\ UNCHANGED <<config, rmlist, mode, fail, prov, done>>

PInv == IInv /\ KindInv /\ FailInv

-----------------------------------------------------------------------------
(* The operators on one slot keep its kind *)

\* err_set_to_end and err_set_to_rm_end lead to the end of the slot's kind.
LEMMA ErrSetToSame ==
  ASSUME NEW c \in Cache, c.state \in Phases
  PROVE  Same(c, ErrSetTo(c, EndOf(c.state)))
BY DEF Same, CfgSlot, RmSlot, ErrSetTo, EndOf, Cache

\* A request, sent in its phase.
LEMMA SendSame ==
  ASSUME NEW c \in Cache, c.state \in Phases, NEW r \in Results
  PROVE  Same(c, Send(c, c.state, r))
<1>1. CASE r = "ok"   BY <1>1 DEF Send, Same, CfgSlot, RmSlot, Cache
<1>2. CASE r = "oom"  BY <1>2 DEF Send, Same, CfgSlot, RmSlot, Cache
<1>3. CASE r = "api"  BY <1>3, ErrSetToSame DEF Send
<1> QED  BY <1>1, <1>2, <1>3 DEF Results

\* A retry: accounting for it changes neither the state nor the next one.
LEMMA RetrySame ==
  ASSUME NEW c \in Cache, c.state \in Phases, NEW r \in Results,
         NEW reason \in {"timeout", "oom", "expired"}
  PROVE  Same(c, Retry(c, r, reason))
<1> DEFINE s == Send(c, c.state, r)
           d == Retry(c, r, reason)
<1>1. Same(c, s) /\ s \in Cache  BY SendSame, SendType
<1>2. d.node = s.node /\ d.state = s.state /\ d.next = s.next
  <2>1. \/ d = s
        \/ d = [s EXCEPT !.rem = s.rem - 1]
        \/ d = [s EXCEPT !.oom = FALSE]
        \/ d = [s EXCEPT !.timer = "off"]
    BY DEF Retry
  <2> HIDE DEF s, d
  <2> QED  BY <1>1, <2>1 DEF Cache
<1> HIDE DEF s, d
<1>3. Same(c, d)  BY <1>1, <1>2 DEF Same, CfgSlot, RmSlot
<1> QED  BY <1>3 DEF d

\* The end of a phase asks for the next state, or for one of the configuration.
LEMMA PhaseDoneSame ==
  ASSUME IInv, NEW c \in Cache, c.node \in Nodes, c.state \in Phases
  PROVE  Same(c, PhaseDone(c))
<1> DEFINE x == IF c.state = get_dcd THEN Resume(c.node) ELSE to_next
<1>1. x \in {to_next} \cup (addappkey..setconfig) /\ (c.state = rm => x = to_next)
  BY ResumeType
<1>2. PhaseDone(c) = [c EXCEPT !.it = 0, !.next = x]  BY DEF PhaseDone
<1> HIDE DEF x
<1> QED  BY <1>1, <1>2 DEF Same, CfgSlot, RmSlot, Cache

\* Keeping the kind is transitive.
LEMMA SameTrans ==
  ASSUME NEW c, NEW d, NEW e, Same(c, d), Same(d, e)
  PROVE  Same(c, e)
BY DEF Same

-----------------------------------------------------------------------------
(* The events only move a slot *)

\* A slot whose request is out is in a phase of a node.
LEMMA Awaiting ==
  ASSUME IInv, NEW i \in Slots, answer[i] # "none"
  PROVE  i \in Used /\ cache[i] \in Cache /\ cache[i].state \in Phases /\ cache[i].node \in Nodes
BY DEF IInv, TypeOK, SlotInv, InPhase, Used, Cache

\* The slot in which an event arrived has kept its kind.
LEMMA ArrivedSame ==
  ASSUME IInv, NEW i \in Slots
  PROVE  Same(cache[i], Arrived(i))
<1> DEFINE b == cache[i]
<1>1. b \in Cache  BY DEF IInv, TypeOK
<1>2. Arrived(i) = [b EXCEPT !.timer = "off", !.wait = FALSE]  BY DEF Arrived
<1> HIDE DEF b
<1>3. Same(b, Arrived(i))  BY <1>1, <1>2 DEF Same, CfgSlot, RmSlot, Cache
<1> QED  BY <1>3 DEF b

\* An event that was handled with a slot of the same kind.
LEMMA HandledMoves ==
  ASSUME IInv, NEW i \in Slots, answer[i] # "none", NEW d \in Cache,
         Same(cache[i], d), Handled(i, d), UNCHANGED <<fail, pos, lists>>
  PROVE  Moves
BY Awaiting DEF Moves, Handled, db, lists

\* A retry on timeout, or its ASSERT.
LEMMA RetryTimeoutMoves ==
  ASSUME IInv, NEW i \in Slots, answer[i] # "none", NEW c \in Cache,
         Same(cache[i], c), c.state \in Phases, NEW r \in Results,
         RetryTimeout(i, c, r), UNCHANGED <<fail, pos, lists>>
  PROVE  Moves
<1>1. CASE RetryAsserts(c, r)
  BY <1>1 DEF RetryTimeout, Moves, db, lists
<1>2. CASE ~RetryAsserts(c, r)
  <2> DEFINE d == Retry(c, r, "timeout")
  <2>1. Handled(i, d)  BY <1>2 DEF RetryTimeout
  <2>2. r = "ok" => c.rem > 0  BY <1>2 DEF RetryAsserts, Cache
  <2>3. d \in Cache /\ Same(cache[i], d)
    BY <2>2, RetryType, RetrySame, SameTrans
  <2> HIDE DEF d
  <2> QED  BY <2>1, <2>3, HandledMoves
<1> QED  BY <1>1, <1>2

\* Progress within a phase, or its end.
LEMMA RecvProgressMoves ==
  ASSUME IInv, NEW i \in Slots, NEW ev, NEW r \in Results, RecvProgress(i, ev, r),
         UNCHANGED <<fail, pos, lists>>
  PROVE  Moves
<1> DEFINE c == Arrived(i)
           p == c.state
           last == Work[c.node][p]
           c1 == IF ev = "success" THEN [c EXCEPT !.ever = FALSE, !.rem = 0] ELSE c
<1>1. c \in Cache /\ c.node = cache[i].node /\ p = cache[i].state
  BY ArrivedType
<1>2. answer[i] = "status"  BY DEF RecvProgress
<1>3. p \in Phases /\ c.node \in Nodes  BY <1>1, <1>2, Awaiting
<1>4. c1 \in Cache /\ c1.node = c.node /\ c1.state = p /\ c1.next = c.next
  BY <1>1 DEF Cache
<1>5. last \in Nat /\ c.it \in Nat  BY <1>1, <1>3, WorkAssumption DEF Cache
<1>6. PICK j \in (IF ev = "nores" THEN c.it + 1..last ELSE {c.it + 1}) :
        IF j < last
          THEN Handled(i, Send([c1 EXCEPT !.it = j], p, r))
          ELSE IF c1.ever THEN RetryTimeout(i, PhaseDone(c1), r)
                          ELSE Handled(i, PhaseDone(c1))
  BY DEF RecvProgress
<1>7. j \in Nat  BY <1>5
<1>8. Same(cache[i], c1)
  <2>1. Same(cache[i], c)  BY ArrivedSame
  <2> HIDE DEF c, c1
  <2> QED  BY <1>4, <2>1 DEF Same, CfgSlot, RmSlot
<1> HIDE DEF c, last, c1
<1>9. CASE j < last
  <2> DEFINE e == [c1 EXCEPT !.it = j]
             d == Send(e, p, r)
  <2>1. e \in Cache /\ e.node = c1.node /\ e.state = p /\ e.next = c1.next
    BY <1>4, <1>7 DEF Cache
  <2>2. Handled(i, d)  BY <1>6, <1>9
  <2> HIDE DEF e
  <2>3. Same(c1, e)  BY <1>4, <2>1 DEF Same, CfgSlot, RmSlot
  <2>4. d \in Cache /\ Same(e, d)  BY <1>3, <2>1, SendType, SendSame
  <2> HIDE DEF d
  <2>5. Same(cache[i], d)  BY <1>8, <2>3, <2>4, SameTrans
  <2> QED  BY <1>2, <2>2, <2>4, <2>5, HandledMoves
<1>10. CASE ~(j < last)
  <2> DEFINE d == PhaseDone(c1)
  <2>1. d \in Cache /\ d.state = p /\ Same(c1, d)
    BY <1>3, <1>4, PhaseDoneType, PhaseDoneSame
  <2>2. IF c1.ever THEN RetryTimeout(i, d, r) ELSE Handled(i, d)
    BY <1>6, <1>10
  <2> HIDE DEF d
  <2>3. Same(cache[i], d)  BY <1>8, <2>1, SameTrans
  <2> QED  BY <1>2, <1>3, <2>1, <2>2, <2>3, RetryTimeoutMoves, HandledMoves
<1> QED  BY <1>9, <1>10

\* A timeout.  The removing state gives up towards rmend, the others towards end.
LEMMA RecvTimeoutMoves ==
  ASSUME IInv, NEW i \in Slots, NEW r \in Results, RecvTimeout(i, r),
         UNCHANGED <<fail, pos, lists>>
  PROVE  Moves
<1> DEFINE c == Arrived(i)
           p == c.state
           c0 == [c EXCEPT !.ever = TRUE, !.rem = RetryTimes[p]]
           c1 == [c EXCEPT !.ever = FALSE, !.rem = 0]
           d == IF p = rm THEN [c1 EXCEPT !.next = to_next] ELSE ErrSetTo(c1, end)
<1>1. c \in Cache /\ c.node = cache[i].node /\ p = cache[i].state /\ Same(cache[i], c)
  BY ArrivedType, ArrivedSame
<1>2. answer[i] # "none"  BY DEF RecvTimeout, Coming
<1>3. p \in Phases  BY <1>1, <1>2, Awaiting
<1>4. \/ RetryTimeout(i, c0, r)
      \/ RetryTimeout(i, c, r)
      \/ Handled(i, d)
  <2>1. c.ever \in BOOLEAN /\ c.rem \in Nat  BY <1>1 DEF Cache
  <2>2. CASE ~c.ever  BY <2>1, <2>2 DEF RecvTimeout
  <2>3. CASE c.ever /\ c.rem > 0  BY <2>1, <2>3 DEF RecvTimeout
  <2>4. CASE c.ever /\ c.rem <= 0  BY <2>1, <2>4 DEF RecvTimeout
  <2> QED  BY <2>1, <2>2, <2>3, <2>4
<1> HIDE DEF c
<1>5. c0 \in Cache /\ c0.node = c.node /\ c0.state = p /\ c0.next = c.next
  <2>1. RetryTimes[p] \in Nat  BY <1>3, RetryAssumption
  <2> QED  BY <1>1, <2>1 DEF Cache
<1>6. c1 \in Cache /\ c1.node = c.node /\ c1.state = p /\ c1.next = c.next
  BY <1>1 DEF Cache
<1> HIDE DEF c0, c1
<1>7. d \in Cache /\ Same(c1, d)
  <2>1. CASE p = rm  BY <1>6, <2>1 DEF Same, CfgSlot, RmSlot, Cache
  <2>2. CASE p # rm
    <3>1. d = ErrSetTo(c1, EndOf(p))  BY <1>3, <2>2 DEF EndOf
    <3> QED  BY <1>3, <1>6, <2>2, <3>1, ErrSetToType, ErrSetToSame
  <2> QED  BY <2>1, <2>2
<1> HIDE DEF d
<1>8. Same(c, c0) /\ Same(c, c1)  BY <1>1, <1>5, <1>6 DEF Same, CfgSlot, RmSlot
<1>9. Same(cache[i], c0) /\ Same(cache[i], d)  BY <1>1, <1>7, <1>8, SameTrans
<1> QED  BY <1>1, <1>2, <1>3, <1>4, <1>5, <1>7, <1>9, RetryTimeoutMoves, HandledMoves

\* Any other event.
LEMMA DevConfigHdrMoves ==
  ASSUME IInv, DevConfigHdr
  PROVE  Moves
<1>1. ASSUME NEW i \in Slots, DcdEvent(i) PROVE Moves
  <2> DEFINE b == cache[i]
             d == [b EXCEPT !.timer = "off", !.dcd = TRUE]
  <2>1. answer[i] # "none" /\ Handled(i, d) /\ UNCHANGED <<fail, pos, lists>>
    BY <1>1 DEF DcdEvent, RecvDcdData
  <2>2. b \in Cache  BY DEF IInv, TypeOK
  <2> HIDE DEF b
  <2>3. d \in Cache /\ Same(b, d)  BY <2>2 DEF Same, CfgSlot, RmSlot, Cache
  <2> HIDE DEF d
  <2> QED  BY <2>1, <2>3, HandledMoves DEF b
<1>2. ASSUME NEW i \in Slots, NEW r \in Replies, StatusEvent(i, r) PROVE Moves
  <2>1. r \in Results  BY DEF Replies, Results
  <2>2. UNCHANGED <<fail, pos, lists>>  BY <1>2 DEF StatusEvent
  <2>3. CASE RecvError(i)
    <3> DEFINE d == ErrSetTo(Arrived(i), EndOf(cache[i].state))
    <3>1. answer[i] # "none" /\ Handled(i, d)  BY <2>3 DEF RecvError, Coming
    <3>2. cache[i].state \in Phases  BY <3>1, Awaiting
    <3>3. Arrived(i) \in Cache /\ Arrived(i).state = cache[i].state /\ Same(cache[i], Arrived(i))
      BY ArrivedType, ArrivedSame
    <3>4. EndOf(cache[i].state) \in get_dcd..rmend  BY DEF EndOf
    <3>5. d \in Cache /\ Same(cache[i], d)
      BY <3>2, <3>3, <3>4, ErrSetToType, ErrSetToSame, SameTrans
    <3> HIDE DEF d
    <3> QED  BY <2>2, <3>1, <3>5, HandledMoves
  <2> QED  BY <1>2, <2>1, <2>2, <2>3, RecvProgressMoves, RecvTimeoutMoves DEF StatusEvent
<1>3. ASSUME StaleEvent PROVE Moves
  BY <1>3 DEF StaleEvent, RecvStale, Moves, db, lists
<1> QED  BY <1>1, <1>2, <1>3 DEF DevConfigHdr

\* The guard timer runs out.
LEMMA ExpireMoves ==
  ASSUME IInv, NEW i \in Slots, Expire(i)
  PROVE  Moves
<1> DEFINE b == cache[i]
           d == [b EXCEPT !.timer = "due"]
<1>1. b.timer = "armed" /\ cache' = [cache EXCEPT ![i] = d] /\ b \in Cache
      /\ UNCHANGED <<config, rmlist, mode, fail, prov, done>>
  BY DEF Expire, db, IInv, TypeOK
<1>2. i \in Used  BY <1>1 DEF IInv, SlotInv, InPhase, Used
<1> HIDE DEF b
<1>3. d \in Cache /\ Same(b, d)  BY <1>1 DEF Same, CfgSlot, RmSlot, Cache
<1> HIDE DEF d
<1> QED  BY <1>1, <1>2, <1>3 DEF Moves, b

-----------------------------------------------------------------------------
(* A slot's turn in config_engine moves it, or ends its node *)

\* The node of slot i ends in state s, with an outcome that fits the mode.
Ends(i, c, s) ==
  /\ i \in Used /\ c \in Cache /\ c.node = cache[i].node
  /\ EndEntry(i, c, s) /\ UNCHANGED lists
  /\ c.err = {} => s = IF mode = "removing" THEN rmend ELSE end

\* Entering the next state: it is one of the slot's kind, and a request that fails
\* at once leaves a failure record.
LEMMA ToNextStateOutcome ==
  ASSUME PInv, NEW i \in Used, NEW c \in Cache, Same(cache[i], c),
         NEW r \in Results, ToNextState(i, c, r), UNCHANGED lists
  PROVE  Moves \/ \E e, s : Ends(i, e, s)
<1> DEFINE p == NextState(c)
           from == IF c.next = to_next THEN c.state + 1 ELSE c.next
<1>0. c.node = cache[i].node /\ c.node \in Nodes /\ c.state \in Nat
  BY DEF Same, Cache, Used
<1>1. IF mode = "removing" THEN RmSlot(c) ELSE CfgSlot(c)
  BY DEF PInv, KindInv, Same
<1>2. /\ p \in from..rmend /\ from \in get_dcd..rmend
      /\ from <= end => p <= end
  BY <1>0, NextStateAhead
<1>3. p \in IF mode = "removing" THEN {rm, rmend} ELSE get_dcd..end
  <2>1. CASE mode = "removing"
    <3>1. from \in {rm, rmend}  BY <1>1, <2>1 DEF RmSlot
    <3> HIDE DEF p, from
    <3> QED  BY <1>2, <2>1, <3>1
  <2>2. CASE mode # "removing"
    <3>1. from \in get_dcd..end  BY <1>1, <2>2 DEF CfgSlot
    <3> HIDE DEF p, from
    <3> QED  BY <1>2, <2>2, <3>1
  <2> QED  BY <2>1, <2>2
<1> HIDE DEF p, from
<1>4. CASE p \in {end, rmend}
  <2>1. EndEntry(i, c, p)  BY <1>4 DEF ToNextState, p
  <2> QED  BY <1>0, <1>3, <1>4, <2>1 DEF Ends
<1>5. CASE p \in Phases /\ r = "api"
  <2> DEFINE e == Send(c, p, r)
  <2>1. EndEntry(i, e, end)  BY <1>5 DEF ToNextState, p
  <2>2. e \in Cache /\ e.node = c.node  BY <1>5, SendType
  <2>3. c.state \in e.err  BY <1>5 DEF Send, ErrSetTo, Cache
  <2> HIDE DEF e
  <2> QED  BY <1>0, <2>1, <2>2, <2>3 DEF Ends
<1>6. CASE p \in Phases /\ r # "api"
  <2> DEFINE e == Send(c, p, r)
             d == [e EXCEPT !.state = p, !.next = p]
  <2>1. cache' = [cache EXCEPT ![i] = d] /\ UNCHANGED <<fail, db, lists>>
    BY <1>6 DEF ToNextState, p
  <2>2. e \in Cache /\ e.node = c.node  BY <1>6, SendType
  <2> HIDE DEF e
  <2>a. p \in provisioned..rm /\ p \in get_dcd..rmend
    BY <1>6
  <2>3. d \in Cache /\ d.node = c.node /\ d.state = p /\ d.next = p
    BY <2>2, <2>a DEF Cache
  <2> HIDE DEF d
  <2>4. IF mode = "removing" THEN RmSlot(d) ELSE CfgSlot(d)
    BY <1>3, <1>6, <2>3 DEF RmSlot, CfgSlot
  <2>5. IF mode = "removing" THEN RmSlot(cache[i]) /\ ~CfgSlot(cache[i])
                             ELSE CfgSlot(cache[i]) /\ ~RmSlot(cache[i])
    BY DEF PInv, KindInv, RmSlot, CfgSlot
  <2>6. Same(cache[i], d)  BY <1>0, <2>3, <2>4, <2>5 DEF Same
  <2> QED  BY <2>1, <2>3, <2>6 DEF Moves, db, lists
<1> QED  BY <1>3, <1>4, <1>5, <1>6

\* One slot's turn.
LEMMA EngineOutcome ==
  ASSUME PInv, NEW i \in Slots, NEW r \in Results, NEW q \in Results, Engine(i, r, q)
  PROVE  Moves \/ \E e, s : Ends(i, e, s)
<1> DEFINE c == cache[i]
           kind == CASE c.timer = "due" -> "expired"
                     [] c.timer # "due" /\ c.oom -> "oom"
                     [] OTHER -> "none"
           c1 == IF kind = "none" THEN c ELSE Retry(c, r, kind)
<1>1. c \in Cache  BY DEF PInv, IInv, TypeOK
<1>2. UNCHANGED lists  BY DEF Engine
<1>3. kind \in {"expired", "oom", "none"} /\ (kind # "none" => c.timer # "off" \/ c.oom)
  BY <1>1 DEF Cache
<1>4. \/ UNCHANGED <<cache, fail, db>>
      \/ /\ c.node # None
         /\ \/ cache' = [cache EXCEPT ![i] = c1] /\ UNCHANGED <<fail, db>>
            \/ ToNextState(i, c1, q)
  BY DEF Engine
<1> HIDE DEF kind
<1>5. CASE UNCHANGED <<cache, fail, db>>
  BY <1>2, <1>5 DEF Moves, db, lists
<1>6. CASE /\ c.node # None
           /\ \/ cache' = [cache EXCEPT ![i] = c1] /\ UNCHANGED <<fail, db>>
              \/ ToNextState(i, c1, q)
  <2>1. i \in Used  BY <1>6 DEF Used
  <2>2. kind # "none" => c.state \in Phases
    BY <1>3 DEF PInv, IInv, SlotInv, InPhase
  <2>3. Same(c, c1)
    BY <1>1, <1>3, <2>2, RetrySame DEF Same
  <2>4. c1 \in Cache  BY <1>1, <1>3, <2>2, RetryType
  <2> HIDE DEF c1
  <2> QED  BY <1>2, <1>6, <2>1, <2>3, <2>4, ToNextStateOutcome DEF Moves, db, lists
<1> QED  BY <1>4, <1>5, <1>6

-----------------------------------------------------------------------------
(* The kinds of the slots and the fail list *)

\* A step that moves a slot.
LEMMA MovesInv ==
  ASSUME PInv, Moves
  PROVE  /\ KindInv' /\ FailInv' /\ Used' = Used
         /\ \A i \in Used : Same(cache[i], cache'[i])
<1>1. \A i \in Slots : Same(cache[i], cache'[i])
  BY DEF Moves, Same, PInv, IInv, TypeOK
<1>2. Used' = Used  BY <1>1 DEF Used, Same
<1>3. KindInv'
  BY <1>1, <1>2 DEF KindInv, PInv, Same, Moves, Used
<1>4. FailInv'
  BY <1>1, <1>2 DEF FailInv, PInv, Same, Moves, Used
<1> QED  BY <1>1, <1>2, <1>3, <1>4 DEF Used

\* What the end of a node does, besides its slot.
LEMMA EndsEffect ==
  ASSUME PInv, Alive, NEW i \in Used, NEW c, NEW s, Ends(i, c, s)
  PROVE  /\ c.node \in Nodes /\ c.node = cache[i].node
         /\ c.node \notin config \cup rmlist \cup fail /\ c.node \in prov
         /\ Used' = Used \ {i} /\ UNCHANGED <<config, rmlist, mode>>
         /\ \A j \in Used \ {i} : cache'[j] = cache[j] /\ cache[j].node # c.node
         /\ \/ fail' = fail \cup {c.node} /\ prov' = prov /\ done' = done
            \/ /\ mode = "removing" /\ fail' = fail
               /\ prov' = prov \ {c.node} /\ done' = done \ {c.node}
            \/ /\ mode # "removing" /\ fail' = fail
               /\ prov' = prov /\ done' = done \cup {c.node}
<1>1. c.node \in Nodes /\ c.node = cache[i].node  BY DEF Ends, Used, Cache
<1>2. c.node \notin config \cup rmlist \cup fail /\ c.node \in prov
  BY <1>1 DEF PInv, IInv, OnePlace, ListInv, FailInv, Alive
<1>3. cache' = [cache EXCEPT ![i] = FreeCache] /\ cache \in [Slots -> Cache]
  BY DEF Ends, EndEntry, PInv, IInv, TypeOK
<1>4. Used' = Used \ {i}  BY <1>3, FreeCacheType DEF Used
<1>5. \A j \in Used \ {i} : cache'[j] = cache[j] /\ cache[j].node # c.node
  BY <1>1, <1>3 DEF PInv, IInv, OnePlace, Used
<1>6. UNCHANGED <<config, rmlist, mode>>  BY DEF Ends, lists
<1>7. CASE c.err # {}
  BY <1>1, <1>2, <1>4, <1>5, <1>6, <1>7 DEF Ends, EndEntry
<1>8. CASE c.err = {}
  <2>1. s = IF mode = "removing" THEN rmend ELSE end  BY <1>8 DEF Ends
  <2> QED  BY <1>1, <1>2, <1>4, <1>5, <1>6, <1>8, <2>1 DEF Ends, EndEntry
<1> QED  BY <1>7, <1>8

\* The end of a node keeps the kinds, and files the node in the fail list or not.
LEMMA EndsInv ==
  ASSUME PInv, Alive, NEW i \in Used, NEW c, NEW s, Ends(i, c, s)
  PROVE  KindInv' /\ FailInv'
<1>1. KindInv'  BY EndsEffect DEF KindInv, PInv
<1>2. FailInv'  BY EndsEffect DEF FailInv, PInv
<1> QED  BY <1>1, <1>2

\* What loading the slots does: the nodes D leave their list for slots of the mode.
Loads(D) ==
  LET L == IF mode = "removing" THEN rmlist ELSE config IN
  /\ D \subseteq L /\ mode # "idle"
  /\ config' = IF mode = "removing" THEN config ELSE config \ D
  /\ rmlist' = IF mode = "removing" THEN rmlist \ D ELSE rmlist
  /\ UNCHANGED <<mode, fail, prov, done>>
  /\ Used \subseteq Used' /\ \A j \in Used : cache'[j] = cache[j]
  /\ D = {cache'[j].node : j \in Used' \ Used}
  /\ \A j \in Used' \ Used : IF mode = "removing" THEN RmSlot(cache'[j]) ELSE CfgSlot(cache'[j])

\* __cache_item_load makes a slot of the kind.
LEMMA ItemLoadKind ==
  ASSUME NEW n \in Nodes
  PROVE  /\ CfgSlot(ItemLoad(n, "config")) /\ ItemLoad(n, "config").node = n
         /\ RmSlot(ItemLoad(n, "rm")) /\ ItemLoad(n, "rm").node = n
BY DEF ItemLoad, FreeCache, CfgSlot, RmSlot

\* __caches_load does that.
LEMMA AccLoopLoads ==
  ASSUME PInv, AccLoop
  PROVE  \E D \in SUBSET Nodes : Loads(D)
<1> DEFINE type == IF mode = "removing" THEN "rm" ELSE "config"
           L == ListOf(type)
<1>0. PICK S \in SUBSET (Slots \ Used) : \E f \in Injection(S, L) :
        /\ cache' = [i \in Slots |-> IF i \in S THEN ItemLoad(f[i], type) ELSE cache[i]]
        /\ IF type = "config" THEN config' = config \ Range(f) /\ UNCHANGED rmlist
                              ELSE rmlist' = rmlist \ Range(f) /\ UNCHANGED config
  BY DEF AccLoop, CachesLoad
<1>1. PICK f \in Injection(S, L) :
        /\ cache' = [i \in Slots |-> IF i \in S THEN ItemLoad(f[i], type) ELSE cache[i]]
        /\ IF type = "config" THEN config' = config \ Range(f) /\ UNCHANGED rmlist
                              ELSE rmlist' = rmlist \ Range(f) /\ UNCHANGED config
  BY <1>0
<1> DEFINE D == {f[x] : x \in S}
<1>2. f \in [S -> L] /\ Range(f) = D
  BY DEF Injection, Range
<1>3. mode # "idle" /\ UNCHANGED <<mode, fail, prov, done>>
  BY DEF AccLoop, db
<1>4. L = (IF mode = "removing" THEN rmlist ELSE config) /\ L \subseteq Nodes
  BY DEF ListOf, PInv, IInv, TypeOK
<1>5. \A x \in S : /\ x \in Slots \ Used /\ f[x] \in Nodes /\ cache'[x] = ItemLoad(f[x], type)
  BY <1>1, <1>2, <1>4
<1>6. \A x \in S : cache'[x].node = f[x]
                   /\ IF mode = "removing" THEN RmSlot(cache'[x]) ELSE CfgSlot(cache'[x])
  BY <1>5, ItemLoadKind
<1>7. \A x \in Slots \ S : cache'[x] = cache[x]
  BY <1>1
<1>8. Used' \ Used = S /\ Used \subseteq Used' /\ \A j \in Used : cache'[j] = cache[j]
  BY <1>5, <1>6, <1>7, NodesAssumption DEF Used
<1>9. D = {cache'[j].node : j \in Used' \ Used}
  BY <1>6, <1>8
<1>10. /\ config' = IF mode = "removing" THEN config ELSE config \ D
       /\ rmlist' = IF mode = "removing" THEN rmlist \ D ELSE rmlist
  BY <1>1, <1>2
<1>11. D \subseteq L /\ D \subseteq Nodes
  BY <1>2, <1>4
<1> HIDE DEF D, L
<1> QED  BY <1>3, <1>4, <1>6, <1>8, <1>9, <1>10, <1>11 DEF Loads

\* Loading the slots keeps the kinds and takes nodes that have not failed.
LEMMA LoadsInv ==
  ASSUME PInv, NEW D \in SUBSET Nodes, Loads(D)
  PROVE  KindInv' /\ FailInv'
<1>1. KindInv'  BY DEF Loads, KindInv, PInv
<1>2. FailInv'
  <2>1. \A j \in Used' : cache'[j].node \notin fail
    BY DEF Loads, FailInv, PInv
  <2> QED  BY <2>1 DEF Loads, FailInv, PInv
<1> QED  BY <1>1, <1>2

-----------------------------------------------------------------------------
(* Where a node is *)

Busy == {cache[i].node : i \in Used}

\* The place of a node in a slot is that of the mode; the places of the others
\* follow from the lists.
PlaceIs ==
  Place = [n \in Nodes |->
             IF n \in Busy THEN IF mode = "removing" THEN "removing" ELSE "configuring"
             ELSE IF n \in config THEN "to configure"
             ELSE IF n \in rmlist THEN "to remove"
             ELSE IF n \in fail THEN "failed"
             ELSE IF n \in prov THEN "resting" ELSE "out"]

\* What the steps use of the invariant.
Apart ==
  /\ Busy \subseteq prov /\ Busy \cap fail = {}
  /\ abort # "freed" => Busy \cap (config \cup rmlist) = {}
  /\ mode = "idle" => Busy = {}
  /\ config \cup rmlist \cup fail \subseteq prov /\ prov \subseteq Nodes /\ done \subseteq Nodes
  /\ config \cap rmlist = {} /\ fail \cap (config \cup rmlist) = {}

LEMMA PlaceOf == PInv => PlaceIs /\ Apart
<1> SUFFICES ASSUME PInv PROVE PlaceIs /\ Apart  OBVIOUS
<1>1. \A i \in Used : IF mode = "removing"
        THEN cache[i].state \in end..rm /\ cache[i].state \notin provisioned..setconfig
        ELSE cache[i].state \in provisioned..setconfig
  BY DEF PInv, KindInv, RmSlot, CfgSlot
<1>2. /\ InSlots(provisioned..setconfig) \subseteq Busy /\ InSlots(end..rm) \subseteq Busy
      /\ \A i \in Used : /\ cache[i].state \in provisioned..setconfig =>
                              cache[i].node \in InSlots(provisioned..setconfig)
                         /\ cache[i].state \in end..rm => cache[i].node \in InSlots(end..rm)
      /\ \A n \in InSlots(provisioned..setconfig) :
           \E i \in Used : cache[i].state \in provisioned..setconfig
  BY DEF InSlots, Busy
<1> DEFINE C == InSlots(provisioned..setconfig)
           D == InSlots(end..rm)
<1>a. Place = [n \in Nodes |->
        IF n \in C THEN "configuring"
        ELSE IF n \in D THEN "removing"
        ELSE IF n \in config THEN "to configure"
        ELSE IF n \in rmlist THEN "to remove"
        ELSE IF n \in fail THEN "failed"
        ELSE IF n \in prov THEN "resting" ELSE "out"]
  BY DEF Place
<1>b. /\ mode = "removing" => C = {} /\ D = Busy
      /\ mode # "removing" => C = Busy /\ D \subseteq Busy
  BY <1>1, <1>2 DEF Busy
<1> HIDE DEF C, D
<1>3. ASSUME NEW n \in Nodes
      PROVE  Place[n] = IF n \in Busy
                        THEN IF mode = "removing" THEN "removing" ELSE "configuring"
                        ELSE IF n \in config THEN "to configure"
                        ELSE IF n \in rmlist THEN "to remove"
                        ELSE IF n \in fail THEN "failed"
                        ELSE IF n \in prov THEN "resting" ELSE "out"
  BY <1>a, <1>b, <1>3
<1>4. PlaceIs  BY <1>a, <1>3 DEF PlaceIs
<1>5. Apart
  <2>1. /\ Busy \subseteq prov /\ Busy \cap fail = {}
        /\ abort # "freed" => Busy \cap (config \cup rmlist) = {}
    BY DEF Busy, PInv, FailInv, IInv, ListInv, OnePlace
  <2>2. mode = "idle" => Busy = {}
    BY DEF Busy, PInv, IInv, ModeInv
  <2> QED  BY <2>1, <2>2 DEF Apart, PInv, FailInv, IInv, TypeOK, ListInv, OnePlace
<1> QED  BY <1>4, <1>5

\* The same of the next state.
LEMMA PlaceOfPrime == PInv' => PlaceIs'
BY PlaceOf, PTL

\* No node in a slot was or is freed.
Kept == abort # "freed" /\ abort' # "freed"

\* Acc does not see a step that moves a slot.
LEMMA MovesStutter ==
  ASSUME PInv, PInv', Kept, Moves
  PROVE  UNCHANGED A!vars
<1>1. PlaceIs /\ PlaceIs'  BY PlaceOf, PlaceOfPrime
<1>2. Used' = Used /\ \A i \in Used : cache'[i].node = cache[i].node
  BY MovesInv DEF Same
<1>3. Busy' = Busy  BY <1>2 DEF Busy
<1>4. UNCHANGED <<config, rmlist, mode, fail, prov, done>>  BY DEF Moves
<1> QED  BY <1>1, <1>3, <1>4 DEF PlaceIs, A!vars, Kept

\* The end of a node is one of the three outcomes.
LEMMA EndsRefines ==
  ASSUME PInv, PInv', Alive, Kept, NEW i \in Used, NEW c, NEW s, Ends(i, c, s)
  PROVE  A!Next
<1> DEFINE n == c.node
<1>1. PlaceIs /\ PlaceIs' /\ Apart  BY PlaceOf, PlaceOfPrime
<1>2. /\ n \in Nodes /\ n \notin config \cup rmlist \cup fail /\ n \in prov
      /\ UNCHANGED <<config, rmlist, mode>>
      /\ \/ fail' = fail \cup {n} /\ prov' = prov /\ done' = done
         \/ mode = "removing" /\ fail' = fail /\ prov' = prov \ {n} /\ done' = done \ {n}
         \/ mode # "removing" /\ fail' = fail /\ prov' = prov /\ done' = done \cup {n}
  BY EndsEffect
<1>3. Busy' = Busy \ {n} /\ n \in Busy
  BY EndsEffect DEF Busy
<1> HIDE DEF n
<1>4. Place[n] = IF mode = "removing" THEN "removing" ELSE "configuring"
  BY <1>1, <1>2, <1>3 DEF PlaceIs
<1>5. CASE fail' = fail \cup {n} /\ prov' = prov /\ done' = done
  <2>1. Place' = [Place EXCEPT ![n] = "failed"]
    BY <1>1, <1>2, <1>3, <1>5 DEF PlaceIs
  <2>2. A!Failed(n)
    BY <1>2, <1>4, <1>5, <2>1 DEF A!Failed, A!AtWork, A!At, Kept
  <2> QED  BY <1>2, <2>2 DEF A!Next, Kept
<1>6. CASE mode = "removing" /\ fail' = fail /\ prov' = prov \ {n} /\ done' = done \ {n}
  <2>1. Place' = [Place EXCEPT ![n] = "out"]
    BY <1>1, <1>2, <1>3, <1>6 DEF PlaceIs
  <2>2. A!Removed(n)  BY <1>4, <1>6, <2>1 DEF A!Removed, Kept
  <2> QED  BY <1>2, <2>2 DEF A!Next, Kept
<1>7. CASE mode # "removing" /\ fail' = fail /\ prov' = prov /\ done' = done \cup {n}
  <2>1. Place' = [Place EXCEPT ![n] = "resting"]
    BY <1>1, <1>2, <1>3, <1>7 DEF PlaceIs
  <2>2. A!Configured(n)  BY <1>4, <1>7, <2>1 DEF A!Configured, Kept
  <2> QED  BY <1>2, <2>2 DEF A!Next, Kept
<1> QED  BY <1>2, <1>5, <1>6, <1>7

\* Loading the slots begins the work of the mode.
LEMMA LoadsRefines ==
  ASSUME PInv, PInv', Kept, NEW D \in SUBSET Nodes, Loads(D)
  PROVE  A!Next
<1> DEFINE from == IF mode = "removing" THEN "to remove" ELSE "to configure"
           to == IF mode = "removing" THEN "removing" ELSE "configuring"
<1>1. PlaceIs /\ PlaceIs' /\ Apart  BY PlaceOf, PlaceOfPrime
<1>2. Busy' = Busy \cup D
  BY DEF Busy, Loads
<1>3. /\ D \subseteq IF mode = "removing" THEN rmlist ELSE config
      /\ config' = IF mode = "removing" THEN config ELSE config \ D
      /\ rmlist' = IF mode = "removing" THEN rmlist \ D ELSE rmlist
      /\ UNCHANGED <<mode, fail, prov, done>>
  BY DEF Loads
<1>4. Place' = [n \in Nodes |-> IF n \in D THEN to ELSE Place[n]]
  BY <1>1, <1>2, <1>3 DEF PlaceIs
<1>5. D \subseteq A!At(from)
  BY <1>1, <1>3 DEF PlaceIs, Apart, A!At, Kept
<1>6. A!AtWork \subseteq A!At(to)
  BY <1>1 DEF PlaceIs, A!AtWork, A!At
<1>7. A!Begin(D, from, to)
  BY <1>3, <1>4, <1>5, <1>6 DEF A!Begin, Kept
<1> QED  BY <1>7 DEF A!Next, Kept

\* load_lists files the nodes anew, which is the end of all promises if one of them
\* is in a slot.
LEMMA ListsLoadRefines ==
  ASSUME PInv, PInv', abort # "freed", NEW R \in SUBSET prov, ListsLoad(R),
         UNCHANGED <<cache, prov, done>>,
         Used = {} \/ mode' = mode,
         (abort' = "freed") = (Used # {})
  PROVE  A!Next
<1>1. PlaceIs /\ PlaceIs' /\ Apart  BY PlaceOf, PlaceOfPrime
<1>2. config' = (prov \ R) \ done /\ rmlist' = R /\ fail' = {}
  BY DEF ListsLoad
<1>3. Busy' = Busy /\ (Busy = {} <=> Used = {})
  BY DEF Busy, Used
<1>4. R \subseteq Nodes /\ R \cap A!At("out") = {}
  BY <1>1 DEF PlaceIs, Apart, A!At
<1>5. A!AtWork = Busy
  BY <1>1 DEF PlaceIs, Apart, A!AtWork, A!At
<1>6. Place' = [n \in Nodes |->
        IF n \in Busy \cup A!At("out") THEN Place[n]
        ELSE IF n \in R THEN "to remove"
        ELSE IF n \in done THEN "resting" ELSE "to configure"]
  <2>1. \A n \in Nodes : n \in A!At("out") <=> n \notin prov /\ n \notin Busy
    BY <1>1 DEF PlaceIs, Apart, A!At
  <2>2. \A n \in Busy : Place'[n] = Place[n]
    BY <1>1, <1>3 DEF PlaceIs, Apart
  <2>3. \A n \in A!At("out") : Place'[n] = "out" /\ Place[n] = "out"
    BY <1>1, <1>2, <1>3, <2>1 DEF PlaceIs, Apart, A!At
  <2>4. \A n \in Nodes : n \notin Busy /\ n \notin A!At("out") =>
          Place'[n] = IF n \in R THEN "to remove"
                      ELSE IF n \in done THEN "resting" ELSE "to configure"
    BY <1>1, <1>2, <1>3, <2>1 DEF PlaceIs
  <2> QED  BY <1>1, <2>2, <2>3, <2>4 DEF PlaceIs
<1>7. A!File(R)
  BY <1>3, <1>4, <1>5, <1>6 DEF A!File
<1> QED  BY <1>4, <1>7 DEF A!Next

\* `sync 1' finds the slots free.
LEMMA SyncRefines ==
  ASSUME PInv, PInv', Kept, NEW R \in SUBSET prov, Sync(R)
  PROVE  A!Next
<1>1. Used = {} /\ ListsLoad(R) /\ UNCHANGED <<cache, prov, done>>
  BY DEF Sync, db, PInv, IInv, ModeInv
<1> QED  BY <1>1, ListsLoadRefines DEF Kept

\* clrrb need not.
LEMMA RmBlClrRefines ==
  ASSUME PInv, PInv', Alive, NEW R \in SUBSET prov, RmBlClr(R)
  PROVE  A!Next
<1>1. ListsLoad(R) /\ UNCHANGED <<cache, prov, done, mode>>
  BY DEF RmBlClr, db
<1>2. abort # "freed" /\ (abort' = "freed") = (Used # {})
  BY DEF RmBlClr, Alive
<1> QED  BY <1>1, <1>2, ListsLoadRefines

\* `sync 0' drops what has not begun.
LEMMA SyncStopRefines ==
  ASSUME PInv, PInv', Kept, SyncStop
  PROVE  A!Next
<1>1. PlaceIs /\ PlaceIs' /\ Apart  BY PlaceOf, PlaceOfPrime
<1>2. /\ config' = {} /\ rmlist' = {} /\ fail' = {}
      /\ UNCHANGED <<cache, mode, prov, done>>
  BY DEF SyncStop, db
<1>3. Busy' = Busy  BY <1>2 DEF Busy, Used
<1>4. A!Drop
  BY <1>1, <1>2, <1>3 DEF PlaceIs, Apart, A!Drop, Kept
<1> QED  BY <1>4 DEF A!Next, Kept

\* on_prov_success hands a new node over.
LEMMA ProvisionedRefines ==
  ASSUME PInv, PInv', Kept, NEW n \in Nodes, Provisioned(n)
  PROVE  A!Next
<1>1. PlaceIs /\ PlaceIs' /\ Apart  BY PlaceOf, PlaceOfPrime
<1>2. /\ n \notin prov /\ prov' = prov \cup {n} /\ config' = config \cup {n}
      /\ UNCHANGED <<cache, mode, rmlist, fail, done>>
  BY DEF Provisioned
<1>3. Busy' = Busy  BY <1>2 DEF Busy, Used
<1>4. A!Joined(n)
  BY <1>1, <1>2, <1>3 DEF PlaceIs, Apart, A!Joined, Kept
<1> QED  BY <1>4 DEF A!Next, Kept

-----------------------------------------------------------------------------
(* The theorems *)

\* The initial state is the initial state of Acc.
LEMMA InitRefines == Init => KindInv /\ FailInv /\ A!Init
<1> SUFFICES ASSUME Init PROVE KindInv /\ FailInv /\ A!Init  OBVIOUS
<1>1. Used = {}
  BY FreeCacheType DEF Init, Used
<1>2. KindInv /\ FailInv
  BY <1>1 DEF Init, KindInv, FailInv
<1>3. \A n \in Nodes : Place[n] = "out"
  BY <1>1 DEF Init, Place, InSlots
<1>4. A!Init
  BY <1>3 DEF Init, A!Init, Place
<1> QED  BY <1>2, <1>4

\* Every step keeps the kinds and the fail list apart.
LEMMA NextKind == PInv /\ [Next]_vars => KindInv' /\ FailInv'
<1> SUFFICES ASSUME PInv, [Next]_vars PROVE KindInv' /\ FailInv'  OBVIOUS
<1>1. CASE AccLoop  BY <1>1, AccLoopLoads, LoadsInv
<1>2. ASSUME Alive, NEW i \in Slots, NEW r \in Replies, NEW q \in Replies, Engine(i, r, q)
      PROVE  KindInv' /\ FailInv'
  <2>1. r \in Results /\ q \in Results  BY DEF Replies, Results
  <2>2. ASSUME NEW e, NEW s, Ends(i, e, s) PROVE KindInv' /\ FailInv'
    <3>1. i \in Used  BY <2>2 DEF Ends
    <3> QED  BY <1>2, <2>2, <3>1, EndsInv
  <2> QED  BY <1>2, <2>1, <2>2, EngineOutcome, MovesInv
<1>3. CASE DevConfigHdr  BY <1>3, DevConfigHdrMoves, MovesInv DEF PInv
<1>4. CASE SetMngState
  <2>1. UNCHANGED <<cache, config, rmlist, fail, prov>> /\ (mode' = mode \/ Used = {})
    BY <1>4 DEF SetMngState, db
  <2> QED  BY <2>1 DEF KindInv, FailInv, PInv, Used
<1>5. ASSUME NEW R \in SUBSET prov, Sync(R) PROVE KindInv' /\ FailInv'
  <2>1. Used = {} /\ cache' = cache /\ fail' = {}
    BY <1>5 DEF Sync, ListsLoad, PInv, IInv, ModeInv
  <2> QED  BY <2>1 DEF KindInv, FailInv, Used
<1>6. CASE SyncStop
  BY <1>6 DEF SyncStop, KindInv, FailInv, PInv, Used, db
<1>7. ASSUME NEW n \in Nodes, Provisioned(n) PROVE KindInv' /\ FailInv'
  BY <1>7 DEF Provisioned, KindInv, FailInv, PInv, Used
<1>8. ASSUME NEW i \in Slots, Lose(i) PROVE KindInv' /\ FailInv'
  BY <1>8 DEF Lose, KindInv, FailInv, PInv, Used, db
<1>9. ASSUME NEW i \in Slots, Expire(i) PROVE Moves
  BY <1>9, ExpireMoves DEF PInv
<1>10. CASE UNCHANGED vars
  BY <1>10 DEF vars, KindInv, FailInv, PInv, Used
<1>11. ASSUME NEW R \in SUBSET prov, RmBlClr(R) PROVE KindInv' /\ FailInv'
  <2>1. fail' = {} /\ UNCHANGED <<cache, mode>>
    BY <1>11 DEF RmBlClr, ListsLoad
  <2> QED  BY <2>1 DEF KindInv, FailInv, PInv, Used
<1> QED  BY <1>1, <1>2, <1>3, <1>4, <1>5, <1>6, <1>7, <1>8, <1>9, <1>10, <1>11, MovesInv
         DEF Next, Pass

\* An event frees nothing.
LEMMA DevConfigHdrAbort ==
  ASSUME IInv, DevConfigHdr
  PROVE  abort' \in {abort, "retry budget", "no cache for handle"}
<1>1. ASSUME NEW i \in Slots, DcdEvent(i) PROVE abort' = abort
  BY <1>1 DEF DcdEvent, RecvDcdData, Handled
<1>2. ASSUME NEW i \in Slots, NEW r, StatusEvent(i, r)
      PROVE  abort' \in {abort, "retry budget"}
  <2>1. ASSUME NEW c, RetryTimeout(i, c, r) PROVE abort' \in {abort, "retry budget"}
    BY <2>1 DEF RetryTimeout, Handled
  <2>2. ASSUME NEW ev, RecvProgress(i, ev, r) PROVE abort' \in {abort, "retry budget"}
    <3>1. (\E d : Handled(i, d)) \/ (\E c : RetryTimeout(i, c, r))
      BY <2>2 DEF RecvProgress
    <3> QED  BY <2>1, <3>1 DEF Handled
  <2>3. CASE RecvTimeout(i, r)
    <3>1. Arrived(i).rem \in Int  BY ArrivedType DEF Cache
    <3>2. (\E d : Handled(i, d)) \/ (\E c : RetryTimeout(i, c, r))
      <4> DEFINE c == Arrived(i)
      <4>1. CASE ~c.ever
        <5>1. RetryTimeout(i, [c EXCEPT !.ever = TRUE, !.rem = RetryTimes[c.state]], r)
          BY <2>3, <4>1 DEF RecvTimeout
        <5> QED  BY <5>1
      <4>2. CASE c.ever /\ c.rem > 0
        <5>1. ~(c.rem <= 0)  BY <3>1, <4>2
        <5>2. RetryTimeout(i, c, r)  BY <2>3, <4>2, <5>1 DEF RecvTimeout
        <5> QED  BY <5>2
      <4>3. CASE c.ever /\ c.rem <= 0
        <5>1. ~(c.rem > 0)  BY <3>1, <4>3
        <5> DEFINE e == [c EXCEPT !.ever = FALSE, !.rem = 0]
        <5>2. Handled(i, IF c.state = rm THEN [e EXCEPT !.next = to_next] ELSE ErrSetTo(e, end))
          BY <2>3, <4>3, <5>1 DEF RecvTimeout
        <5> QED  BY <5>2
      <4> QED  BY <3>1, <4>1, <4>2, <4>3
    <3> QED  BY <2>1, <3>2 DEF Handled
  <2>4. CASE RecvError(i)  BY <2>4 DEF RecvError, Handled
  <2> QED  BY <1>2, <2>2, <2>3, <2>4 DEF StatusEvent
<1>3. CASE StaleEvent  BY <1>3 DEF StaleEvent, RecvStale
<1> QED  BY <1>1, <1>2, <1>3 DEF DevConfigHdr

\* Every step is a step of Acc, or one that Acc does not see.
LEMMA NextRefines == PInv /\ PInv' /\ [Next]_vars => [A!Next]_A!vars
<1> SUFFICES ASSUME PInv, PInv', [Next]_vars PROVE A!Next \/ UNCHANGED A!vars  OBVIOUS
<1> SUFFICES ASSUME Next PROVE A!Next \/ UNCHANGED A!vars
  <2>1. CASE UNCHANGED vars
    <3>1. Place' = Place  BY <2>1 DEF vars, Place, InSlots, Used
    <3> QED  BY <2>1, <3>1 DEF vars, A!vars
  <2> QED  BY <2>1
<1>0. Alive  BY DEF Next
<1>a. Moves /\ Kept => UNCHANGED A!vars  BY MovesStutter
<1>1. CASE AccLoop
  <2>1. Kept  BY <1>0, <1>1 DEF AccLoop, Alive, Kept
  <2> QED  BY <1>1, <2>1, AccLoopLoads, LoadsRefines
<1>2. ASSUME NEW i \in Slots, NEW r \in Replies, NEW q \in Replies, Engine(i, r, q)
      PROVE  A!Next \/ UNCHANGED A!vars
  <2>1. r \in Results /\ q \in Results  BY DEF Replies, Results
  <2>2. Kept
    <3>1. abort' \in {abort, "oom while waiting"}  BY <1>2 DEF Engine
    <3> QED  BY <1>0, <3>1 DEF Alive, Kept
  <2>3. ASSUME NEW e, NEW s, Ends(i, e, s) PROVE A!Next
    <3>1. i \in Used  BY <2>3 DEF Ends
    <3> QED  BY <1>0, <2>2, <2>3, <3>1, EndsRefines
  <2> QED  BY <1>2, <1>a, <2>1, <2>2, <2>3, EngineOutcome
<1>3. CASE DevConfigHdr
  <2>1. Kept  BY <1>0, <1>3, DevConfigHdrAbort DEF Alive, Kept, PInv
  <2> QED  BY <1>3, <1>a, <2>1, DevConfigHdrMoves DEF PInv
<1>4. CASE SetMngState
  <2>1. /\ UNCHANGED <<cache, config, rmlist, fail, prov, done, abort>>
        /\ mode' = mode \/ Used = {}
    BY <1>4 DEF SetMngState, db
  <2>2. PlaceIs /\ PlaceIs'  BY PlaceOf, PlaceOfPrime
  <2>3. Busy' = Busy /\ (Used = {} => Busy = {})  BY <2>1 DEF Busy, Used
  <2> QED  BY <2>1, <2>2, <2>3 DEF PlaceIs, A!vars
<1>5. ASSUME NEW R \in SUBSET prov, Sync(R) PROVE A!Next
  <2>1. Kept  BY <1>0, <1>5 DEF Sync, Alive, Kept
  <2> QED  BY <1>5, <2>1, SyncRefines
<1>6. CASE SyncStop
  <2>1. Kept  BY <1>0, <1>6 DEF SyncStop, Alive, Kept
  <2> QED  BY <1>6, <2>1, SyncStopRefines
<1>7. ASSUME NEW n \in Nodes, Provisioned(n) PROVE A!Next
  <2>1. Kept  BY <1>0, <1>7 DEF Provisioned, Alive, Kept
  <2> QED  BY <1>7, <2>1, ProvisionedRefines
<1>8. ASSUME NEW i \in Slots, Lose(i) PROVE Moves /\ Kept
  BY <1>0, <1>8 DEF Lose, Moves, db, Alive, Kept
<1>9. ASSUME NEW i \in Slots, Expire(i) PROVE Moves /\ Kept
  <2>1. Kept  BY <1>0, <1>9 DEF Expire, Alive, Kept
  <2> QED  BY <1>9, <2>1, ExpireMoves DEF PInv
<1>10. ASSUME NEW R \in SUBSET prov, RmBlClr(R) PROVE A!Next
  BY <1>0, <1>10, RmBlClrRefines
<1> QED  BY <1>a, <1>1, <1>2, <1>3, <1>4, <1>5, <1>6, <1>7, <1>8, <1>9, <1>10 DEF Next, Pass

\* The invariant behind the refinement.
THEOREM EngineKinds == Spec => []PInv
<1>1. Init => PInv  BY InitIInv, InitRefines DEF PInv
<1>2. PInv /\ [Next]_vars => PInv'
  BY NextIInv, NextKind DEF PInv
<1> QED  BY <1>1, <1>2, PTL DEF Spec

\* The engine implements Acc: slots, phases, retries, lists and database fields keep
\* the promise to the manager for every number of nodes and slots and under every
\* misbehaviour of the NCP target, until clrrb files nodes that are in slots, where Acc
\* stops promising anything.
THEOREM EngineImplementsAcc == Spec => ImplementsAcc
<1>1. Init => A!Init  BY InitRefines
<1>2. PInv /\ PInv' /\ [Next]_vars => [A!Next]_A!vars
  BY NextRefines
<1> QED  BY <1>1, <1>2, EngineKinds, PTL DEF Spec, ImplementsAcc, A!Spec

-----------------------------------------------------------------------------
(***************************************************************************)
(* A node that is marked as done acknowledged every phase its configuration*)
(* asks for, and a failure record names one state: for any number of nodes,*)
(* slots, retries and requests, and however the NCP target misbehaves.     *)
(*                                                                         *)
(* The argument follows a node through its attempts.  K are the phases it  *)
(* acknowledged.  A slot without a failure has all phases before its state *)
(* in K, and the state itself once the next one is asked for.  A slot with *)
(* a failure is asleep until its turn, so that it records one state only,  *)
(* and all phases before that state are in K: resuming there skips nothing.*)
(***************************************************************************)

\* Of the phases before p, the ones that n needs are in K.
Before(n, p, K) == \A q \in addappkey..(p - 1) : Work[n][q] > 0 => q \in K

\* A slot without a failure.
Clean(c, K) ==
  /\ c.err = {}
  /\ c.state \in provisioned..setconfig => Before(c.node, c.state, K)
  /\ c.next = to_next /\ c.state \in addappkey..setconfig => c.state \in K
  /\ c.next \in addappkey..setconfig => Before(c.node, c.next, K)
  /\ c.next # end

\* A slot after err_set_to_end or err_set_to_rm_end.
Asleep(c, K) ==
  /\ c.state \in Phases /\ c.err = {c.state}
  /\ c.state \in provisioned..setconfig => Before(c.node, c.state, K)
  /\ c.timer = "off" /\ ~c.oom /\ ~c.wait
  /\ c.next = EndOf(c.state)

SlotOk(c, a, K) == Clean(c, K) \/ (Asleep(c, K) /\ a = "none")

\* A failure record.
RecordOk(n, E, K) ==
  /\ E = {} \/ \E x : E = {x}
  /\ \A x \in E : x \in addappkey..setconfig => Before(n, x, K)

DInv ==
  /\ \A i \in Used : SlotOk(cache[i], answer[i], acked[cache[i].node])
  /\ \A n \in Nodes : RecordOk(n, errbits[n], acked[n])
  /\ \A i \in Used : mode # "removing" => cache[i].node \notin done
  /\ \A n \in done : Before(n, end, acked[n]) /\ errbits[n] \cap (provisioned..setconfig) = {}
  /\ done \subseteq prov /\ config \cap done = {}

DoneInv == PInv /\ DInv

-----------------------------------------------------------------------------
(* The operators on one slot *)

\* More acknowledgements do no harm.
LEMMA CleanGrows ==
  ASSUME NEW c, NEW K, NEW L, K \subseteq L, Clean(c, K)
  PROVE  Clean(c, L)
BY DEF Clean, Before

\* A failure puts the slot to sleep.
LEMMA ErrSetToAsleep ==
  ASSUME NEW c \in Cache, NEW K, Clean(c, K), c.state \in Phases
  PROVE  Asleep(ErrSetTo(c, EndOf(c.state)), K)
BY DEF Asleep, Clean, ErrSetTo, EndOf, Cache

\* A request leaves the slot clean, or puts it to sleep.
LEMMA SendOk ==
  ASSUME NEW c \in Cache, NEW K, Clean(c, K), c.state \in Phases, NEW r \in Results
  PROVE  LET d == Send(c, c.state, r) IN
         /\ r # "api" => Clean(d, K)
         /\ r = "api" => Asleep(d, K)
<1>1. CASE r = "ok"   BY <1>1 DEF Send, Clean, Cache
<1>2. CASE r = "oom"  BY <1>2 DEF Send, Clean, Cache
<1>3. CASE r = "api"  BY <1>3, ErrSetToAsleep DEF Send
<1> QED  BY <1>1, <1>2, <1>3 DEF Results

\* So does a retry.
LEMMA RetryOk ==
  ASSUME NEW c \in Cache, NEW K, Clean(c, K), c.state \in Phases, NEW r \in Results,
         NEW reason \in {"timeout", "oom", "expired"}
  PROVE  LET d == Retry(c, r, reason) IN
         /\ r # "api" => Clean(d, K)
         /\ r = "api" => Asleep(d, K)
<1> DEFINE s == Send(c, c.state, r)
           d == Retry(c, r, reason)
<1>1. s \in Cache /\ (r # "api" => Clean(s, K)) /\ (r = "api" => Asleep(s, K))
  BY SendOk, SendType
<1>2. CASE r # "ok"  BY <1>1, <1>2 DEF Retry
<1>3. CASE r = "ok"
  <2>1. \/ d = [s EXCEPT !.rem = s.rem - 1]
        \/ d = [s EXCEPT !.oom = FALSE]
        \/ d = [s EXCEPT !.timer = "off"]
    BY <1>3 DEF Retry
  <2> HIDE DEF s, d
  <2>2. /\ d.err = s.err /\ d.state = s.state /\ d.next = s.next /\ d.node = s.node
    BY <1>1, <2>1 DEF Cache
  <2>3. Clean(d, K)  BY <1>1, <1>3, <2>2 DEF Clean
  <2> QED  BY <1>3, <2>3 DEF d
<1> QED  BY <1>2, <1>3

\* The end of a phase, which is acknowledged from then on.
LEMMA PhaseDoneOk ==
  ASSUME IInv, NEW c \in Cache, c.node \in Nodes, c.state \in Phases, NEW K, NEW L,
         Clean(c, K), K \subseteq L, c.state \in L, RecordOk(c.node, errbits[c.node], K)
  PROVE  Clean(PhaseDone(c), L)
<1> DEFINE x == IF c.state = get_dcd THEN Resume(c.node) ELSE to_next
<1>1. x \in {to_next} \cup (addappkey..setconfig)  BY ResumeType
<1>2. x \in addappkey..setconfig => x \in errbits[c.node]
  BY DEF Resume
<1>3. x \in addappkey..setconfig => Before(c.node, x, L)
  BY <1>2 DEF RecordOk, Before
<1>4. PhaseDone(c) = [c EXCEPT !.it = 0, !.next = x]  BY DEF PhaseDone
<1> HIDE DEF x
<1> QED  BY <1>1, <1>3, <1>4 DEF Clean, Before, Cache

-----------------------------------------------------------------------------
(* The events *)

\* A step that changes one slot and what its node acknowledged.
Progress(i, d, a, K) ==
  /\ cache' = [cache EXCEPT ![i] = d]
  /\ answer' = [answer EXCEPT ![i] = a]
  /\ acked' = [acked EXCEPT ![cache[i].node] = K]
  /\ UNCHANGED <<config, mode, prov, done, errbits>>

\* Such a step keeps the invariant if the slot is in order afterwards.
LEMMA ProgressInv ==
  ASSUME DoneInv, NEW i \in Used, NEW d, NEW a, NEW K, Progress(i, d, a, K),
         d.node = cache[i].node, acked[d.node] \subseteq K, SlotOk(d, a, K)
  PROVE  DInv'
<1> DEFINE n == cache[i].node
<1>1. /\ cache \in [Slots -> Cache] /\ answer \in [Slots -> Answers]
      /\ acked \in [Nodes -> SUBSET Phases] /\ done \subseteq Nodes /\ i \in Slots /\ n \in Nodes
  BY DEF DoneInv, PInv, IInv, TypeOK, Used, Answers, Cache
<1>2. /\ cache'[i] = d /\ answer'[i] = a /\ acked'[n] = K
      /\ \A j \in Slots \ {i} : cache'[j] = cache[j] /\ answer'[j] = answer[j]
      /\ \A m \in Nodes \ {n} : acked'[m] = acked[m]
      /\ \A m \in Nodes : acked[m] \subseteq acked'[m]
      /\ UNCHANGED <<config, mode, prov, done, errbits>>
  BY <1>1 DEF Progress
<1>3. Used' = Used /\ \A j \in Used : cache'[j].node = cache[j].node
  BY <1>1, <1>2 DEF Used
<1>4. \A j \in Used : SlotOk(cache'[j], answer'[j], acked'[cache'[j].node])
  <2> SUFFICES ASSUME NEW j \in Used
               PROVE  SlotOk(cache'[j], answer'[j], acked'[cache'[j].node])
    OBVIOUS
  <2>1. CASE j = i  BY <1>2, <2>1
  <2>2. CASE j # i
    <3>1. cache'[j] = cache[j] /\ answer'[j] = answer[j] /\ cache[j].node \in Nodes \ {n}
      BY <1>1, <1>2, <2>2 DEF DoneInv, PInv, IInv, OnePlace, Used, Cache
    <3>2. acked'[cache'[j].node] = acked[cache[j].node]  BY <1>2, <3>1
    <3> QED  BY <3>1, <3>2 DEF DoneInv, DInv
  <2> QED  BY <2>1, <2>2
<1>5. \A m \in Nodes : RecordOk(m, errbits[m], acked'[m])
  BY <1>2 DEF DoneInv, DInv, RecordOk, Before
<1>6. \A m \in done : Before(m, end, acked'[m])
  BY <1>1, <1>2 DEF DoneInv, DInv, Before
<1> QED  BY <1>2, <1>3, <1>4, <1>5, <1>6 DEF DoneInv, DInv

\* A slot whose request is out is clean.
LEMMA AwaitingClean ==
  ASSUME DoneInv, NEW i \in Slots, answer[i] # "none"
  PROVE  /\ i \in Used /\ cache[i] \in Cache /\ cache[i].state \in Phases
         /\ cache[i].node \in Nodes /\ Clean(cache[i], acked[cache[i].node])
         /\ acked[cache[i].node] \in SUBSET Phases
         /\ RecordOk(cache[i].node, errbits[cache[i].node], acked[cache[i].node])
<1>1. i \in Used /\ cache[i] \in Cache /\ cache[i].state \in Phases /\ cache[i].node \in Nodes
  BY Awaiting DEF DoneInv, PInv
<1> QED  BY <1>1 DEF DoneInv, DInv, SlotOk, PInv, IInv, TypeOK

\* The slot in which an event arrived is.
LEMMA ArrivedClean ==
  ASSUME DoneInv, NEW i \in Slots, answer[i] # "none"
  PROVE  Clean(Arrived(i), acked[cache[i].node])
<1> DEFINE b == cache[i]
           d == Arrived(i)
<1>1. b \in Cache /\ Clean(b, acked[b.node])  BY AwaitingClean
<1>2. d = [b EXCEPT !.timer = "off", !.wait = FALSE]  BY DEF Arrived
<1> HIDE DEF b, d
<1>3. d.err = b.err /\ d.state = b.state /\ d.next = b.next /\ d.node = b.node
  BY <1>1, <1>2 DEF Cache
<1>4. Clean(d, acked[b.node])  BY <1>1, <1>3 DEF Clean
<1> QED  BY <1>4 DEF b, d

\* A retry on timeout, or its ASSERT.
LEMMA RetryTimeoutDone ==
  ASSUME DoneInv, NEW i \in Slots, answer[i] # "none", NEW K, acked[cache[i].node] \subseteq K,
         NEW c \in Cache, c.node = cache[i].node, c.state \in Phases, Clean(c, K),
         NEW r \in Results, RetryTimeout(i, c, r),
         acked' = [acked EXCEPT ![cache[i].node] = K], UNCHANGED <<fail, pos, lists>>
  PROVE  DInv'
<1>0. i \in Used /\ Clean(cache[i], acked[cache[i].node])
      /\ cache \in [Slots -> Cache] /\ answer \in [Slots -> Answers]
  BY AwaitingClean DEF DoneInv, PInv, IInv, TypeOK, Answers
<1>1. CASE RetryAsserts(c, r)
  <2>1. /\ cache' = [cache EXCEPT ![i] = cache[i]]
        /\ answer' = [answer EXCEPT ![i] = answer[i]]
        /\ UNCHANGED <<config, mode, prov, done, errbits>>
    BY <1>0, <1>1 DEF RetryTimeout, lists, db
  <2>2. SlotOk(cache[i], answer[i], K)  BY <1>0, CleanGrows DEF SlotOk
  <2> QED  BY <1>0, <2>1, <2>2, ProgressInv DEF Progress
<1>2. CASE ~RetryAsserts(c, r)
  <2> DEFINE d == Retry(c, r, "timeout")
             a == IF r = "ok" THEN Asked(c.state) ELSE "none"
  <2>1. /\ cache' = [cache EXCEPT ![i] = d] /\ answer' = [answer EXCEPT ![i] = a]
        /\ UNCHANGED <<config, mode, prov, done, errbits>>
    BY <1>2 DEF RetryTimeout, Handled, Consumed, lists, db
  <2>2. r = "ok" => c.rem > 0  BY <1>2 DEF RetryAsserts, Cache
  <2>3. d.node = c.node  BY <2>2, RetryType
  <2>4. SlotOk(d, a, K)  BY RetryOk DEF SlotOk
  <2> HIDE DEF d, a
  <2> QED  BY <1>0, <2>1, <2>3, <2>4, ProgressInv DEF Progress
<1> QED  BY <1>1, <1>2

\* An event that was handled without a retry on timeout.
LEMMA HandledDone ==
  ASSUME DoneInv, NEW i \in Slots, answer[i] # "none", NEW K, acked[cache[i].node] \subseteq K,
         NEW d, d.node = cache[i].node, Handled(i, d), NEW a, SlotOk(d, a, K),
         answer' = [answer EXCEPT ![i] = a],
         acked' = [acked EXCEPT ![cache[i].node] = K], UNCHANGED <<fail, pos, lists>>
  PROVE  DInv'
<1>1. i \in Used  BY AwaitingClean
<1> QED  BY <1>1, ProgressInv DEF Progress, Handled, db, lists

\* Progress within a phase, or its end.
LEMMA RecvProgressDone ==
  ASSUME DoneInv, NEW i \in Slots, NEW ev, NEW r \in Results, RecvProgress(i, ev, r),
         UNCHANGED <<fail, pos, lists>>
  PROVE  DInv'
<1> DEFINE c == Arrived(i)
           p == c.state
           last == Work[c.node][p]
           c1 == IF ev = "success" THEN [c EXCEPT !.ever = FALSE, !.rem = 0] ELSE c
           K == acked[cache[i].node]
<1>0. IInv /\ acked \in [Nodes -> SUBSET Phases]  BY DEF DoneInv, PInv, IInv, TypeOK
<1>1. c \in Cache /\ c.node = cache[i].node /\ p = cache[i].state
  BY <1>0, ArrivedType
<1>2. answer[i] = "status"  BY DEF RecvProgress
<1>3. p \in Phases /\ c.node \in Nodes /\ K \in SUBSET Phases
      /\ RecordOk(c.node, errbits[c.node], K)
  BY <1>1, <1>2, AwaitingClean
<1>4. c1 \in Cache /\ c1.node = c.node /\ c1.state = p /\ c1.next = c.next /\ c1.err = c.err
  BY <1>1 DEF Cache
<1>5. last \in Nat /\ c.it \in Nat  BY <1>1, <1>3, WorkAssumption DEF Cache
<1>6. PICK j \in (IF ev = "nores" THEN c.it + 1..last ELSE {c.it + 1}) :
        IF j < last
          THEN /\ Handled(i, Send([c1 EXCEPT !.it = j], p, r))
               /\ Consumed(i, p, r)
               /\ UNCHANGED acked
          ELSE /\ acked' = [acked EXCEPT ![c.node] = @ \cup {p}]
               /\ IF c1.ever
                    THEN RetryTimeout(i, PhaseDone(c1), r)
                    ELSE Handled(i, PhaseDone(c1)) /\ Consumed(i, c.state, "none")
  BY DEF RecvProgress
<1>7. j \in Nat  BY <1>5
<1>8. Clean(c1, K)
  <2>1. Clean(c, K)  BY <1>2, ArrivedClean
  <2> HIDE DEF c, c1, K
  <2> QED  BY <1>4, <2>1 DEF Clean
<1> HIDE DEF c, last, c1
<1>9. CASE j < last
  <2> DEFINE e == [c1 EXCEPT !.it = j]
             d == Send(e, p, r)
             a == IF r = "ok" THEN Asked(p) ELSE "none"
  <2>1. e \in Cache /\ e.node = c1.node /\ e.state = p /\ e.next = c1.next /\ e.err = c1.err
    BY <1>4, <1>7 DEF Cache
  <2>2. Handled(i, d) /\ answer' = [answer EXCEPT ![i] = a] /\ acked' = acked
    BY <1>6, <1>9 DEF Consumed
  <2>a. acked' = [acked EXCEPT ![cache[i].node] = K]
    BY <1>0, <2>2
  <2> HIDE DEF e, K
  <2>3. Clean(e, K)  BY <1>4, <1>8, <2>1 DEF Clean
  <2>4. d.node = e.node /\ SlotOk(d, a, K)
    BY <1>3, <2>1, <2>3, SendType, SendOk DEF SlotOk
  <2> HIDE DEF d, a
  <2> QED  BY <1>1, <1>2, <1>4, <2>1, <2>2, <2>a, <2>4, HandledDone DEF K
<1>10. CASE ~(j < last)
  <2> DEFINE d == PhaseDone(c1)
             L == K \cup {p}
  <2>1. d \in Cache /\ d.state = p /\ d.node = c.node
    BY <1>0, <1>3, <1>4, PhaseDoneType
  <2>2. acked' = [acked EXCEPT ![cache[i].node] = L]
    BY <1>1, <1>6, <1>10
  <2>3. Clean(d, L)
    BY <1>0, <1>3, <1>4, <1>8, PhaseDoneOk
  <2>4. IF c1.ever THEN RetryTimeout(i, d, r)
                   ELSE Handled(i, d) /\ answer' = [answer EXCEPT ![i] = "none"]
    BY <1>6, <1>10 DEF Consumed
  <2>5. acked[cache[i].node] \subseteq L  OBVIOUS
  <2> HIDE DEF d, L, K
  <2>6. CASE c1.ever
    BY <1>1, <1>2, <1>3, <2>1, <2>2, <2>3, <2>4, <2>5, <2>6, RetryTimeoutDone
  <2>7. CASE ~c1.ever
    BY <1>1, <1>2, <2>1, <2>2, <2>3, <2>4, <2>5, <2>7, HandledDone DEF SlotOk
  <2> QED  BY <2>6, <2>7
<1> QED  BY <1>9, <1>10

\* A timeout.
LEMMA RecvTimeoutDone ==
  ASSUME DoneInv, NEW i \in Slots, NEW r \in Results, RecvTimeout(i, r),
         UNCHANGED <<fail, pos, lists>>
  PROVE  DInv'
<1> DEFINE c == Arrived(i)
           p == c.state
           K == acked[cache[i].node]
           c0 == [c EXCEPT !.ever = TRUE, !.rem = RetryTimes[p]]
           c1 == [c EXCEPT !.ever = FALSE, !.rem = 0]
           d == IF p = rm THEN [c1 EXCEPT !.next = to_next] ELSE ErrSetTo(c1, end)
<1>0. IInv  BY DEF DoneInv, PInv
<1>1. c \in Cache /\ c.node = cache[i].node /\ p = cache[i].state
  BY <1>0, ArrivedType
<1>2. answer[i] # "none" /\ acked' = acked  BY DEF RecvTimeout, Coming
<1>3. p \in Phases /\ Clean(c, K)  BY <1>1, <1>2, AwaitingClean, ArrivedClean
<1>4. \/ RetryTimeout(i, c0, r)
      \/ RetryTimeout(i, c, r)
      \/ Consumed(i, p, "none") /\ Handled(i, d)
  <2>1. c.ever \in BOOLEAN /\ c.rem \in Nat  BY <1>1 DEF Cache
  <2>2. CASE ~c.ever  BY <2>1, <2>2 DEF RecvTimeout
  <2>3. CASE c.ever /\ c.rem > 0  BY <2>1, <2>3 DEF RecvTimeout
  <2>4. CASE c.ever /\ c.rem <= 0  BY <2>1, <2>4 DEF RecvTimeout
  <2> QED  BY <2>1, <2>2, <2>3, <2>4
<1>5. acked' = [acked EXCEPT ![cache[i].node] = K] /\ acked[cache[i].node] \subseteq K
  BY <1>0, <1>2 DEF IInv, TypeOK
<1> HIDE DEF c, K
<1>6. /\ c0 \in Cache /\ c0.node = c.node /\ c0.state = p /\ c0.next = c.next /\ c0.err = c.err
      /\ c1 \in Cache /\ c1.node = c.node /\ c1.state = p /\ c1.next = c.next /\ c1.err = c.err
  <2>1. RetryTimes[p] \in Nat  BY <1>3, RetryAssumption
  <2> QED  BY <1>1, <2>1 DEF Cache
<1> HIDE DEF c0, c1
<1>7. Clean(c0, K) /\ Clean(c1, K)  BY <1>3, <1>6 DEF Clean
<1>8. SlotOk(d, "none", K) /\ d.node = c.node
  <2>1. CASE p = rm
    <3>1. d.state = rm /\ d.next = to_next /\ d.err = c1.err /\ d.node = c1.node
      BY <1>6, <2>1 DEF Cache
    <3> QED  BY <1>6, <1>7, <3>1 DEF SlotOk, Clean
  <2>2. CASE p # rm
    <3>1. d = ErrSetTo(c1, EndOf(p))  BY <1>3, <2>2 DEF EndOf
    <3>2. d.node = c1.node  BY <1>6, <2>2, ErrSetToType
    <3> QED  BY <1>3, <1>6, <1>7, <3>1, <3>2, ErrSetToAsleep DEF SlotOk
  <2> QED  BY <2>1, <2>2
<1> HIDE DEF d
<1>9. CASE RetryTimeout(i, c0, r)
  BY <1>1, <1>2, <1>3, <1>5, <1>6, <1>7, <1>9, RetryTimeoutDone
<1>10. CASE RetryTimeout(i, c, r)
  BY <1>1, <1>2, <1>3, <1>5, <1>10, RetryTimeoutDone
<1>11. CASE Consumed(i, p, "none") /\ Handled(i, d)
  BY <1>1, <1>2, <1>5, <1>8, <1>11, HandledDone DEF Consumed
<1> QED  BY <1>4, <1>9, <1>10, <1>11

\* Every event keeps the invariant.
LEMMA DevConfigHdrDone ==
  ASSUME DoneInv, DevConfigHdr
  PROVE  DInv'
<1>0. IInv /\ acked \in [Nodes -> SUBSET Phases]  BY DEF DoneInv, PInv, IInv, TypeOK
<1>1. ASSUME NEW i \in Slots, DcdEvent(i) PROVE DInv'
  <2> DEFINE b == cache[i]
             K == acked[b.node]
             d == [b EXCEPT !.timer = "off", !.dcd = TRUE]
  <2>1. /\ answer[i] # "none" /\ Handled(i, d) /\ UNCHANGED <<fail, pos, lists>>
        /\ answer' = [answer EXCEPT ![i] = "status"] /\ acked' = acked
    BY <1>1 DEF DcdEvent, RecvDcdData
  <2>2. b \in Cache /\ Clean(b, K)  BY <2>1, AwaitingClean
  <2>3. acked' = [acked EXCEPT ![cache[i].node] = K] /\ acked[cache[i].node] \subseteq K
    BY <1>0, <2>1
  <2> HIDE DEF b, K
  <2>4. d.node = b.node /\ d.state = b.state /\ d.next = b.next /\ d.err = b.err
    BY <2>2 DEF Cache
  <2> HIDE DEF d
  <2>5. Clean(d, K)  BY <2>2, <2>4 DEF Clean
  <2>6. d.node = cache[i].node  BY <2>4 DEF b
  <2> QED  BY <2>1, <2>3, <2>5, <2>6, HandledDone DEF SlotOk
<1>2. ASSUME NEW i \in Slots, NEW r \in Replies, StatusEvent(i, r) PROVE DInv'
  <2>1. r \in Results  BY DEF Replies, Results
  <2>2. UNCHANGED <<fail, pos, lists>>  BY <1>2 DEF StatusEvent
  <2>3. CASE RecvError(i)
    <3> DEFINE c == Arrived(i)
               K == acked[cache[i].node]
               d == ErrSetTo(c, EndOf(cache[i].state))
    <3>1. /\ answer[i] # "none" /\ Handled(i, d) /\ acked' = acked
          /\ answer' = [answer EXCEPT ![i] = "none"]
      BY <2>3 DEF RecvError, Coming, Consumed
    <3>2. cache[i].state \in Phases /\ Clean(c, K)
      BY <3>1, AwaitingClean, ArrivedClean
    <3>3. c \in Cache /\ c.state = cache[i].state /\ c.node = cache[i].node
      BY <1>0, ArrivedType
    <3>4. acked' = [acked EXCEPT ![cache[i].node] = K] /\ acked[cache[i].node] \subseteq K
      BY <1>0, <3>1
    <3> HIDE DEF c, K
    <3>5. EndOf(c.state) \in get_dcd..rmend  BY DEF EndOf
    <3>6. Asleep(d, K) /\ d.node = c.node
      BY <3>2, <3>3, <3>5, ErrSetToType, ErrSetToAsleep
    <3> HIDE DEF d
    <3> QED  BY <2>2, <3>1, <3>3, <3>4, <3>6, HandledDone DEF SlotOk
  <2> QED  BY <1>2, <2>1, <2>2, <2>3, RecvProgressDone, RecvTimeoutDone DEF StatusEvent
<1>3. ASSUME StaleEvent PROVE DInv'
  <2>1. UNCHANGED <<cache, answer, acked, config, mode, prov, done, errbits>>
    BY <1>3 DEF StaleEvent, RecvStale, lists, db
  <2> QED  BY <2>1 DEF DoneInv, DInv, Used
<1> QED  BY <1>1, <1>2, <1>3 DEF DevConfigHdr

-----------------------------------------------------------------------------
(* A slot's turn in config_engine *)

\* The slot a node ends in, before its end.
Ending(c, K) ==
  /\ c.err = {} \/ \E x : c.err = {x}
  /\ \A x \in c.err : x \in addappkey..setconfig => Before(c.node, x, K)
  /\ mode = "removing" => c.err \cap (provisioned..setconfig) = {}
  /\ c.err = {} /\ mode # "removing" => Before(c.node, end, K)

\* The end of a node keeps the invariant.
LEMMA EndsDone ==
  ASSUME DoneInv, Alive, NEW i \in Slots, NEW c, NEW s, Ends(i, c, s),
         Ending(c, acked[cache[i].node])
  PROVE  DInv'
<1> DEFINE n == c.node
<1>0. i \in Used  BY DEF Ends
<1>1. /\ n \in Nodes /\ n = cache[i].node /\ n \notin config /\ n \in prov
      /\ Used' = Used \ {i} /\ UNCHANGED <<config, mode>>
      /\ \A j \in Used \ {i} : cache'[j] = cache[j] /\ cache[j].node # n
  BY <1>0, EndsEffect DEF DoneInv
<1>2. /\ errbits' = [errbits EXCEPT ![n] = c.err]
      /\ answer' = [answer EXCEPT ![i] = "none"]
      /\ c.err # {} => UNCHANGED <<prov, done, acked>>
      /\ c.err = {} /\ mode = "removing" =>
           done' = done \ {n} /\ prov' = prov \ {n} /\ acked' = [acked EXCEPT ![n] = {}]
      /\ c.err = {} /\ mode # "removing" =>
           done' = done \cup {n} /\ prov' = prov /\ acked' = acked
  BY DEF Ends, EndEntry, Forget
<1>3. /\ answer \in [Slots -> Answers] /\ acked \in [Nodes -> SUBSET Phases]
      /\ errbits \in [Nodes -> SUBSET (provisioned..rm)] /\ done \subseteq Nodes
      /\ \A j \in Used : j \in Slots /\ cache[j].node \in Nodes
  BY DEF DoneInv, PInv, IInv, TypeOK, Answers, Used, Cache
<1>4. /\ errbits'[n] = c.err
      /\ \A m \in Nodes \ {n} : errbits'[m] = errbits[m] /\ acked'[m] = acked[m]
      /\ \A j \in Used \ {i} : answer'[j] = answer[j]
      /\ acked'[n] = IF c.err = {} /\ mode = "removing" THEN {} ELSE acked[n]
  BY <1>1, <1>2, <1>3
<1> HIDE DEF n
<1>5. \A j \in Used' : SlotOk(cache'[j], answer'[j], acked'[cache'[j].node])
  <2>1. \A j \in Used' : /\ j \in Used /\ cache'[j] = cache[j] /\ answer'[j] = answer[j]
                         /\ acked'[cache'[j].node] = acked[cache[j].node]
    BY <1>1, <1>3, <1>4
  <2> QED  BY <2>1 DEF DoneInv, DInv
<1>6. \A m \in Nodes : RecordOk(m, errbits'[m], acked'[m])
  <2>1. RecordOk(n, errbits'[n], acked'[n])
    BY <1>1, <1>4 DEF RecordOk, Ending, n
  <2>2. \A m \in Nodes \ {n} : RecordOk(m, errbits'[m], acked'[m])
    BY <1>4 DEF DoneInv, DInv
  <2> QED  BY <2>1, <2>2
<1>7. \A j \in Used' : mode' # "removing" => cache'[j].node \notin done'
  <2>1. done' \subseteq done \cup {n}  BY <1>2
  <2> QED  BY <1>1, <2>1 DEF DoneInv, DInv
<1>8. \A m \in done' : Before(m, end, acked'[m]) /\ errbits'[m] \cap (provisioned..setconfig) = {}
  <2> SUFFICES ASSUME NEW m \in done'
               PROVE  Before(m, end, acked'[m]) /\ errbits'[m] \cap (provisioned..setconfig) = {}
    OBVIOUS
  <2>1. CASE m # n
    <3>1. m \in done /\ m \in Nodes \ {n}  BY <1>1, <1>2, <1>3, <2>1
    <3> QED  BY <1>4, <3>1 DEF DoneInv, DInv
  <2>2. CASE m = n /\ c.err = {}
    <3>1. mode # "removing"  BY <1>2, <2>2
    <3> QED  BY <1>1, <1>4, <2>2, <3>1 DEF Ending, n
  <2>3. CASE m = n /\ c.err # {}
    <3>1. n \in done /\ acked'[n] = acked[n]  BY <1>2, <1>4, <2>3
    <3>2. mode = "removing"  BY <1>0, <1>1, <3>1 DEF DoneInv, DInv
    <3> QED  BY <1>4, <2>3, <3>1, <3>2 DEF DoneInv, DInv, Ending
  <2> QED  BY <2>1, <2>2, <2>3
<1>9. done' \subseteq prov' /\ config' \cap done' = {}
  BY <1>1, <1>2 DEF DoneInv, DInv
<1> QED  BY <1>5, <1>6, <1>7, <1>8, <1>9 DEF DInv

\* Entering the next state: no phase is skipped that the node needs.
LEMMA ToNextStateDone ==
  ASSUME DoneInv, Alive, NEW i \in Used, NEW c \in Cache, Same(cache[i], c),
         Clean(c, acked[c.node]) \/ Asleep(c, acked[c.node]),
         NEW r \in Results, ToNextState(i, c, r), UNCHANGED lists
  PROVE  DInv'
<1> DEFINE p == NextState(c)
           from == IF c.next = to_next THEN c.state + 1 ELSE c.next
           K == acked[c.node]
<1>0. /\ c.node = cache[i].node /\ c.node \in Nodes /\ c.state \in Nat /\ i \in Slots
      /\ answer \in [Slots -> Answers] /\ acked \in [Nodes -> SUBSET Phases]
  <2>1. i \in Slots /\ cache[i].node # None  BY DEF Used
  <2>2. c.node = cache[i].node  BY DEF Same
  <2>3. c.node \in Nodes /\ c.state \in Nat  BY <2>1, <2>2 DEF Cache
  <2> QED  BY <2>1, <2>2, <2>3 DEF DoneInv, PInv, IInv, TypeOK, Answers
<1>1. IF mode = "removing" THEN RmSlot(c) ELSE CfgSlot(c)
  BY DEF DoneInv, PInv, KindInv, Same
<1>2. /\ p \in from..rmend /\ from \in get_dcd..rmend
      /\ \A q \in from..(p - 1) : ~Guard(c.node, q)
      /\ from <= end => p <= end
  BY <1>0, NextStateAhead
<1>3. p \in IF mode = "removing" THEN {rm, rmend} ELSE get_dcd..end
  <2>1. CASE mode = "removing"
    <3>1. from \in {rm, rmend}  BY <1>1, <2>1 DEF RmSlot
    <3> HIDE DEF p, from
    <3> QED  BY <1>2, <2>1, <3>1
  <2>2. CASE mode # "removing"
    <3>1. from \in get_dcd..end  BY <1>1, <2>2 DEF CfgSlot
    <3> HIDE DEF p, from
    <3> QED  BY <1>2, <2>2, <3>1
  <2> QED  BY <2>1, <2>2
<1>4. CASE Asleep(c, K)
  <2>1. c.next \in {end, rmend} /\ c.err = {c.state} /\ c.state \in Phases
    BY <1>4 DEF Asleep, EndOf
  <2>2. p \in {end, rmend}
    <3>1. from = c.next  BY <2>1
    <3>2. Guard(c.node, end)  BY DEF Guard
    <3> HIDE DEF p, from
    <3> QED  BY <1>2, <2>1, <3>1, <3>2
  <2>3. EndEntry(i, c, p)  BY <2>2 DEF ToNextState
  <2>4. mode = "removing" => c.state = rm
    BY <1>1, <2>1 DEF RmSlot
  <2>5. Ending(c, K)
    BY <1>4, <2>1, <2>4 DEF Ending, Asleep
  <2>6. Ends(i, c, p)
    BY <1>0, <2>1, <2>3 DEF Ends
  <2> QED  BY <1>0, <2>5, <2>6, EndsDone
<1>5. CASE Clean(c, K)
  <2>1. p \in addappkey..end => Before(c.node, p, K)
    <3>1. from \in addappkey..end => Before(c.node, from, K)
      <4>1. CASE c.next = to_next
        BY <1>1, <1>5, <4>1 DEF Clean, Before, CfgSlot, RmSlot
      <4>2. CASE c.next # to_next
        BY <1>5, <4>2 DEF Clean
      <4> QED  BY <4>1, <4>2
    <3>2. \A q \in addappkey..(p - 1) : q >= from /\ p <= end => ~(Work[c.node][q] > 0)
      <4> HIDE DEF p, from
      <4> QED  BY <1>2 DEF Guard
    <3>3. from < addappkey \/ from >= addappkey  BY <1>2
    <3>4. from \in get_dcd..rmend /\ p \in Int  BY <1>2
    <3> HIDE DEF p, from, K
    <3> QED  BY <3>1, <3>2, <3>3, <3>4, <1>2 DEF Before
  <2>2. CASE p \in {end, rmend}
    <3>1. EndEntry(i, c, p)  BY <2>2 DEF ToNextState
    <3>2. c.err = {}  BY <1>5 DEF Clean
    <3>3. mode # "removing" => Before(c.node, end, K)
      BY <1>3, <2>1, <2>2
    <3>4. Ending(c, K)  BY <3>2, <3>3 DEF Ending
    <3>5. Ends(i, c, p)
      BY <1>0, <1>3, <2>2, <3>1 DEF Ends
    <3> QED  BY <1>0, <3>4, <3>5, EndsDone
  <2>3. CASE p \in Phases /\ r = "api"
    <3> DEFINE e == Send(c, p, r)
    <3>1. EndEntry(i, e, end)  BY <2>3 DEF ToNextState
    <3>2. e \in Cache /\ e.node = c.node  BY <2>3, SendType
    <3>3. e.err = {c.state}  BY <1>5, <2>3 DEF Send, ErrSetTo, Cache, Clean
    <3>4. mode = "removing" => c.state \in {end, rm}  BY <1>1 DEF RmSlot
    <3> HIDE DEF e
    <3>5. Ending(e, K)
      <4>1. c.state \in addappkey..setconfig => Before(e.node, c.state, K)
        BY <1>5, <3>2 DEF Clean
      <4> HIDE DEF K
      <4>2. e.err # {} /\ (\E x : e.err = {x}) /\ \A x \in e.err : x = c.state
        BY <3>3
      <4>3. mode = "removing" => e.err \cap (provisioned..setconfig) = {}
        BY <3>4, <4>2
      <4> QED  BY <4>1, <4>2, <4>3 DEF Ending
    <3>6. Ends(i, e, end)
      BY <1>0, <3>1, <3>2, <3>3 DEF Ends
    <3> QED  BY <1>0, <3>5, <3>6, EndsDone
  <2>4. CASE p \in Phases /\ r # "api"
    <3> DEFINE e == Send(c, p, r)
               d == [e EXCEPT !.state = p, !.next = p]
    <3>1. cache' = [cache EXCEPT ![i] = d] /\ Replied(i, p, r) /\ UNCHANGED <<fail, db, acked>>
      BY <2>4 DEF ToNextState
    <3>2. e \in Cache /\ e.node = c.node /\ e.err = c.err
      <4>1. e \in Cache /\ e.node = c.node  BY <2>4, SendType
      <4>2. e.err = c.err  BY <2>4 DEF Send, Results, Cache
      <4> QED  BY <4>1, <4>2
    <3> HIDE DEF e, p
    <3>3. d.node = c.node /\ d.state = p /\ d.next = p /\ d.err = c.err
      BY <2>4, <3>2 DEF Cache
    <3> HIDE DEF d
    <3>4. Clean(d, K)
      BY <1>5, <2>1, <2>4, <3>3 DEF Clean, Before
    <3>5. answer' = [answer EXCEPT ![i] = answer'[i]]
      BY <1>0, <3>1 DEF Replied, Issue
    <3>6. acked' = [acked EXCEPT ![cache[i].node] = K] /\ acked[d.node] \subseteq K
      BY <1>0, <3>1, <3>3
    <3> HIDE DEF K
    <3>7. Progress(i, d, answer'[i], K)
      BY <3>1, <3>5, <3>6 DEF Progress, db, lists
    <3> QED  BY <1>0, <3>3, <3>4, <3>6, <3>7, ProgressInv DEF SlotOk
  <2>5. p \in Phases \cup {end, rmend}  BY <1>3
  <2> QED  BY <2>2, <2>3, <2>4, <2>5
<1> QED  BY <1>4, <1>5

\* One slot's turn.
LEMMA EngineDone ==
  ASSUME DoneInv, Alive, NEW i \in Slots, NEW r \in Results, NEW q \in Results,
         Engine(i, r, q)
  PROVE  DInv'
<1> DEFINE c == cache[i]
           K == acked[c.node]
           kind == CASE c.timer = "due" -> "expired"
                     [] c.timer # "due" /\ c.oom -> "oom"
                     [] OTHER -> "none"
           c1 == IF kind = "none" THEN c ELSE Retry(c, r, kind)
<1>0. IInv /\ c \in Cache /\ answer \in [Slots -> Answers] /\ acked \in [Nodes -> SUBSET Phases]
  BY DEF DoneInv, PInv, IInv, TypeOK, Answers
<1>1. UNCHANGED lists  BY DEF Engine
<1>2. kind \in {"expired", "oom", "none"} /\ (kind # "none" => c.timer # "off" \/ c.oom)
  BY <1>0 DEF Cache
<1>3. \/ UNCHANGED <<cache, answer, fail, db, acked>>
      \/ /\ c.node # None
         /\ \/ /\ c1.wait \/ c1.state = c1.next
               /\ cache' = [cache EXCEPT ![i] = c1]
               /\ IF kind = "none" THEN UNCHANGED answer ELSE Replied(i, c.state, r)
               /\ UNCHANGED <<fail, db, acked>>
            \/ ToNextState(i, c1, q)
  BY DEF Engine
<1> HIDE DEF kind
<1>4. CASE UNCHANGED <<cache, answer, fail, db, acked>>
  BY <1>1, <1>4 DEF DoneInv, DInv, Used, db, lists
<1>5. CASE c.node # None
  <2>1. i \in Used  BY <1>5 DEF Used
  <2>2. kind # "none" => c.state \in Phases
    BY <1>0, <1>2 DEF IInv, SlotInv, InPhase
  <2>3. SlotOk(c, answer[i], K)  BY <2>1 DEF DoneInv, DInv
  <2>4. kind # "none" => Clean(c, K)
    BY <1>2, <2>3 DEF SlotOk, Asleep
  <2>5. Same(c, c1) /\ c1.node = c.node
    BY <1>0, <1>2, <2>2, RetrySame DEF Same
  <2>6. c1 \in Cache  BY <1>0, <1>2, <2>2, RetryType
  <2>7. /\ kind = "none" => c1 = c
        /\ Clean(c1, K) \/ Asleep(c1, K)
    BY <1>0, <1>2, <2>2, <2>3, <2>4, RetryOk DEF SlotOk
  <2> HIDE DEF c1
  <2>8. CASE ToNextState(i, c1, q)
    BY <1>1, <2>1, <2>5, <2>6, <2>7, <2>8, ToNextStateDone
  <2>9. CASE /\ c1.wait \/ c1.state = c1.next
             /\ cache' = [cache EXCEPT ![i] = c1]
             /\ IF kind = "none" THEN UNCHANGED answer ELSE Replied(i, c.state, r)
             /\ UNCHANGED <<fail, db, acked>>
    <3>1. ~Asleep(c1, K)  BY <2>9 DEF Asleep, EndOf
    <3>2. Clean(c1, K)  BY <2>7, <3>1
    <3>3. answer' = [answer EXCEPT ![i] = answer'[i]]
      BY <1>0, <2>9 DEF Replied, Issue
    <3>4. acked' = [acked EXCEPT ![cache[i].node] = K] /\ acked[c1.node] \subseteq K
      BY <1>0, <2>5, <2>9
    <3> HIDE DEF K
    <3>5. Progress(i, c1, answer'[i], K)
      BY <1>1, <2>9, <3>3, <3>4 DEF Progress, db, lists
    <3> QED  BY <2>1, <2>5, <3>2, <3>4, <3>5, ProgressInv DEF SlotOk
  <2> QED  BY <1>3, <1>4, <2>8, <2>9
<1> QED  BY <1>3, <1>4, <1>5

-----------------------------------------------------------------------------
(* Loading, the scheduler and the environment *)

\* A slot that was just loaded is clean.
LEMMA ItemLoadClean ==
  ASSUME NEW n \in Nodes, NEW type, NEW K
  PROVE  Clean(ItemLoad(n, type), K)
BY DEF ItemLoad, FreeCache, Clean, Before

\* Loading the slots: the nodes of the configuration list are not done.
LEMMA AccLoopDone ==
  ASSUME DoneInv, AccLoop
  PROVE  DInv'
<1> DEFINE type == IF mode = "removing" THEN "rm" ELSE "config"
           L == ListOf(type)
<1>1. PICK S \in SUBSET (Slots \ Used) : \E f \in Injection(S, L) :
        /\ cache' = [i \in Slots |-> IF i \in S THEN ItemLoad(f[i], type) ELSE cache[i]]
        /\ config' \subseteq config
  BY DEF AccLoop, CachesLoad
<1>2. PICK f \in Injection(S, L) :
        cache' = [i \in Slots |-> IF i \in S THEN ItemLoad(f[i], type) ELSE cache[i]]
  BY <1>1
<1>3. f \in [S -> L] /\ L \subseteq Nodes /\ (mode # "removing" => L = config)
  BY DEF Injection, ListOf, DoneInv, PInv, IInv, TypeOK
<1>4. UNCHANGED <<answer, mode, prov, done, errbits, acked>>
  BY DEF AccLoop, db
<1>5. \A x \in S : /\ x \in Slots \ Used /\ f[x] \in L
                   /\ cache'[x] = ItemLoad(f[x], type) /\ cache'[x].node = f[x]
  <2> SUFFICES ASSUME NEW x \in S
               PROVE  /\ x \in Slots \ Used /\ f[x] \in L
                      /\ cache'[x] = ItemLoad(f[x], type) /\ cache'[x].node = f[x]
    OBVIOUS
  <2>1. x \in Slots \ Used /\ f[x] \in L /\ f[x] \in Nodes  BY <1>3
  <2>2. cache'[x] = ItemLoad(f[x], type)  BY <1>2, <2>1
  <2> QED  BY <2>1, <2>2, ItemLoadType
<1>6. \A x \in Slots \ S : cache'[x] = cache[x]
  BY <1>2
<1> HIDE DEF L, type
<1>7. \A j \in Used' : j \in S \/ (j \in Used /\ cache'[j] = cache[j])
  BY <1>6 DEF Used
<1>8. \A j \in Used' : SlotOk(cache'[j], answer'[j], acked'[cache'[j].node])
  <2>1. \A j \in S : SlotOk(cache'[j], answer'[j], acked'[cache'[j].node])
    BY <1>3, <1>5, ItemLoadClean DEF SlotOk
  <2> QED  BY <1>4, <1>7, <2>1 DEF DoneInv, DInv
<1>9. \A j \in Used' : mode' # "removing" => cache'[j].node \notin done'
  BY <1>3, <1>4, <1>5, <1>7 DEF DoneInv, DInv
<1>10. config' \cap done' = {}
  BY <1>1, <1>4 DEF DoneInv, DInv
<1> QED  BY <1>4, <1>8, <1>9, <1>10 DEF DoneInv, DInv

\* Nothing is done in the beginning.
LEMMA InitDone == Init => DInv
<1> SUFFICES ASSUME Init PROVE DInv  OBVIOUS
<1>1. Used = {}  BY FreeCacheType DEF Init, Used
<1> QED  BY <1>1 DEF Init, DInv, RecordOk

\* Every step keeps the invariant.
LEMMA NextDone == DoneInv /\ [Next]_vars => DInv'
<1> SUFFICES ASSUME DoneInv, [Next]_vars PROVE DInv'  OBVIOUS
<1>1. CASE AccLoop  BY <1>1, AccLoopDone
<1>2. ASSUME Alive, NEW i \in Slots, NEW r \in Replies, NEW q \in Replies, Engine(i, r, q)
      PROVE  DInv'
  <2>1. r \in Results /\ q \in Results  BY DEF Replies, Results
  <2> QED  BY <1>2, <2>1, EngineDone
<1>3. CASE DevConfigHdr  BY <1>3, DevConfigHdrDone
<1>4. CASE SetMngState
  <2>1. /\ UNCHANGED <<cache, answer, config, prov, done, errbits, acked>>
        /\ mode' = mode \/ Used = {}
    BY <1>4 DEF SetMngState, db
  <2> QED  BY <2>1 DEF DoneInv, DInv, Used
<1>5. ASSUME NEW R \in SUBSET prov, Sync(R) PROVE DInv'
  <2>1. /\ Used = {} /\ UNCHANGED <<cache, answer, prov, done, errbits, acked>>
        /\ config' = (prov \ R) \ done
    BY <1>5 DEF Sync, ListsLoad, DoneInv, PInv, IInv, ModeInv, db
  <2> QED  BY <2>1 DEF DoneInv, DInv, Used
<1>6. CASE SyncStop
  BY <1>6 DEF SyncStop, DoneInv, DInv, Used, db
<1>7. ASSUME NEW n \in Nodes, Provisioned(n) PROVE DInv'
  <2>1. /\ UNCHANGED <<cache, answer, done, errbits, acked, mode>> /\ n \notin prov
        /\ prov' = prov \cup {n} /\ config' = config \cup {n}
    BY <1>7 DEF Provisioned
  <2> QED  BY <2>1 DEF DoneInv, DInv, Used
<1>8. ASSUME NEW i \in Slots, Lose(i) PROVE DInv'
  <2>1. /\ answer[i] # "none" /\ answer' = [answer EXCEPT ![i] = "lost"]
        /\ UNCHANGED <<cache, config, prov, done, errbits, acked, mode>>
    BY <1>8 DEF Lose, Coming, db
  <2>2. Clean(cache[i], acked[cache[i].node])  BY <2>1, AwaitingClean
  <2>3. \A j \in Used : SlotOk(cache[j], answer'[j], acked[cache[j].node])
    BY <2>1, <2>2 DEF DoneInv, DInv, SlotOk, PInv, IInv, TypeOK, Used
  <2> QED  BY <2>1, <2>3 DEF DoneInv, DInv, Used
<1>9. ASSUME NEW i \in Slots, Expire(i) PROVE DInv'
  <2> DEFINE b == cache[i]
             d == [b EXCEPT !.timer = "due"]
  <2>1. /\ b.timer = "armed" /\ cache' = [cache EXCEPT ![i] = d] /\ b \in Cache
        /\ UNCHANGED <<answer, config, mode, prov, done, errbits, acked>>
        /\ answer \in [Slots -> Answers] /\ acked \in [Nodes -> SUBSET Phases]
    BY <1>9 DEF Expire, db, DoneInv, PInv, IInv, TypeOK, Answers
  <2>2. i \in Used  BY <2>1 DEF DoneInv, PInv, IInv, SlotInv, InPhase, Used
  <2>3. Clean(b, acked[b.node])
    BY <2>1, <2>2 DEF DoneInv, DInv, SlotOk, Asleep
  <2> HIDE DEF b
  <2>4. d.node = b.node /\ d.state = b.state /\ d.next = b.next /\ d.err = b.err
    BY <2>1 DEF Cache
  <2> HIDE DEF d
  <2>5. SlotOk(d, answer[i], acked[b.node])  BY <2>3, <2>4 DEF SlotOk, Clean
  <2>6. Progress(i, d, answer[i], acked[b.node])
    BY <2>1 DEF Progress, b
  <2>7. d.node = cache[i].node  BY <2>4 DEF b
  <2> QED  BY <2>2, <2>4, <2>5, <2>6, <2>7, ProgressInv
<1>10. CASE UNCHANGED vars
  BY <1>10 DEF vars, DoneInv, DInv, Used
<1>11. ASSUME NEW R \in SUBSET prov, RmBlClr(R) PROVE DInv'
  <2>1. /\ UNCHANGED <<cache, answer, prov, done, errbits, acked, mode>>
        /\ config' = (prov \ R) \ done
    BY <1>11 DEF RmBlClr, ListsLoad, db
  <2> QED  BY <2>1 DEF DoneInv, DInv, Used
<1> QED  BY <1>1, <1>2, <1>3, <1>4, <1>5, <1>6, <1>7, <1>8, <1>9, <1>10, <1>11 DEF Next, Pass

\* The invariant behind both theorems.
THEOREM EngineDoneInvariant == Spec => []DoneInv
<1>1. Init => DInv  BY InitDone
<1>2. DoneInv /\ [Next]_vars => DInv'  BY NextDone
<1>3. DoneInv <=> PInv /\ DInv  BY DEF DoneInv
<1> QED  BY <1>1, <1>2, <1>3, EngineKinds, PTL DEF Spec

\* A node whose "done" field is set acknowledged every request of every phase its
\* configuration asks for, through any failures, retries and resumed attempts
\* (to_next_state, getdcd_inprg, end_entry).
THEOREM EngineDoneConfigured == Spec => []DoneMeansConfigured
<1>1. DoneInv => DoneMeansConfigured
  BY DEF DoneInv, DInv, DoneMeansConfigured, Before
<1> QED  BY <1>1, EngineDoneInvariant, PTL

\* The "err" field names at most one state, which is what getdcd_inprg takes it for,
\* and none of the configuration once the node is done.
THEOREM EngineOneErrorBit == Spec => []OneErrorBit
<1>1. DoneInv => OneErrorBit
  <2> SUFFICES ASSUME DoneInv, NEW n \in Nodes PROVE Cardinality(errbits[n]) <= 1
    BY DEF DoneInv, DInv, OneErrorBit
  <2>1. errbits[n] = {} \/ \E x : errbits[n] = {x}
    BY DEF DoneInv, DInv, RecordOk
  <2>2. Cardinality({}) = 0 /\ \A x : Cardinality({x}) = 1
    BY FS_EmptySet, FS_Singleton
  <2>3. CASE errbits[n] = {}  BY <2>2, <2>3
  <2>4. CASE \E x : errbits[n] = {x}
    <3>1. PICK x : errbits[n] = {x}  BY <2>4
    <3>2. Cardinality(errbits[n]) = 1  BY <2>2, <3>1
    <3> QED  BY <3>2
  <2> QED  BY <2>1, <2>3, <2>4
<1> QED  BY <1>1, EngineDoneInvariant, PTL

-----------------------------------------------------------------------------
(* A slot that nobody answers *)

\* config_engine finds neither a timer that is due nor an OOM, and waits.
LEMMA DeafEngine ==
  ASSUME IInv, NEW i \in Slots, Deaf(i), NEW j \in Slots, NEW r, NEW q, Engine(j, r, q)
  PROVE  UNCHANGED <<cache[i], answer[i], mode>>
<1>1. UNCHANGED mode  BY DEF Engine, lists
<1>2. CASE j = i
  <2>1. cache[i].timer # "due" /\ ~cache[i].oom /\ cache[i].wait  BY DEF Deaf
  <2>2. cache[i].node # None  BY DEF Deaf, IInv, SlotInv, InPhase
  <2>3. cache' = [cache EXCEPT ![i] = cache[i]] /\ UNCHANGED answer
    BY <1>2, <2>1, <2>2 DEF Engine
  <2> QED  BY <1>1, <2>3 DEF IInv, TypeOK
<1>3. CASE j # i
  <2>1. \/ cache' = cache
        \/ \E d : cache' = [cache EXCEPT ![j] = d]
    BY DEF Engine, ToNextState, EndEntry
  <2>2. \/ answer' = answer
        \/ \E a : answer' = [answer EXCEPT ![j] = a]
    BY DEF Engine, ToNextState, EndEntry, Forget, Replied, Issue
  <2>3. cache'[i] = cache[i]  BY <1>3, <2>1 DEF IInv, TypeOK
  <2>4. answer'[i] = answer[i]  BY <1>3, <2>2 DEF IInv, TypeOK
  <2> QED  BY <1>1, <2>3, <2>4
<1> QED  BY <1>2, <1>3

\* Once an event is lost and no guard timer runs, the slot waits for ever, in the same
\* sync: no step of the program or of the NCP target touches it, whatever the
\* other slots do and whatever command the user gives.
THEOREM DeafForGood == Spec => DeafStays
<1> DEFINE Step == \A i \in Slots : Deaf(i) => UNCHANGED <<cache[i], answer[i], mode>>
<1>1. IInv /\ [Next]_vars => [Step]_vars
  <2> SUFFICES ASSUME IInv, Next, NEW i \in Slots, Deaf(i)
               PROVE  UNCHANGED <<cache[i], answer[i], mode>>
    OBVIOUS
  <2>1. /\ cache[i].node # None /\ i \in Used /\ mode # "idle"
        /\ answer[i] = "lost" /\ cache[i].timer = "off"
    BY DEF Deaf, IInv, SlotInv, InPhase, ModeInv, Used
  <2>2. CASE AccLoop
    <3>1. UNCHANGED <<answer, mode>>  BY <2>2 DEF AccLoop
    <3>2. PICK D \in SUBSET (Slots \ Used) :
            \E f, type : cache' = [s \in Slots |-> IF s \in D THEN ItemLoad(f[s], type)
                                                              ELSE cache[s]]
      BY <2>2 DEF AccLoop, CachesLoad
    <3>3. cache'[i] = cache[i]  BY <2>1, <3>2
    <3> QED  BY <3>1, <3>3
  <2>3. CASE SetMngState
    BY <2>1, <2>3 DEF SetMngState
  <2>4. ASSUME NEW j \in Slots, NEW r \in Replies, NEW q \in Replies, Engine(j, r, q)
        PROVE  UNCHANGED <<cache[i], answer[i], mode>>
    BY <2>4, DeafEngine
  <2>5. ASSUME NEW j \in Slots, DcdEvent(j) \/ \E r \in Replies : StatusEvent(j, r)
        PROVE  UNCHANGED <<cache[i], answer[i], mode>>
    <3>1. UNCHANGED mode  BY <2>5 DEF DcdEvent, StatusEvent, lists
    <3>2. answer[j] \in Coming
      BY <2>5 DEF DcdEvent, StatusEvent, RecvDcdData, RecvProgress, RecvTimeout, RecvError, Coming
    <3>3. j # i  BY <2>1, <3>2 DEF Coming
    <3>4. DOMAIN cache = Slots /\ DOMAIN answer = Slots  BY DEF IInv, TypeOK
    <3> DEFINE One == cache'[i] = cache[i] /\ answer'[i] = answer[i]
    <3>5. ASSUME NEW c, NEW p, NEW r, Handled(j, c), Consumed(j, p, r) PROVE One
      BY <3>3, <3>4, <3>5 DEF Handled, Consumed
    <3>6. ASSUME NEW c, NEW r, RetryTimeout(j, c, r) PROVE One
      <4>1. CASE RetryAsserts(c, r)  BY <3>6, <4>1 DEF RetryTimeout
      <4>2. CASE ~RetryAsserts(c, r)
        <5>1. Handled(j, Retry(c, r, "timeout")) /\ Consumed(j, c.state, r)
          BY <3>6, <4>2 DEF RetryTimeout
        <5> HIDE DEF One
        <5> QED  BY <3>5, <5>1
      <4> QED  BY <4>1, <4>2
    <3>7. ASSUME DcdEvent(j) PROVE One
      <4>1. /\ cache' = [cache EXCEPT ![j] = [cache[j] EXCEPT !.timer = "off", !.dcd = TRUE]]
            /\ answer' = [answer EXCEPT ![j] = "status"]
        BY <3>7 DEF DcdEvent, RecvDcdData, Handled
      <4> QED  BY <2>5, <3>3, <3>4, <4>1
    <3>8. ASSUME NEW r, NEW ev, RecvProgress(j, ev, r) PROVE One
      <4> HIDE DEF One
      <4> QED  BY <3>5, <3>6, <3>8 DEF RecvProgress
    <3>9. ASSUME NEW r, RecvTimeout(j, r) PROVE One
      <4>1. \/ \E c : RetryTimeout(j, c, r)
            \/ \E c, p : Handled(j, c) /\ Consumed(j, p, "none")
        <5> DEFINE c == Arrived(j)
                   x == [c EXCEPT !.ever = TRUE, !.rem = RetryTimes[c.state]]
                   y == [c EXCEPT !.ever = FALSE, !.rem = 0]
                   z == IF c.state = rm THEN [y EXCEPT !.next = to_next] ELSE ErrSetTo(y, end)
        <5>1. c.rem \in Nat
          <6>1. c \in Cache  BY ArrivedType
          <6> HIDE DEF c
          <6> QED  BY <6>1 DEF Cache
        <5>2. CASE ~c.ever
          <6>1. RetryTimeout(j, x, r)  BY <3>9, <5>2 DEF RecvTimeout
          <6> QED  BY <6>1
        <5>3. CASE c.ever /\ c.rem > 0
          <6>1. ~(c.rem <= 0)  BY <5>1, <5>3
          <6>2. RetryTimeout(j, c, r)  BY <3>9, <5>3, <6>1 DEF RecvTimeout
          <6> QED  BY <6>2
        <5>4. CASE c.ever /\ c.rem <= 0
          <6>1. ~(c.rem > 0)  BY <5>1, <5>4
          <6>2. Handled(j, z) /\ Consumed(j, c.state, "none")
            BY <3>9, <5>4, <6>1 DEF RecvTimeout
          <6> QED  BY <6>2
        <5>5. c.rem > 0 \/ c.rem <= 0
          <6> HIDE DEF c
          <6> QED  BY <5>1
        <5> QED  BY <5>2, <5>3, <5>4, <5>5
      <4> HIDE DEF One
      <4> QED  BY <3>5, <3>6, <4>1
    <3>10. ASSUME RecvError(j) PROVE One
      <4>1. /\ Handled(j, ErrSetTo(Arrived(j), EndOf(cache[j].state)))
            /\ Consumed(j, cache[j].state, "none")
        BY <3>10 DEF RecvError
      <4> DEFINE d == ErrSetTo(Arrived(j), EndOf(cache[j].state))
      <4>2. Handled(j, d) /\ Consumed(j, cache[j].state, "none")  BY <4>1
      <4> HIDE DEF One, d
      <4> QED  BY <3>5, <4>2
    <3>11. One
      <4> HIDE DEF One
      <4>1. DcdEvent(j) \/ \E r : (\E ev : RecvProgress(j, ev, r)) \/ RecvTimeout(j, r)
                                   \/ RecvError(j)
        BY <2>5 DEF StatusEvent
      <4>2. ASSUME NEW r, (\E ev : RecvProgress(j, ev, r)) \/ RecvTimeout(j, r) \/ RecvError(j)
            PROVE  One
        BY <3>8, <3>9, <3>10, <4>2
      <4> QED  BY <3>7, <4>1, <4>2
    <3> QED  BY <3>1, <3>11
  <2>6. CASE StaleEvent
    BY <2>6 DEF StaleEvent, RecvStale, lists
  <2>7. ASSUME NEW R \in SUBSET prov, Sync(R) PROVE UNCHANGED <<cache[i], answer[i], mode>>
    BY <2>1, <2>7 DEF Sync
  <2>8. CASE SyncStop
    BY <2>8 DEF SyncStop
  <2>9. ASSUME NEW n \in Nodes, Provisioned(n) PROVE UNCHANGED <<cache[i], answer[i], mode>>
    BY <2>9 DEF Provisioned
  <2>10. ASSUME NEW j \in Slots, Lose(j) PROVE UNCHANGED <<cache[i], answer[i], mode>>
    <3>1. j # i  BY <2>1, <2>10 DEF Lose, Coming
    <3> QED  BY <2>10, <3>1 DEF Lose, IInv, TypeOK
  <2>11. ASSUME NEW j \in Slots, Expire(j) PROVE UNCHANGED <<cache[i], answer[i], mode>>
    <3>1. j # i  BY <2>1, <2>11 DEF Expire
    <3> QED  BY <2>11, <3>1 DEF Expire, IInv, TypeOK
  <2>12. ASSUME NEW R \in SUBSET prov, RmBlClr(R)
         PROVE  UNCHANGED <<cache[i], answer[i], mode>>
    BY <2>12 DEF RmBlClr
  <2> QED
    BY <2>2, <2>3, <2>4, <2>5, <2>6, <2>7, <2>8, <2>9, <2>10, <2>11, <2>12
    DEF Next, Pass, DevConfigHdr
<1>2. Spec => []IInv  BY EngineInvariant
<1> QED  BY <1>1, <1>2, PTL DEF Spec, DeafStays
=============================================================================
