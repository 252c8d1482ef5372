----------------------------- MODULE AccEngine ------------------------------
(***************************************************************************)
(* The asynchronous configuration client engine: mng/dev_config.c and the  *)
(* state functions of mng/states/as_*.c.                                   *)
(*                                                                         *)
(* The engine owns MAX_CONCURRENT_CONFIG_NODES cache slots.  A slot walks  *)
(* one node through a chain of phases; in a phase it sends one request at  *)
(* a time to the NCP target and waits for its status event.  A timeout is  *)
(* retried, out-of-memory is retried on the next round, any other error    *)
(* ends the node, and a guard timer covers a status event that is never    *)
(* raised.  One thread runs everything: each round of the main loop first  *)
(* drains the events and then passes over the slots in index order.        *)
(*                                                                         *)
(* The NCP target is external.  `Faults' says which of its misbehaviours   *)
(* the run admits: "oom" and "api" are results of a call; "timeout",       *)
(* "error" and "nores" are results carried by a status event; "loss" is a  *)
(* status event that is never raised.                                      *)
(***************************************************************************)
EXTENDS Integers, FiniteSets, Functions

CONSTANTS
  Nodes,       \* nodes of the network database
  None,        \* no node: the slot is free
  MaxConcurrent, \* MAX_CONCURRENT_CONFIG_NODES
  RetryTimes,  \* *_RETRY_TIMES of projconfig.h, per phase
  Work,        \* Work[n][p]: requests node n needs in phase p, 0 if p's guard fails
  LowPower,    \* low power nodes with neither the relay nor the proxy feature
  Faults       \* misbehaviours of the NCP target

(***************************************************************************)
(* acc_state_emt.  The engine's list of states is in the order of the      *)
(* enumeration, so that as->next is the successor.                         *)
(***************************************************************************)
to_next      == -1
provisioned  == 1
get_dcd      == 2
addappkey    == 3
bindappkey   == 4
setpub       == 5
addsub       == 6
setconfig    == 7
end          == 8
rm           == 9
rmend        == 10

Slots == 1..MaxConcurrent
Phases == get_dcd..setconfig \cup {rm}     \* phases that send requests
FaultKinds == {"oom", "api", "timeout", "error", "nores", "loss"}

ASSUME NodesAssumption == None \notin Nodes
ASSUME SlotsAssumption == MaxConcurrent \in Nat \ {0}
ASSUME RetryAssumption == RetryTimes \in [Phases -> Nat \ {0}]
ASSUME WorkAssumption  == /\ Work \in [Nodes -> [Phases -> Nat]]
                          /\ \A n \in Nodes : Work[n][get_dcd] = 1 /\ Work[n][rm] = 1
ASSUME FaultsAssumption == Faults \subseteq FaultKinds /\ LowPower \subseteq Nodes

VARIABLES
  cache,    \* mng->cache.config: the slots
  answer,   \* NCP: fate of the event of the slot's current request (cc_handle)
  stale,    \* NCP: an event is still to come for a handle no slot holds any more
  config,   \* mng->lists.config
  rmlist,   \* mng->lists.rm
  fail,     \* mng->lists.fail
  prov,     \* nodes of the database that have an address
  done,     \* nodes whose "done" field is set
  errbits,  \* the "err" field of each node: the states in which it failed
  mode,     \* mng->state, as far as acc_loop looks at it
  pos,      \* the slot config_engine is at; 0: events; past the slots: set_mng_state
  abort,    \* what ended the process, an ASSERT or a LOGA, or "freed": the slots
            \* hold nodes that were freed, and what they do is undefined
  acked     \* history: phases a node acknowledged entirely since it was provisioned

vars == <<cache, answer, stale, config, rmlist, fail, prov, done, errbits,
          mode, pos, abort, acked>>
lists == <<config, rmlist, mode>>
db == <<prov, done, errbits>>

-----------------------------------------------------------------------------
(* Slots *)

\* config_cache_t; `err' are the two bitmaps of err_cache, `it' the iterators,
\* `timer' is `expired': 0, in the future, or past.
Cache == [node : Nodes \cup {None}, state : provisioned..rm,
          next : {to_next} \cup (get_dcd..rmend),
          wait : BOOLEAN, ever : BOOLEAN, oom : BOOLEAN,
          timer : {"off", "armed", "due"}, rem : Nat, it : Nat,
          dcd : BOOLEAN, err : SUBSET (provisioned..rm)]

\* __cache_reset
FreeCache == [node |-> None, state |-> provisioned, next |-> get_dcd,
              wait |-> FALSE, ever |-> FALSE, oom |-> FALSE, timer |-> "off",
              rem |-> 0, it |-> 0, dcd |-> FALSE, err |-> {}]

\* __cache_item_load
ItemLoad(n, type) ==
  [FreeCache EXCEPT !.node = n,
                    !.state = IF type = "config" THEN provisioned ELSE end,
                    !.next = IF type = "config" THEN get_dcd ELSE rm]

Used == {i \in Slots : cache[i].node # None}

\* err_set_to_end, err_set_to_rm_end: remember the state, drop all control flags
ErrSetTo(c, s) == [c EXCEPT !.err = @ \cup {c.state}, !.timer = "off",
                            !.wait = FALSE, !.ever = FALSE, !.oom = FALSE,
                            !.next = s]

\* Where a failure of phase p leads.
EndOf(p) == IF p = rm THEN rmend ELSE end

\* The request functions __dcd_get .. __rm, sent for phase p; r is the result.
Send(c, p, r) ==
  CASE r = "ok"  -> [c EXCEPT !.wait = TRUE, !.timer = "armed"]
    [] r = "oom" -> [c EXCEPT !.oom = TRUE]
    [] r = "api" -> ErrSetTo(c, EndOf(p))

\* What a call of the NCP may return.
Replies == {"ok"} \cup (Faults \cap {"oom", "api"})

\* Mutant: every retry is charged to the budget of the timeouts.
Retry_ChargeAll(c, r, reason) ==
  LET s == Send(c, c.state, r) IN
  IF r # "ok" THEN s ELSE
  CASE reason = "timeout"  -> [s EXCEPT !.rem = @ - 1]
    [] reason = "oom"      -> [s EXCEPT !.oom = FALSE, !.rem = @ - 1]
    [] reason = "expired"  -> [s EXCEPT !.timer = "off", !.rem = @ - 1]

\* as_*_retry: send again and then account for the reason of the retry.  The
\* guard timer that the request has just armed is switched off again.
Retry(c, r, reason) ==
  LET s == Send(c, c.state, r) IN
  IF r # "ok" THEN s ELSE
  CASE reason = "timeout"  -> [s EXCEPT !.rem = @ - 1]
    [] reason = "oom"      -> [s EXCEPT !.oom = FALSE]
    [] reason = "expired"  -> [s EXCEPT !.timer = "off"]

\* The ASSERT(0) of as_*_retry.
RetryAsserts(c, r) == r = "ok" /\ (~c.ever \/ c.rem <= 0)

-----------------------------------------------------------------------------
(* NCP bookkeeping *)

Coming == {"data", "status"}    \* events the NCP is still going to raise

\* The event a request of phase p is answered with first.
Asked(p) == IF p = get_dcd THEN "data" ELSE "status"

\* A request of slot i was accepted; an event still due for the old one is
\* now for a handle that no slot holds.
Issue(i, p) == /\ answer' = [answer EXCEPT ![i] = Asked(p)]
               /\ stale' = (stale \/ answer[i] \in Coming)

\* The slot forgets its handle.
Forget(i) == /\ answer' = [answer EXCEPT ![i] = "none"]
             /\ stale' = (stale \/ answer[i] \in Coming)

Replied(i, p, r) == IF r = "ok" THEN Issue(i, p) ELSE UNCHANGED <<answer, stale>>

-----------------------------------------------------------------------------
(* acc_loop: load the free slots, then pass over the slots *)

ListOf(type) == IF type = "config" THEN config ELSE rmlist

\* Mutant: the list item is not unlinked from the list it is loaded from.
CachesLoad_NoUnlink(type) ==
  \E D \in SUBSET (Slots \ Used) :
    \E f \in Injection(D, ListOf(type)) :
      /\ D = Slots \ Used \/ Range(f) = ListOf(type)
      /\ cache' = [i \in Slots |-> IF i \in D THEN ItemLoad(f[i], type) ELSE cache[i]]
      /\ UNCHANGED <<config, rmlist>>

\* __caches_load: fill free slots until there is none or the list is empty.
CachesLoad(type) ==
  \E D \in SUBSET (Slots \ Used) :
    \E f \in Injection(D, ListOf(type)) :
      /\ D = Slots \ Used \/ Range(f) = ListOf(type)
      /\ cache' = [i \in Slots |-> IF i \in D THEN ItemLoad(f[i], type) ELSE cache[i]]
      /\ IF type = "config" THEN config' = config \ Range(f) /\ UNCHANGED rmlist
                            ELSE rmlist' = rmlist \ Range(f) /\ UNCHANGED config

AccLoop ==
  /\ pos = 0
  /\ mode # "idle"
  /\ pos' = 1
  /\ CachesLoad(IF mode = "removing" THEN "rm" ELSE "config")
  /\ UNCHANGED <<answer, stale, fail, mode, abort, db, acked>>

\* as_*_guard
Guard(n, p) == p \in Phases => Work[n][p] > 0

\* The state to_next_state enters: the next one, or the requested one, or the
\* first behind it whose guard passes.
NextState(c) ==
  LET from == IF c.next = to_next THEN c.state + 1 ELSE c.next IN
  CHOOSE p \in from..rmend :
    Guard(c.node, p) /\ \A q \in from..(p - 1) : ~Guard(c.node, q)

\* Mutant: the new failure is merged into the "err" field instead of replacing it.
EndEntry_MergeErr(i, c, s) ==
  LET n == c.node IN
  /\ cache' = [cache EXCEPT ![i] = FreeCache]
  /\ Forget(i)
  /\ errbits' = [errbits EXCEPT ![n] = @ \cup c.err]
  /\ IF c.err # {}
       THEN fail' = fail \cup {n} /\ UNCHANGED <<prov, done, acked>>
       ELSE /\ done' = IF s = end THEN done \cup {n} ELSE done \ {n}
            /\ prov' = IF s = end THEN prov ELSE prov \ {n}
            /\ acked' = IF s = end THEN acked ELSE [acked EXCEPT ![n] = {}]
            /\ UNCHANGED fail

\* end_entry, rmend_entry, then the end of config_engine: the outcome goes to
\* the database and the slot becomes free.
EndEntry(i, c, s) ==
  LET n == c.node IN
  /\ cache' = [cache EXCEPT ![i] = FreeCache]
  /\ Forget(i)
  /\ errbits' = [errbits EXCEPT ![n] = c.err]
  /\ IF c.err # {}
       THEN fail' = fail \cup {n} /\ UNCHANGED <<prov, done, acked>>
       ELSE /\ done' = IF s = end THEN done \cup {n} ELSE done \ {n}
            /\ prov' = IF s = end THEN prov ELSE prov \ {n}
            /\ acked' = IF s = end THEN acked ELSE [acked EXCEPT ![n] = {}]
            /\ UNCHANGED fail

\* to_next_state: enter the next state.  A state whose request fails sends the
\* node to the end state of configuration, the removing state included.
ToNextState(i, c, r) ==
  LET p == NextState(c) IN
  CASE p \in {end, rmend} -> EndEntry(i, c, p)
    [] p \in Phases /\ r = "api" -> EndEntry(i, Send(c, p, r), end)
    [] OTHER -> /\ cache' = [cache EXCEPT ![i] =
                               [Send(c, p, r) EXCEPT !.state = p, !.next = p]]
                /\ Replied(i, p, r)
                /\ UNCHANGED <<fail, db, acked>>

\* One slot of config_engine: exceptions of the last round (r is the result of
\* the retry), then the state (q is the result of the entry's request).
Engine(i, r, q) ==
  LET c    == cache[i]
      kind == CASE c.timer = "due" -> "expired"
                [] c.timer # "due" /\ c.oom -> "oom"
                [] OTHER -> "none"
      c1   == IF kind = "none" THEN c ELSE Retry(c, r, kind)
  IN
  /\ pos = i
  /\ pos' = pos + 1
  /\ UNCHANGED lists
  /\ IF c.node = None
       THEN UNCHANGED <<cache, answer, stale, fail, abort, db, acked>>
     ELSE IF kind = "oom" /\ c.wait      \* ASSERT(!WAIT_RESPONSE(cache))
       THEN abort' = "oom while waiting" /\ UNCHANGED <<cache, answer, stale, fail, db, acked>>
     ELSE /\ UNCHANGED abort
          /\ IF c1.wait \/ c1.state = c1.next
               THEN /\ cache' = [cache EXCEPT ![i] = c1]
                    /\ IF kind = "none" THEN UNCHANGED <<answer, stale>>
                                        ELSE Replied(i, c.state, r)
                    /\ UNCHANGED <<fail, db, acked>>
               ELSE ToNextState(i, c1, q)

-----------------------------------------------------------------------------
(* dev_config_hdr: a status event *)

\* The slot after its event.
Handled(i, c) == cache' = [cache EXCEPT ![i] = c] /\ UNCHANGED <<abort, db>>

\* The event answered the current request; with r = "ok" a new one was sent.
Consumed(i, p, r) ==
  /\ answer' = [answer EXCEPT ![i] = IF r = "ok" THEN Asked(p) ELSE "none"]
  /\ UNCHANGED stale

\* Mutant: WAIT_RESPONSE is not cleared when the event arrives.
Arrived_StillWaiting(i) == [cache[i] EXCEPT !.timer = "off"]

\* The slot once *_inprg has switched the timer off and cleared WAIT_RESPONSE.
Arrived(i) == [cache[i] EXCEPT !.timer = "off", !.wait = FALSE]

\* Retry on timeout at the end of dev_config_hdr.
RetryTimeout(i, c, r) ==
  IF RetryAsserts(c, r)
    THEN abort' = "retry budget" /\ UNCHANGED <<cache, answer, stale, db>>
    ELSE /\ Handled(i, Retry(c, r, "timeout"))
         /\ Consumed(i, c.state, r)

\* Composition data: stored; the request is still being answered.
RecvDcdData(i) ==
  /\ answer[i] = "data"
  /\ answer' = [answer EXCEPT ![i] = "status"]
  /\ Handled(i, [cache[i] EXCEPT !.timer = "off", !.dcd = TRUE])
  /\ UNCHANGED <<stale, acked>>

\* Mutant: the chain is resumed behind the state in which it failed.
Resume_Behind(n) == LET E == errbits[n] IN
  IF \E a \in E : a \in addappkey..setconfig /\ \A b \in E : b <= a
    THEN 1 + CHOOSE a \in E : \A b \in E : b <= a
    ELSE to_next

\* getdcd_inprg: where an earlier attempt failed, or simply the next state.
Resume(n) == LET E == errbits[n] IN
  IF \E a \in E : a \in addappkey..setconfig /\ \A b \in E : b <= a
    THEN CHOOSE a \in E : \A b \in E : b <= a
    ELSE to_next

\* Mutant: the phase is complete but no next state is requested.
PhaseDone_NoNext(c) == [c EXCEPT !.it = 0]

\* The last item of a phase was acknowledged.
PhaseDone(c) ==
  [c EXCEPT !.it = 0,
            !.next = IF c.state = get_dcd THEN Resume(c.node) ELSE to_next]

\* A success, or (addsub only) "insufficient resources", which skips the other
\* addresses of the model and does not end the retries.
RecvProgress(i, ev, r) ==
  LET c    == Arrived(i)
      p    == c.state
      last == Work[c.node][p]
      c1   == IF ev = "success" THEN [c EXCEPT !.ever = FALSE, !.rem = 0] ELSE c
  IN
  /\ answer[i] = "status"
  /\ ev = "nores" => "nores" \in Faults /\ p = addsub
  /\ \E j \in (IF ev = "nores" THEN c.it + 1..last ELSE {c.it + 1}) :
       IF j < last
         THEN /\ Handled(i, Send([c1 EXCEPT !.it = j], p, r))
              /\ Consumed(i, p, r)
              /\ UNCHANGED acked
         ELSE /\ acked' = [acked EXCEPT ![c.node] = @ \cup {p}]
              /\ IF c1.ever
                   THEN RetryTimeout(i, PhaseDone(c1), r)
                   ELSE Handled(i, PhaseDone(c1)) /\ Consumed(i, c.state, "none")

\* Mutant: off by one, a retry although none is left.
RecvTimeout_OffByOne(i, r) ==
  LET c == Arrived(i) IN
  /\ "timeout" \in Faults
  /\ answer[i] \in Coming
  /\ UNCHANGED acked
  /\ IF c.ever THEN RetryTimeout(i, c, r)
               ELSE RetryTimeout(i, [c EXCEPT !.ever = TRUE,
                                              !.rem = RetryTimes[c.state]], r)

\* Mutant: the removing state gives up to the end state of the configuration.
RecvTimeout_ToEnd(i, r) ==
  LET c == Arrived(i)
      p == c.state
  IN
  /\ "timeout" \in Faults
  /\ answer[i] \in Coming
  /\ UNCHANGED acked
  /\ IF ~c.ever \/ c.rem > 0
       THEN RetryTimeout(i, IF c.ever THEN c ELSE [c EXCEPT !.ever = TRUE,
                                                           !.rem = RetryTimes[p]], r)
       ELSE /\ Consumed(i, c.state, "none")
            /\ LET c1 == [c EXCEPT !.ever = FALSE, !.rem = 0] IN
               Handled(i, IF p = rm THEN [c1 EXCEPT !.next = end] ELSE ErrSetTo(c1, end))

\* A timeout: retry, or give up.  The removing state gives up as if the node
\* had been removed.
RecvTimeout(i, r) ==
  LET c == Arrived(i)
      p == c.state
  IN
  /\ "timeout" \in Faults
  /\ answer[i] \in Coming
  /\ UNCHANGED acked
  /\ CASE ~c.ever -> RetryTimeout(i, [c EXCEPT !.ever = TRUE, !.rem = RetryTimes[p]], r)
       [] c.ever /\ c.rem > 0 -> RetryTimeout(i, c, r)
       [] c.ever /\ c.rem <= 0 ->
            /\ Consumed(i, c.state, "none")
            /\ LET c1 == [c EXCEPT !.ever = FALSE, !.rem = 0] IN
               Handled(i, IF p = rm THEN [c1 EXCEPT !.next = to_next]
                                    ELSE ErrSetTo(c1, end))

\* Any other result ends the node.
RecvError(i) ==
  /\ "error" \in Faults
  /\ answer[i] \in Coming
  /\ Consumed(i, cache[i].state, "none")
  /\ UNCHANGED acked
  /\ Handled(i, ErrSetTo(Arrived(i), EndOf(cache[i].state)))

\* An event whose handle no slot holds: cache_from_cchandle ends the process.
RecvStale ==
  /\ stale
  /\ stale' = FALSE
  /\ abort' = "no cache for handle"
  /\ UNCHANGED <<cache, answer, db, acked>>

\* The events of the current request of slot i; r is the result of the request
\* sent in reaction, if there is one.
DcdEvent(i) == pos = 0 /\ RecvDcdData(i) /\ UNCHANGED <<fail, pos, lists>>

StatusEvent(i, r) ==
  /\ pos = 0
  /\ UNCHANGED <<fail, pos, lists>>
  /\ \/ \E ev \in {"success", "nores"} : RecvProgress(i, ev, r)
     \/ RecvTimeout(i, r)
     \/ RecvError(i)

StaleEvent == pos = 0 /\ RecvStale /\ UNCHANGED <<fail, pos, lists>>

DevConfigHdr ==
  \/ \E i \in Slots : DcdEvent(i)
  \/ \E i \in Slots, r \in Replies : StatusEvent(i, r)
  \/ StaleEvent

-----------------------------------------------------------------------------
(* The scheduler around the engine, and the environment *)

\* The modes set_mng_state may load next, whatever the order of priorities: one
\* that has work, or none.  `Adding' devices is mode "config" for the engine.
Picks(cfg, rms) == {"idle"} \cup (IF rms # {} THEN {"removing"} ELSE {})
                           \cup (IF cfg # {} \/ prov # Nodes THEN {"config"} ELSE {})

\* set_mng_state, as the engine sees it: a mode is left only when its list and
\* the slots are empty.
SetMngState ==
  /\ pos = MaxConcurrent + 1
  /\ pos' = 0
  /\ IF Used # {} \/ ListOf(IF mode = "removing" THEN "rm" ELSE "config") # {}
       THEN UNCHANGED mode
       ELSE mode' \in Picks(config, rmlist)
  /\ UNCHANGED <<cache, answer, stale, config, rmlist, fail, abort, db, acked>>

\* mng_load_lists: every node is filed anew; R are the ones marked for removal.
\* (That load_lists may stop early is in Mng.)
ListsLoad(R) ==
  /\ R \subseteq prov
  /\ config' = (prov \ R) \ done
  /\ rmlist' = R /\ fail' = {}

\* `sync 1'
Sync(R) ==
  /\ pos = 0 /\ mode = "idle"
  /\ ListsLoad(R)
  /\ mode' \in Picks(config', R)
  /\ UNCHANGED <<cache, answer, stale, pos, abort, db, acked>>

\* `sync 0': the lists are dropped, the slots finish what they have begun.
SyncStop ==
  /\ pos = 0 /\ mode # "idle"
  /\ config' = {} /\ rmlist' = {} /\ fail' = {}
  /\ UNCHANGED <<cache, answer, stale, mode, pos, abort, db, acked>>

\* clicb_rmblclr, in any state: load_cfg_file frees every node of the trees and makes
\* new ones, which mng_load_lists files.  The slots in use keep the nodes that were
\* freed.
RmBlClr(R) ==
  /\ pos = 0
  /\ ListsLoad(R)
  /\ abort' = IF Used # {} THEN "freed" ELSE abort
  /\ UNCHANGED <<cache, answer, stale, mode, pos, db, acked>>

\* on_prov_success: dev_add.c hands a new node to the engine.
Provisioned(n) ==
  /\ pos = 0 /\ n \notin prov
  /\ prov' = prov \cup {n}
  /\ config' = config \cup {n}
  /\ UNCHANGED <<cache, answer, stale, rmlist, fail, done, errbits, acked, mode, pos, abort>>

\* The NCP never raises the event.
Lose(i) ==
  /\ "loss" \in Faults
  /\ answer[i] \in Coming
  /\ answer' = [answer EXCEPT ![i] = "lost"]
  /\ UNCHANGED <<cache, stale, config, rmlist, fail, db, acked, mode, pos, abort>>

\* timer_set waits longer than the NCP does, so the guard timer only runs out
\* on a request whose event was lost.  A low power node is taken for a normal
\* one once its composition data is known (feature & LPN_BITOFS).
Expire(i) ==
  /\ cache[i].timer = "armed"
  /\ answer[i] = "lost" \/ (cache[i].dcd /\ cache[i].node \in LowPower)
  /\ cache' = [cache EXCEPT ![i].timer = "due"]
  /\ UNCHANGED <<answer, stale, config, rmlist, fail, db, acked, mode, pos, abort>>

-----------------------------------------------------------------------------
Init ==
  /\ cache = [i \in Slots |-> FreeCache]
  /\ answer = [i \in Slots |-> "none"]
  /\ stale = FALSE
  /\ config = {} /\ rmlist = {} /\ fail = {}
  /\ prov = {} /\ done = {}
  /\ errbits = [n \in Nodes |-> {}]
  /\ mode = "idle" /\ pos = 0 /\ abort = "no"
  /\ acked = [n \in Nodes |-> {}]

Alive == abort = "no"

Pass == AccLoop \/ SetMngState \/ \E i \in Slots, r, q \in Replies : Engine(i, r, q)

Next ==
  /\ Alive
  /\ \/ Pass
     \/ DevConfigHdr
     \/ \E R \in SUBSET prov : Sync(R) \/ RmBlClr(R)
     \/ SyncStop
     \/ \E n \in Nodes : Provisioned(n)
     \/ \E i \in Slots : Lose(i)
     \/ \E i \in Slots : Expire(i)

Spec == Init /\ [][Next]_vars

(***************************************************************************)
(* The main loop never stops, so it keeps passing over the slots, and each *)
(* round drains the events first: an event that the NCP raises is handled. *)
(* Time passes, so an armed guard timer runs out.  The NCP is not out of   *)
(* memory at every single request that it is sent.                         *)
(***************************************************************************)
Fairness ==
  /\ WF_vars(Alive /\ Pass)
  /\ \A i \in Slots : /\ SF_vars(Alive /\ DcdEvent(i))
                       /\ SF_vars(Alive /\ StatusEvent(i, "ok"))
                       /\ SF_vars(Alive /\ Engine(i, "ok", "ok"))
                       /\ WF_vars(Alive /\ Expire(i))

FairSpec == Spec /\ Fairness

-----------------------------------------------------------------------------
(* Properties *)

\* Every variable has its type: the slots, lists and database fields hold what
\* the C declarations of config_cache_t and mng_t let them hold.
TypeOK ==
  /\ cache \in [Slots -> Cache]
  /\ answer \in [Slots -> {"none", "data", "status", "lost"}]
  /\ stale \in BOOLEAN
  /\ config \subseteq Nodes /\ rmlist \subseteq Nodes /\ fail \subseteq Nodes
  /\ prov \subseteq Nodes /\ done \subseteq Nodes
  /\ errbits \in [Nodes -> SUBSET (provisioned..rm)]
  /\ mode \in {"idle", "config", "removing"}
  /\ pos \in 0..MaxConcurrent + 1
  /\ abort \in {"no", "oom while waiting", "retry budget", "no cache for handle", "freed"}
  /\ acked \in [Nodes -> SUBSET Phases]

\* No ASSERT and no LOGA of the engine ends the process.  (What clrrb does to the
\* slots in use is another matter: StopIsSafe of Mng.)
NoAbort == abort \in {"no", "freed"}

\* A node is handled at one place at a time: it is in at most one slot, and
\* while it is in a slot it is in neither work list (__caches_load unlinks the
\* list item; a sync begins when the slots are free).  The exception is clrrb,
\* which files the nodes in slots again, and frees the objects the slots hold.
OnePlace ==
  /\ \A i, j \in Used : cache[i].node = cache[j].node => i = j
  /\ abort # "freed" => \A i \in Used : cache[i].node \notin config \cup rmlist
  /\ config \cap rmlist = {}

\* A node is marked done only when it acknowledged every request of every phase
\* its configuration asks for, also when the attempts before failed and
\* getdcd_inprg resumed in the middle of the chain.
DoneMeansConfigured ==
  \A n \in done, p \in addappkey..setconfig : Work[n][p] > 0 => p \in acked[n]

\* A slot that waits for an event has a request outstanding at the NCP, and a
\* slot that does not wait has none: no event is dropped and none is awaited
\* in vain, unless the NCP loses it.
WaitMatchesNcp ==
  \A i \in Slots : cache[i].wait <=> answer[i] # "none"

\* A slot that waits is never also marked out of memory: the ASSERT of
\* config_engine (dev_config.c:417).
OomNeverWaits == \A i \in Slots : ~(cache[i].oom /\ cache[i].wait)

\* The retry on timeout stays within its budget: the ASSERT(0) of as_*_retry.
RetryWithinBudget == abort # "retry budget"

\* The guard timer only runs out when the event of the request is not coming any
\* more: timer_set adds the longest timeout of the NCP for a low power node.
GuardOutlivesNcp ==
  \A i \in Slots : cache[i].timer = "due" => answer[i] \notin Coming

\* Every node that gets a slot reaches the end of its chain and gives it back,
\* unless clrrb frees it meanwhile.
EveryNodeEnds ==
  \A i \in Slots : (cache[i].node # None) ~> (cache[i].node = None \/ abort = "freed")

\* The failure record names one state, which is what lets getdcd_inprg choose
\* where to resume; a node that is done has no failure record from configuring.
OneErrorBit ==
  /\ \A n \in Nodes : Cardinality(errbits[n]) <= 1
  /\ \A n \in done : errbits[n] \cap (provisioned..setconfig) = {}

-----------------------------------------------------------------------------
(* What the engine promises *)

\* The nodes in slots of one kind: the removing slots start behind `end'.
InSlots(S) == {cache[i].node : i \in {j \in Used : cache[j].state \in S}}

Place ==
  LET cfgs == InSlots(provisioned..setconfig)
      rms  == InSlots(end..rm)
  IN [n \in Nodes |->
        IF n \in cfgs THEN "configuring"
        ELSE IF n \in rms THEN "removing"
        ELSE IF n \in config THEN "to configure"
        ELSE IF n \in rmlist THEN "to remove"
        ELSE IF n \in fail THEN "failed"
        ELSE IF n \in prov THEN "resting" ELSE "out"]

A == INSTANCE Acc WITH Devs <- Nodes, place <- Place, marked <- done,
                       lost <- abort = "freed"

\* Whatever the NCP target does, the slots, lists and database fields only go
\* through what Acc allows: a node that is worked at is not filed again but by clrrb,
\* after which nothing is promised, a removing slot never leaves its node as
\* configured (as_rm_retry and rm_inprg lead to rmend, to_next_state sends a failed
\* entry to `end'), and a failure keeps the mark.
ImplementsAcc == A!Spec

-----------------------------------------------------------------------------
(* The inductive invariants behind OnePlace and NoAbort; the proofs are in   *)
(* AccEngineProofs.                                                          *)

\* A phase that sends requests is going on in slot i.
InPhase(i) == cache[i].node # None /\ cache[i].state \in Phases

\* Only a slot in such a phase has a request out, a timer running or an OOM to
\* recover from.
SlotInv ==
  \A i \in Slots :
    answer[i] # "none" \/ cache[i].timer # "off" \/ cache[i].oom => InPhase(i)

\* Outside a sync no slot is used.
ModeInv == mode = "idle" => Used = {}

\* Whatever is to be configured or removed, or is at it, is provisioned.
ListInv ==
  /\ config \subseteq prov /\ rmlist \subseteq prov
  /\ \A i \in Used : cache[i].node \in prov

IInv == TypeOK /\ SlotInv /\ ModeInv /\ ListInv /\ OnePlace

\* What ImplementsAcc rests on: the slots are all of the kind of the mode, which
\* decides where they can go on, and a node of the fail list is nowhere else.
CfgSlot(c) == /\ c.state \in provisioned..setconfig
              /\ c.next \in {to_next} \cup (get_dcd..end)
RmSlot(c) == /\ c.state \in {end, rm} /\ c.next \in {to_next, rm, rmend}
             /\ c.state = end => c.next = rm

KindInv == \A i \in Used : IF mode = "removing" THEN RmSlot(cache[i]) ELSE CfgSlot(cache[i])

FailInv ==
  /\ fail \subseteq prov /\ fail \cap (config \cup rmlist) = {}
  /\ \A i \in Used : cache[i].node \notin fail

\* What the assertions of the engine can bear.  Each pair that is excluded ends
\* the process: a guard timer's retry that is out of memory, and an item skipped
\* for lack of resources after a timeout; and so does a guard timer too short.
Tolerable ==
  /\ LowPower = {}
  /\ ~({"oom", "loss"} \subseteq Faults)
  /\ ~({"timeout", "nores"} \subseteq Faults)

\* A slot and its request, if guard timers are long enough.
SlotWait(c, a) ==
  /\ c.timer = "due" => a = "lost"
  /\ a = "lost" => "loss" \in Faults
  /\ c.wait <=> a # "none"

\* If the faults can be borne, a wait and an OOM exclude each other, and both
\* happen only in a state that is not about to be left.
SlotCalm(c) ==
  /\ c.oom => "oom" \in Faults
  /\ c.ever => "timeout" \in Faults
  /\ ~(c.wait /\ c.oom)
  /\ c.wait \/ c.oom => c.next = c.state

WaitInv == ~stale /\ \A i \in Slots : SlotWait(cache[i], answer[i])
CalmInv == Tolerable => NoAbort /\ \A i \in Slots : SlotCalm(cache[i])

RInv == IInv /\ WaitInv /\ CalmInv /\ abort # "no cache for handle"

\* Slot i waits for an event that was lost, and no guard timer runs: a second loss, after
\* as_*_retry has switched off the timer of the first.
Deaf(i) == cache[i].wait /\ ~cache[i].oom /\ cache[i].timer = "off" /\ answer[i] = "lost"

\* Such a slot stays as it is, and the sync goes on.
DeafStays == [][\A i \in Slots : Deaf(i) => UNCHANGED <<cache[i], answer[i], mode>>]_vars
=============================================================================
