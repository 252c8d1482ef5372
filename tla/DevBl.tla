------------------------------- MODULE DevBl --------------------------------
(***************************************************************************)
(* Blacklisting nodes by key refresh: mng/dev_bl.c.                        *)
(*                                                                         *)
(* The nodes to be blacklisted are pushed to the NCP target until it is    *)
(* out of memory (offset counts them), then a key refresh excludes them    *)
(* from the network and hands a new network key to the remaining nodes;    *)
(* when it completes, the nodes from tail to offset are taken out of the   *)
(* database.  If not all nodes fitted, another key refresh follows.        *)
(*                                                                         *)
(* The NCP target is external: it holds the pushed nodes, runs the key     *)
(* refresh and raises its events.                                          *)
(***************************************************************************)
EXTENDS Naturals, Sequences, FiniteSets

CONSTANTS
  Nodes,    \* nodes of the network
  Faults,   \* "oom": a push fails; "start": key refresh does not start;
            \* "fail": it completes with an error; "getkey": the new key is not read
  Stops     \* the user gives `sync 0'

ASSUME BlAssumption ==
  /\ IsFiniteSet(Nodes)
  /\ Faults \subseteq {"oom", "start", "fail", "getkey"}
  /\ Stops \in BOOLEAN

VARIABLES
  list,     \* mng->lists.bl
  st,       \* mng->cache.bl.state
  offset, tail,  \* mng->cache.bl.offset, .tail
  phase,    \* mng->cache.bl.rem: key refresh phase of each remaining node
  prov,     \* nodes in the database
  key, val, \* netkey.id and the key netkey.val belongs to
  pushed,   \* NCP: nodes on the blacklist of the coming key refresh
  kr,       \* NCP: key refresh "off", "on", or its completion event to come
  ncpKey,   \* NCP: network key in use, alternating
  excluded, \* nodes that a completed key refresh left out
  abort     \* what ended the process

vars == <<list, st, offset, tail, phase, prov, key, val, pushed, kr, ncpKey,
          excluded, abort>>
ncp == <<kr, ncpKey, excluded>>

\* The phases a node reports; "ff" until it reports one.
Steps == {"ff", "1", "2", "0"}
Members(s) == {s[i] : i \in 1..Len(s)}
Injective(s) == \A i, j \in 1..Len(s) : s[i] = s[j] => i = j
Lists(S) == {s \in UNION {[1..k -> S] : k \in 1..Cardinality(S)} : Injective(s)}
NoRem == [n \in {} |-> "ff"]

-----------------------------------------------------------------------------
(* bl_loop *)

\* Mutant: the node at which the push failed counts as pushed.
BlTillOom_CountFailed(k) ==
  /\ k = Len(list) - offset \/ "oom" \in Faults
  /\ offset' = IF offset + k < Len(list) THEN offset + k + 1 ELSE offset + k
  /\ pushed' = pushed \cup {list[i] : i \in offset + 1..offset + k}

\* bl_till_oom: push k nodes; fewer than are left only if the NCP is out of memory.
BlTillOom(k) ==
  /\ k = Len(list) - offset \/ "oom" \in Faults
  /\ offset' = offset + k
  /\ pushed' = pushed \cup {list[i] : i \in offset + 1..offset + k}

\* load_remaining_nodes
LoadRemaining == phase' = [n \in prov \ Members(list) |-> "ff"]

BlIdle ==
  /\ st = "idle" /\ list # <<>>
  /\ IF phase = NoRem THEN LoadRemaining ELSE UNCHANGED phase
  /\ \E k \in 0..(Len(list) - offset) : BlTillOom(k)
  /\ st' = IF offset' = Len(list) THEN "starting" ELSE "prepare"
  /\ UNCHANGED <<list, tail, prov, key, val, ncp, abort>>

\* A list that `sync 0' cleared pushes nothing more.
BlPrepare ==
  /\ st = "prepare"
  /\ IF list = <<>> THEN st' = "starting" /\ UNCHANGED <<offset, pushed>>
     ELSE \E k \in 0..(Len(list) - offset) :
            /\ BlTillOom(k)
            /\ st' = IF k = 0 \/ offset' = Len(list) THEN "starting" ELSE "prepare"
  /\ UNCHANGED <<list, tail, phase, prov, key, val, ncp, abort>>

\* ASSERT that there is something to do; kr_start.
BlStarting ==
  /\ st = "starting"
  /\ UNCHANGED <<list, offset, tail, phase, prov, key, val, pushed, ncpKey, excluded>>
  /\ \/ offset = tail /\ abort' = "nothing pushed" /\ UNCHANGED <<st, kr>>
     \/ offset # tail /\ "start" \in Faults /\ abort' = "kr_start" /\ UNCHANGED <<st, kr>>
     \/ offset # tail /\ st' = "busy" /\ kr' = "on" /\ UNCHANGED abort

\* Mutant: tail is moved up in the reset, too.
BlDone_MoveTail ==
  /\ st = "done"
  /\ UNCHANGED <<key, val, pushed, ncp>>
  /\ IF offset > Len(list)
       THEN /\ abort' = "no list item"
            /\ UNCHANGED <<list, st, offset, tail, phase, prov>>
     ELSE /\ prov' = prov \ {list[i] : i \in tail + 1..offset}
          /\ UNCHANGED abort /\ tail' = offset
          /\ IF offset # Len(list)
               THEN st' = "starting" /\ UNCHANGED <<list, offset, phase>>
               ELSE list' = <<>> /\ st' = "idle" /\ offset' = 0 /\ phase' = NoRem

\* on_bl_done: the nodes leave the database (nodes_bl); once all did, start over.
BlDone ==
  /\ st = "done"
  /\ UNCHANGED <<key, val, pushed, ncp>>
  /\ IF offset > Len(list)     \* a NULL list item is dereferenced
       THEN /\ abort' = "no list item"
            /\ UNCHANGED <<list, st, offset, tail, phase, prov>>
     ELSE /\ prov' = prov \ {list[i] : i \in tail + 1..offset}
          /\ UNCHANGED abort
          /\ IF offset # Len(list)
               THEN /\ st' = "starting" /\ tail' = offset
                    /\ UNCHANGED <<list, offset, phase>>
               ELSE /\ list' = <<>> /\ st' = "idle" /\ offset' = 0 /\ tail' = 0
                    /\ phase' = NoRem

BlLoop == BlIdle \/ BlPrepare \/ BlStarting \/ BlDone

-----------------------------------------------------------------------------
(* bl_hdr *)

\* Mutant: without a list the events are not looked at.
IsBlActive_ListOnly == list # <<>>

\* __is_bl_active
IsBlActive == list # <<>> \/ st # "idle"

\* kr_node_update: a remaining node reports its next phase.
KrNodeUpdate(n) ==
  /\ kr = "on" /\ IsBlActive
  /\ n \in DOMAIN phase /\ phase[n] # "0"
  /\ phase' = [phase EXCEPT ![n] = CASE phase[n] = "ff" -> "1"
                                     [] phase[n] = "1"  -> "2"
                                     [] phase[n] = "2"  -> "0"]
  /\ UNCHANGED <<list, st, offset, tail, prov, key, val, pushed, ncp, abort>>

\* Mutant: blacklisting is only done when every remaining node reported the last phase.
KrFinish_WaitAll(got) ==
  /\ kr \in {"ok", "failed"} /\ kr' = "off" /\ got
  /\ st' = IF \A n \in DOMAIN phase : phase[n] = "0" THEN "done" ELSE st
  /\ key' = ncpKey /\ val' = ncpKey
  /\ UNCHANGED <<list, offset, tail, phase, prov, pushed, ncpKey, excluded, abort>>

\* kr_finish: the completion event; `got': the new key value could be read.
KrFinish(got) ==
  /\ kr \in {"ok", "failed"} /\ kr' = "off"
  /\ got \/ "getkey" \in Faults
  /\ IF IsBlActive
       THEN /\ st' = "done"
            /\ key' = IF kr = "ok" THEN ncpKey ELSE key
            /\ val' = IF kr = "ok" /\ got THEN ncpKey ELSE val
       ELSE UNCHANGED <<st, key, val>>
  /\ UNCHANGED <<list, offset, tail, phase, prov, pushed, ncpKey, excluded, abort>>

-----------------------------------------------------------------------------
(* The NCP target and the user *)

\* Key refresh completes at the NCP.  On success the pushed nodes are out.
Complete(ok) ==
  /\ kr = "on"
  /\ ok \/ "fail" \in Faults
  /\ IF ok THEN /\ kr' = "ok" /\ ncpKey' = 1 - ncpKey
                /\ excluded' = excluded \cup pushed /\ pushed' = {}
           ELSE kr' = "failed" /\ UNCHANGED <<ncpKey, excluded, pushed>>
  /\ UNCHANGED <<list, st, offset, tail, phase, prov, key, val, abort>>

\* `sync 1': load_lists collects the nodes marked for blacklisting.  mng->state
\* allows it only when blacklisting is over.
Sync(l) ==
  /\ st = "idle" /\ list = <<>>
  /\ list' = l
  /\ UNCHANGED <<st, offset, tail, phase, prov, key, val, pushed, ncp, abort>>

\* `sync 0': __lists_clr; mng->cache.bl is left as it is.
SyncStop ==
  /\ Stops /\ list # <<>>
  /\ list' = <<>>
  /\ UNCHANGED <<st, offset, tail, phase, prov, key, val, pushed, ncp, abort>>

-----------------------------------------------------------------------------
Init ==
  /\ list = <<>> /\ st = "idle" /\ offset = 0 /\ tail = 0 /\ phase = NoRem
  /\ prov = Nodes
  /\ key = 0 /\ val = 0
  /\ pushed = {} /\ kr = "off" /\ ncpKey = 0 /\ excluded = {}
  /\ abort = "no"

Alive == abort = "no"

Next ==
  /\ Alive
  /\ \/ BlLoop
     \/ \E n \in Nodes : KrNodeUpdate(n)
     \/ \E got \in BOOLEAN : KrFinish(got)
     \/ \E ok \in BOOLEAN : Complete(ok)
     \/ \E l \in Lists(prov) : Sync(l)
     \/ SyncStop

Spec == Init /\ [][Next]_vars

\* The main loop goes on, and a key refresh that was started completes.
Fairness == /\ WF_vars(Alive /\ BlLoop)
            /\ WF_vars(Alive /\ \E got \in BOOLEAN : KrFinish(got))
            /\ WF_vars(Alive /\ \E ok \in BOOLEAN : Complete(ok))

FairSpec == Spec /\ Fairness

-----------------------------------------------------------------------------
(* Properties *)

\* Types of bl_cache_t and of the NCP's side.
TypeOK ==
  /\ list \in Lists(Nodes) \cup {<<>>}
  /\ st \in {"idle", "prepare", "starting", "busy", "done"}
  /\ offset \in 0..Cardinality(Nodes) /\ tail \in 0..offset
  /\ DOMAIN phase \subseteq Nodes /\ \A n \in DOMAIN phase : phase[n] \in Steps
  /\ prov \subseteq Nodes /\ pushed \subseteq Nodes /\ excluded \subseteq Nodes
  /\ {key, val, ncpKey} \subseteq {0, 1}
  /\ kr \in {"off", "on", "ok", "failed"}
  /\ abort \in {"no", "nothing pushed", "kr_start", "no list item"}

\* A node leaves the database only when a key refresh has excluded it from the
\* network: README, "Blacklist devices from a network via key refresh procedure".
BlacklistedIsExcluded == Nodes \ prov \subseteq excluded

\* The ASSERT of bl_loop: a key refresh is only started for nodes that were
\* pushed since the last one.
SomethingPushed == abort # "nothing pushed"

\* The host uses the network key of the NCP, also when the sync was stopped while
\* the key refresh was going on.
KeyFollowsNcp ==
  kr \notin {"ok", "failed"} => key = ncpKey /\ ("getkey" \notin Faults => val = key)

\* What on_bl_done is going to take out of the database was pushed to the NCP,
\* and nothing else.
DoneNodesWerePushed ==
  Len(list) >= offset => \A i \in tail + 1..offset : list[i] \in pushed \cup excluded

\* Blacklisting that has begun comes to its end, however many key refreshes it
\* takes, unless an ASSERT ends the process.
BlEnds == (st # "idle") ~> (st = "idle" \/ ~Alive)
=============================================================================
