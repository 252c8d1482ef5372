------------------------------- MODULE DevAdd -------------------------------
(***************************************************************************)
(* Adding devices: mng/dev_add.c, with the scanning switch of mng/mng.c.   *)
(*                                                                         *)
(* The NCP target scans for the beacons of unprovisioned devices.  A       *)
(* beacon of a device of the network file starts provisioning it, in one   *)
(* of a few sessions; scanning stops while all of them are busy or the NCP *)
(* is out of memory, and starts again when a session ends.  In free mode   *)
(* the beacons are looked at in every state, and unknown devices are       *)
(* recorded to the backlog.                                                *)
(*                                                                         *)
(* The NCP target and the devices are external: they send beacons, run     *)
(* the sessions and queue the events.                                      *)
(***************************************************************************)
EXTENDS Naturals, Sequences, FiniteSets

CONSTANTS
  Devs,         \* devices of the network file
  Marked,       \* those with RM_Blacklist set
  Strangers,    \* devices that are nearby and in no file
  None,         \* a free session
  MaxSessions,  \* MAX_PROV_SESSIONS
  MaxQueue,     \* bound: events in the queue of the NCP
  Faults,       \* "oom", "api": provisioning does not start; "fail", "seven": it
                \* fails, with any reason or with 7; "silent": it ends without event
  Commands      \* commands the user gives besides `sync 1'

ASSUME AddAssumption ==
  /\ IsFiniteSet(Devs) /\ Marked \subseteq Devs /\ Devs \cap Strangers = {}
  /\ None \notin Devs
  /\ MaxSessions \in Nat \ {0} /\ MaxQueue \in Nat \ {0}
  /\ Faults \subseteq {"oom", "api", "fail", "seven", "silent"}
  /\ Commands \subseteq {"sync 0", "freemode", "reset"}

VARIABLES
  state,     \* mng.state: "working" stands for the states other than adding
  add,       \* mng.lists.add
  prov,      \* devices with an address
  backlog,   \* devices of the backlog
  cache,     \* mng.cache.add: the device of each session
  recover,   \* scan_need_recover
  oom,       \* mng.status.oom
  freeMode,  \* mng.status.free_mode: 0 off, 1 adding, 2 free mode
  pc,        \* step of the main loop
  scanning,  \* NCP: scans for beacons
  sess,      \* NCP: devices being provisioned
  ddb,       \* NCP: device database
  member,    \* devices that hold the network key and do not send beacons
  q,         \* NCP: queue of events
  touched    \* history: the user stopped a sync, switched free mode or reset a device

vars == <<state, add, prov, backlog, cache, recover, oom, freeMode, pc,
          scanning, sess, ddb, member, q, touched>>
ncp == <<sess, ddb, member>>
lists == <<add, prov, backlog>>

Cached == {cache[i] : i \in 1..MaxSessions} \ {None}
Event == [type : {"beacon", "ok", "fail", "seven"}, dev : Devs \cup Strangers]

-----------------------------------------------------------------------------
(* Scanning *)

\* gecko_cmd_mesh_prov_scan_unprov_beacons if scan_need_recover
RecoverScan ==
  /\ recover' = FALSE
  /\ scanning' = (scanning \/ recover)

\* clm_set_scan
SetScan(s) ==
  /\ freeMode' = s
  /\ scanning' = CASE freeMode = 0 /\ s # 0 -> TRUE
                   [] freeMode # 0 /\ s = 0 -> FALSE
                   [] OTHER -> scanning

-----------------------------------------------------------------------------
(* dev_add_hdr *)

\* The events of provisioning are looked at.
Passes == state = "adding" \/ freeMode = 2

Handle(t, d) ==
  /\ pc = "evt" /\ q # <<>> /\ Head(q) = [type |-> t, dev |-> d]
  /\ q' = Tail(q)
  /\ UNCHANGED <<state, freeMode, pc, touched>>

\* dev_add_hdr and on_beacon_recv: the beacon starts nothing.
Ignored(d) ==
  \/ ~Passes \/ oom
  \/ d \in Cached \/ None \notin {cache[i] : i \in 1..MaxSessions}
  \/ d \in Marked \ prov
  \/ d \notin Devs \ prov /\ (d \in backlog \/ freeMode # 2)

IgnoreBeacon(d) ==
  /\ Handle("beacon", d) /\ Ignored(d)
  /\ UNCHANGED <<lists, cache, recover, oom, scanning, ncp>>

\* on_beacon_recv: a device the database does not know as unprovisioned
RecordBeacon(d) ==
  /\ Handle("beacon", d) /\ ~Ignored(d)
  /\ d \notin Devs \ prov
  /\ backlog' = backlog \cup {d}
  /\ UNCHANGED <<add, prov, cache, recover, oom, scanning, ncp>>

\* on_beacon_recv: provision the device, r is what the NCP answers.
ProvisionDevice(d, r) ==
  /\ Handle("beacon", d) /\ ~Ignored(d)
  /\ d \in Devs \ prov
  /\ IF d \in sess \cup ddb THEN r = "api" ELSE r = "ok" \/ r \in Faults
  /\ \/ /\ r = "api"
        /\ UNCHANGED <<cache, recover, oom, scanning, sess>>
     \/ /\ r = "oom"
        /\ oom' = TRUE /\ recover' = TRUE
        /\ scanning' = (scanning /\ recover)
        /\ UNCHANGED <<cache, sess>>
     \/ /\ r = "ok"
        /\ sess' = sess \cup {d}
        /\ \E i \in 1..MaxSessions :
             /\ cache[i] = None /\ \A j \in 1..(i - 1) : cache[j] # None
             /\ cache' = [cache EXCEPT ![i] = d]
        /\ IF \A i \in 1..MaxSessions : cache'[i] # None
             THEN recover' = TRUE /\ scanning' = FALSE
             ELSE UNCHANGED <<recover, scanning>>
        /\ UNCHANGED oom
  /\ UNCHANGED <<lists, ddb, member>>

\* Mutant: the first session is taken out, whichever device it is for.
RmCached_First(d) == cache' = [cache EXCEPT ![1] = None]

\* rmcached
RmCached(d) == cache' = [i \in 1..MaxSessions |-> IF cache[i] = d THEN None ELSE cache[i]]

\* Mutant: the device stays in the list of devices to be added.
OnProvSuccess_KeepAdd(d) ==
  /\ Handle("ok", d) /\ Passes
  /\ prov' = prov \cup {d}
  /\ RmCached(d)
  /\ RecoverScan
  /\ UNCHANGED <<add, backlog, oom, ncp>>

\* on_prov_success
OnProvSuccess(d) ==
  /\ Handle("ok", d) /\ Passes
  /\ prov' = prov \cup {d}
  /\ add' = add \ {d}
  /\ RmCached(d)
  /\ RecoverScan
  /\ UNCHANGED <<backlog, oom, ncp>>

\* Mutant: scanning is not recovered after a failure.
OnProvFailed_NoRecover(d) ==
  /\ Handle("fail", d) /\ Passes
  /\ RmCached(d)
  /\ UNCHANGED <<lists, recover, oom, scanning, ncp>>

\* on_prov_failed
OnProvFailed(d) ==
  /\ Handle("fail", d) /\ Passes
  /\ RmCached(d)
  /\ RecoverScan
  /\ UNCHANGED <<lists, oom, ncp>>

\* Mutant: the device stays in the database of the NCP.
ProvFailedWa_KeepDdb(d) ==
  /\ Handle("seven", d) /\ Passes
  /\ add' = add \ {d}
  /\ UNCHANGED <<prov, backlog, cache, recover, oom, scanning, ncp>>

\* on_prov_failed with reason 7, prov_failed_wa: the session stays in the cache.
ProvFailedWa(d) ==
  /\ Handle("seven", d) /\ Passes
  /\ add' = add \ {d}
  /\ ddb' = ddb \ {d}
  /\ UNCHANGED <<prov, backlog, cache, recover, oom, scanning, sess, member>>

\* dev_add_hdr lets the event pass by.
Dropped(t, d) ==
  /\ t # "beacon" /\ Handle(t, d) /\ ~Passes
  /\ UNCHANGED <<lists, cache, recover, oom, scanning, ncp>>

DevAddHdr(d) ==
  \/ IgnoreBeacon(d) \/ RecordBeacon(d)
  \/ \E r \in {"ok", "oom", "api"} : ProvisionDevice(d, r)
  \/ OnProvSuccess(d) \/ OnProvFailed(d) \/ ProvFailedWa(d)
  \/ \E t \in {"ok", "fail", "seven"} : Dropped(t, d)

\* bgevt_dispenser finds no event
NoMoreEvents ==
  /\ pc = "evt" /\ q = <<>> /\ pc' = "work"
  /\ UNCHANGED <<state, lists, cache, recover, oom, freeMode, scanning, ncp, q, touched>>

-----------------------------------------------------------------------------
(* The main loop *)

\* add_loop: `over': the delay after OOM has passed; E: sessions of which nothing
\* was heard for ADD_NO_RSP_TIMEOUT, much longer than the NCP's own limit.
AddLoop(over, E) ==
  /\ IF oom /\ over THEN oom' = FALSE /\ RecoverScan ELSE UNCHANGED <<oom, recover, scanning>>
  /\ cache' = [i \in 1..MaxSessions |-> IF cache[i] \in E THEN None ELSE cache[i]]

\* mng_mainloop: load_lists in state starting, add_loop in state adding
Work ==
  /\ pc = "work" /\ pc' = "sched"
  /\ IF state = "starting"
       THEN /\ add' = Devs \ (prov \cup Marked)
            /\ ddb' = ddb \cap prov
            /\ UNCHANGED <<cache, recover, oom, scanning>>
     ELSE IF state = "adding"
       THEN /\ \E over \in BOOLEAN, E \in SUBSET (Cached \ sess) : AddLoop(over, E)
            /\ UNCHANGED <<add, ddb>>
     ELSE UNCHANGED <<add, ddb, cache, recover, oom, scanning>>
  /\ UNCHANGED <<state, prov, backlog, freeMode, sess, member, q, touched>>

\* Mutant: scanning is turned off in free mode instead of without it.
EndAdding_FreeMode ==
  /\ state = "adding" /\ add = {}
  /\ IF freeMode = 2 THEN SetScan(0) ELSE UNCHANGED <<freeMode, scanning>>
  /\ state' \in {"working", "configured"}

\* set_mng_state: the end of adding.  What comes next depends on the order and
\* on the other lists.
EndAdding ==
  /\ state = "adding" /\ add = {}
  /\ IF freeMode < 2 THEN SetScan(0) ELSE UNCHANGED <<freeMode, scanning>>
  /\ state' \in {"working", "configured"}

\* set_mng_state: the letter `a' of the order is reached.
StartAdding ==
  /\ state \in {"starting", "working"} /\ add # {}
  /\ IF freeMode = 0 THEN SetScan(1) ELSE UNCHANGED <<freeMode, scanning>>
  /\ state' = "adding"

SetMngState ==
  /\ pc = "sched" /\ pc' = "cmd"
  /\ \/ EndAdding
     \/ StartAdding
     \/ /\ state \in {"starting", "working"} /\ state' \in {"working", "configured"}
        /\ UNCHANGED <<freeMode, scanning>>
     \/ /\ state = "configured" \/ (state = "adding" /\ add # {})
        /\ UNCHANGED <<state, freeMode, scanning>>
  /\ UNCHANGED <<lists, cache, recover, oom, ncp, q, touched>>

-----------------------------------------------------------------------------
(* poll_cmd *)

Polled ==
  pc = "cmd" /\ pc' = "evt" /\ UNCHANGED <<prov, backlog, cache, recover, oom, ncp, q>>

NoCmd == Polled /\ UNCHANGED <<state, add, freeMode, scanning, touched>>

\* clicb_sync
Sync ==
  /\ Polled
  /\ \/ state = "configured" /\ state' = "starting" /\ UNCHANGED <<add, touched>>
     \/ /\ "sync 0" \in Commands /\ state # "configured"
        /\ add' = {} /\ touched' = TRUE /\ UNCHANGED state
  /\ UNCHANGED <<freeMode, scanning>>

\* clicb_freemode
FreeMode(s) ==
  /\ Polled /\ "freemode" \in Commands
  /\ SetScan(s)
  /\ touched' = TRUE
  /\ UNCHANGED <<state, add>>

PollCmd == NoCmd \/ Sync \/ \E s \in {0, 2} : FreeMode(s)

-----------------------------------------------------------------------------
(* The NCP target and the devices *)

Host == <<state, lists, cache, recover, oom, freeMode, pc>>

\* An unprovisioned device sends its beacon.
Beacon(d) ==
  /\ scanning /\ d \notin sess \cup member
  /\ Len(q) < MaxQueue
  /\ q' = Append(q, [type |-> "beacon", dev |-> d])
  /\ UNCHANGED <<Host, scanning, ncp, touched>>

\* A session ends.  With reason 7 the device is in the database all the same.
SessionEnds(d, t) ==
  /\ d \in sess /\ sess' = sess \ {d}
  /\ t = "ok" \/ t \in Faults
  /\ IF t \in {"ok", "seven"} THEN ddb' = ddb \cup {d} /\ member' = member \cup {d}
                              ELSE UNCHANGED <<ddb, member>>
  /\ q' = IF t = "silent" THEN q ELSE Append(q, [type |-> t, dev |-> d])
  /\ UNCHANGED <<Host, scanning, touched>>

\* The user resets a device that is not a node: "USER Needs to Factory Reset it".
FactoryReset(d) ==
  /\ "reset" \in Commands
  /\ d \in member \ ddb /\ member' = member \ {d}
  /\ touched' = TRUE
  /\ UNCHANGED <<Host, scanning, sess, ddb, q>>

-----------------------------------------------------------------------------
Init ==
  /\ state = "configured" /\ add = {} /\ prov = {} /\ backlog = {}
  /\ cache = [i \in 1..MaxSessions |-> None]
  /\ recover = FALSE /\ oom = FALSE /\ freeMode = 0 /\ pc = "cmd"
  /\ scanning = FALSE /\ sess = {} /\ ddb = {} /\ member = {} /\ q = <<>>
  /\ touched = FALSE

MainLoop == PollCmd \/ NoMoreEvents \/ Work \/ SetMngState

Next ==
  \/ MainLoop
  \/ \E d \in Devs \cup Strangers : DevAddHdr(d) \/ Beacon(d)
  \/ \E d \in Devs, t \in {"ok", "fail", "seven", "silent"} : SessionEnds(d, t)
  \/ \E d \in Devs : FactoryReset(d)

Spec == Init /\ [][Next]_vars

(***************************************************************************)
(* The main loop goes on; it handles the events faster than they come, so  *)
(* that their queue gets empty; time passes: a session that ended is       *)
(* cleared and the delay after OOM is over, sooner or later; the NCP ends  *)
(* every session.                                                          *)
(***************************************************************************)
Fairness ==
  /\ WF_vars(MainLoop) /\ SF_vars(NoMoreEvents)
  /\ WF_vars(\E d \in Devs \cup Strangers : DevAddHdr(d))
  /\ []<>(q = <<>>)
  /\ SF_vars(Work /\ oom /\ ~oom')
  /\ \A d \in Devs : SF_vars(Work /\ d \in Cached /\ \A i \in 1..MaxSessions : cache'[i] # d)
  /\ \A d \in Devs : WF_vars(\E t \in {"ok", "fail", "seven", "silent"} : SessionEnds(d, t))

FairSpec == Spec /\ Fairness

-----------------------------------------------------------------------------
(* Properties *)

\* Types of the state that dev_add.c and mng.c keep, and of the NCP's.
TypeOK ==
  /\ state \in {"configured", "starting", "adding", "working"}
  /\ add \subseteq Devs \ prov /\ prov \subseteq Devs
  /\ backlog \subseteq Devs \cup Strangers
  /\ cache \in [1..MaxSessions -> Devs \cup {None}]
  /\ {recover, oom, scanning, touched} \subseteq BOOLEAN
  /\ freeMode \in {0, 1, 2}
  /\ pc \in {"cmd", "evt", "work", "sched"}
  /\ sess \subseteq Devs /\ ddb \subseteq Devs /\ member \subseteq Devs
  /\ \A i \in 1..Len(q) : q[i] \in Event

\* The host knows every session of the NCP, each once, whatever became of the
\* sync that started it: it never asks for more than MAX_PROV_SESSIONS (iscached,
\* rmcached, add_loop).
SessionsTracked ==
  /\ sess \subseteq Cached
  /\ \A i, j \in 1..MaxSessions : cache[i] = cache[j] /\ cache[i] # None => i = j

\* Devices whose outcome is still in the queue.
Pending == {q[i].dev : i \in {k \in 1..Len(q) : q[k].type # "beacon"}}

\* The database has an address for exactly the devices that the NCP has in its
\* own (on_prov_success, prov_failed_wa, load_lists), once the events are handled.
\* Only after the user stopped a sync, switched free mode or reset a device that
\* was given up (so that it comes back in a session nobody waits for), the outcome
\* of a session may pass by, or be handled after load_lists removed its device.
DbFollowsNcp ==
  ~touched => prov \subseteq ddb /\ ddb \ prov \subseteq Pending

\* Scanning goes on only as long as somebody looks at the beacons: set_mng_state
\* turns it off when adding ends, also if the sync was stopped while it waited
\* for a session to end.
ScanHasReason == pc = "evt" /\ scanning => state = "adding" \/ freeMode = 2

\* Scanning that was stopped while adding starts again, as long as there is
\* something to add (scan_need_recover: "disable scanning for a while").
ScanRestored == (state = "adding" /\ ~scanning) ~> (scanning \/ state # "adding")
=============================================================================
