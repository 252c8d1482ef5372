--------------------------------- MODULE Acc ---------------------------------
(***************************************************************************)
(* What the asynchronous configuration client promises the manager, device *)
(* by device, without slots, phases, requests and events: each device is   *)
(* at one place, is handled by one kind of work at a time, and leaves that *)
(* work with exactly one of its outcomes.  All promises end when the       *)
(* manager files devices anew that are worked at.                          *)
(***************************************************************************)
CONSTANT Devs

VARIABLES
  place,  \* where a device is
  marked, \* devices that are marked as configured
  lost    \* the devices at work were filed anew under it: nothing is promised any more

vars == <<place, marked, lost>>

Places == {"out", "resting", "to configure", "configuring", "to remove",
           "removing", "failed"}

At(p) == {d \in Devs : place[d] = p}
AtWork == At("configuring") \cup At("removing")

Init ==
  /\ place = [d \in Devs |-> "out"]
  /\ marked = {} /\ lost = FALSE

\* The devices in the network are filed anew, R to be removed.  The manager must not
\* do so while devices are worked at.
File(R) ==
  /\ R \cap At("out") = {}
  /\ lost' = (AtWork # {})
  /\ place' = [d \in Devs |-> IF d \in AtWork \cup At("out") THEN place[d]
                             ELSE IF d \in R THEN "to remove"
                             ELSE IF d \in marked THEN "resting" ELSE "to configure"]
  /\ UNCHANGED marked

\* What has not begun is dropped.
Drop ==
  /\ place' = [d \in Devs |-> IF place[d] \in {"to configure", "to remove", "failed"}
                              THEN "resting" ELSE place[d]]
  /\ UNCHANGED <<marked, lost>>

Joined(d) ==
  /\ place[d] = "out"
  /\ place' = [place EXCEPT ![d] = "to configure"]
  /\ UNCHANGED <<marked, lost>>

\* The devices D are taken up; configuring and removing exclude each other.
Begin(D, from, to) ==
  /\ D \subseteq At(from) /\ AtWork \subseteq At(to)
  /\ place' = [d \in Devs |-> IF d \in D THEN to ELSE place[d]]
  /\ UNCHANGED <<marked, lost>>

Configured(d) ==
  /\ place[d] = "configuring"
  /\ place' = [place EXCEPT ![d] = "resting"]
  /\ marked' = marked \cup {d}
  /\ UNCHANGED lost

Removed(d) ==
  /\ place[d] = "removing"
  /\ place' = [place EXCEPT ![d] = "out"]
  /\ marked' = marked \ {d}
  /\ UNCHANGED lost

\* Neither: the mark stays what it was.
Failed(d) ==
  /\ d \in AtWork
  /\ place' = [place EXCEPT ![d] = "failed"]
  /\ UNCHANGED <<marked, lost>>

Next ==
  /\ ~lost
  /\ \/ \E R \in SUBSET Devs : File(R)
     \/ Drop
     \/ \E D \in SUBSET Devs : \/ Begin(D, "to configure", "configuring")
                               \/ Begin(D, "to remove", "removing")
     \/ \E d \in Devs : Joined(d) \/ Configured(d) \/ Removed(d) \/ Failed(d)

Spec == Init /\ [][Next]_vars
=============================================================================
