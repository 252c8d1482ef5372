------------------------------ MODULE CmdFifo -------------------------------
(***************************************************************************)
(* What the command queue promises to who types at the console: every      *)
(* command is taken once, in the order of typing.  A reset may swallow the *)
(* command that is being executed, never one that waits.                   *)
(***************************************************************************)
EXTENDS Sequences

CONSTANTS Cmds, None

VARIABLES
  queue,   \* commands that wait
  running  \* the command in execution

vars == <<queue, running>>

Init == queue = <<>> /\ running = None

Typed(c) == queue' = Append(queue, c) /\ UNCHANGED running

Take ==
  /\ queue # <<>> /\ running = None
  /\ running' = Head(queue)
  /\ queue' = Tail(queue)

\* Executed, or cut off by a reset.
Ended ==
  /\ running # None
  /\ running' = None
  /\ UNCHANGED queue

\* The program is left.
Quit == queue' = <<>> /\ running' = None

Next == (\E c \in Cmds : Typed(c)) \/ Take \/ Ended \/ Quit

Spec == Init /\ [][Next]_vars

\* No command waits for ever, and none runs for ever.
FairSpec == Spec /\ WF_vars(Take) /\ WF_vars(Ended)
=============================================================================
