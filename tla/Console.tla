------------------------------ MODULE Console -------------------------------
(***************************************************************************)
(* The console and what its commands start in the manager: the command     *)
(* queue (mng.c, cmd_enq and cmd_deq), the lighting models (mng/models.c)  *)
(* and the demonstration (mng/demo.c).                                     *)
(*                                                                         *)
(* Two threads.  The console reads lines, handles the first three commands *)
(* itself (reset, q, help) and puts the others into the queue, a linked    *)
(* list under a mutex.  The manager takes one command per round of         *)
(* mng_mainloop, and sends one message to one light per round.             *)
(*                                                                         *)
(* The other work of the rounds is in the other modules.  Values of lights *)
(* are those of the commands; `None' is a value nobody asked for.          *)
(***************************************************************************)
EXTENDS Naturals, Sequences, FiniteSets

CONSTANTS
  Cells,    \* memory for items of the queue; bounds how many commands wait
  Cmds,     \* what the user types, but for the commands handled by the console
  Lights,   \* addresses
  Kind,     \* per command: "onoff", "lightness", "colortemp", "bad" (one of these
            \* with an invalid value), "demo on", "demo off", "other"
  Addrs,    \* per command: the addresses it names, if any
  Tree,     \* the nodes of the network, in the order of the tree
  Func,     \* models.func of each: the numbers of the bits that are set, 0 for onoff,
            \* 1 for lightness, 2 for CTL
  DemoAddrs,  \* addrst of demo.c
  Faults,   \* "oom": the NCP is out of memory
  None

LightKinds == {"onoff", "lightness", "colortemp"}

ASSUME ConsoleAssumption ==
  /\ Kind \in [Cmds -> LightKinds \cup {"bad", "demo on", "demo off", "other"}]
  /\ Addrs \in [Cmds -> Seq(Lights)]
  /\ Tree \in Seq(Lights) /\ Func \in [Lights -> SUBSET (0..7)]
  /\ DemoAddrs \in Seq(Lights)
  /\ Faults \subseteq {"oom"}
  /\ IsFiniteSet(Cells)
  /\ None \notin Cells /\ None \notin Cmds /\ None \notin LightKinds
  /\ "demo" \notin Cmds

VARIABLES
  head, tail,  \* cmdq
  next, item,  \* qitem_t: next, and the command
  used,        \* cells that are allocated
  pc,          \* where the manager is in its round
  cur,         \* the command it executes
  type, value, pend,  \* mng.cache.model_set; pend stands for nodes
  demo,        \* demo.expired is set
  pos, k,      \* demo.pos, and the variable of the loop of demo_run
  asked, sent  \* history: the messages the accepted request stands for, and those
               \* that were sent, or dropped for an error, for it

vars == <<head, tail, next, item, used, pc, cur, type, value, pend, demo, pos, k, asked, sent>>
cmdq == <<head, tail, next, item, used>>
modelSet == <<type, value, pend>>
hist == <<asked, sent>>
demoVars == <<demo, pos, k>>

Values == Cmds \cup {"demo", None}
Message(a, t, v) == [addr |-> a, type |-> t, value |-> v]
Messages == [addr : Lights, type : LightKinds, value : Values]
Sending(as, t, v) == [n \in DOMAIN as |-> Message(as[n], t, v)]

-----------------------------------------------------------------------------
(* The queue *)

\* Mutant: the item is put before the others.
Enq_First(c) ==
  \E x \in Cells \ used :
    /\ used' = used \cup {x}
    /\ item' = [item EXCEPT ![x] = c]
    /\ next' = [next EXCEPT ![x] = head]
    /\ head' = x
    /\ tail' = IF tail = None THEN x ELSE tail

\* cmd_enq
Enq(c) ==
  \E x \in Cells \ used :
    /\ used' = used \cup {x}
    /\ item' = [item EXCEPT ![x] = c]
    /\ tail' = x
    /\ IF tail # None
       THEN next' = [next EXCEPT ![x] = None, ![tail] = x] /\ UNCHANGED head
       ELSE next' = [next EXCEPT ![x] = None] /\ head' = x

\* free: what the memory held is not to be read any more.
Free(x) ==
  /\ used' = used \ {x}
  /\ next' = [next EXCEPT ![x] = None]
  /\ item' = [item EXCEPT ![x] = None]

\* Mutant: the tail is left behind.
Deq_KeepTail ==
  /\ head # None
  /\ cur' = item[head]
  /\ head' = next[head]
  /\ Free(head)
  /\ UNCHANGED tail

\* cmd_deq
Deq ==
  /\ head # None
  /\ cur' = item[head]
  /\ head' = next[head]
  /\ tail' = IF next[head] = None THEN None ELSE tail
  /\ Free(head)

\* The queue as a sequence: the commands met on the way from head.
Walk == LET w[n \in 0..Cardinality(Cells)] ==
              IF n = 0 THEN head ELSE IF w[n - 1] = None THEN None ELSE next[w[n - 1]]
        IN w
Queue == [n \in 1..Cardinality({m \in DOMAIN Walk : Walk[m] # None}) |-> item[Walk[n - 1]]]

-----------------------------------------------------------------------------
(* Commands *)

\* A request for lights is accepted; nothing comes of it if it names none.
Accept(t, v, as) ==
  /\ value' = v
  /\ pend' = as
  /\ type' = IF as = <<>> THEN None ELSE t
  /\ asked' = Sending(as, t, v)
  /\ sent' = <<>>

\* Mutant: the value is taken over before looking whether a request is under way.
LightSet_ValueFirst(t, v, as) ==
  IF type # None
  THEN value' = v /\ UNCHANGED <<type, pend, hist>>
  ELSE Accept(t, v, as)

\* clicb_onoff, clicb_perc_set: refused ("busy") while a request is under way.
LightSet(t, v, as) ==
  IF type # None
  THEN UNCHANGED <<modelSet, hist>>
  ELSE Accept(t, v, as)

\* The masks 1 << 0 and 1 << 1
ONOFF_SV_BIT == 1
LIGHTNESS_SV_BIT == 2

\* IS_BIT_SET: v & (1 << bit), v as a set of numbers of bits
IsBitSet(v, bit) == bit \in v

\* get_lights_addrs passes a mask on as the number of a bit: the mask of onoff selects
\* the lights that have lightness, the mask of lightness those that have CTL.
GetLightsAddrs(func) ==
  LET addr[n \in 0..Len(Tree)] ==
        IF n = 0 THEN <<>>
        ELSE IF IsBitSet(Func[Tree[n]], func) THEN Append(addr[n - 1], Tree[n])
        ELSE addr[n - 1]
  IN addr[Len(Tree)]

\* The lights of a command: those it names, or those that the mask selects.  colortemp
\* has the mask of lightness, and so comes to the lights that have CTL.
Targets(c) ==
  IF Addrs[c] # <<>> THEN Addrs[c]
  ELSE GetLightsAddrs(IF Kind[c] = "onoff" THEN ONOFF_SV_BIT ELSE LIGHTNESS_SV_BIT)

Light ==
  /\ Kind[cur] \in LightKinds
  /\ LightSet(Kind[cur], cur, Targets(cur))
  /\ UNCHANGED demoVars

\* clicb_perc_set stores the value and then finds it invalid.
Invalid ==
  /\ Kind[cur] = "bad"
  /\ value' = IF type = None THEN cur ELSE value
  /\ UNCHANGED <<type, pend, hist, demoVars>>

\* clicb_demo, demo_start
DemoOn ==
  /\ Kind[cur] = "demo on"
  /\ demo' = TRUE
  /\ UNCHANGED <<modelSet, hist, pos, k>>

DemoOff ==
  /\ Kind[cur] = "demo off"
  /\ demo' = FALSE /\ pos' = 0
  /\ UNCHANGED <<modelSet, hist, k>>

Other == Kind[cur] = "other" /\ UNCHANGED <<modelSet, hist, demoVars>>

-----------------------------------------------------------------------------
(* models_loop *)

\* Mutant: the type is left behind with the last light.
Handled_KeepType ==
  /\ pend # <<>>
  /\ sent' = Append(sent, Message(Head(pend), type, value))
  /\ pend' = Tail(pend)
  /\ UNCHANGED <<type, value, asked>>

\* The message to the first light is sent, or an error other than out of memory is
\* logged: the light is done with.
Handled ==
  /\ pend # <<>>
  /\ sent' = Append(sent, Message(Head(pend), type, value))
  /\ pend' = Tail(pend)
  /\ type' = IF Tail(pend) = <<>> THEN None ELSE type
  /\ UNCHANGED <<value, asked>>

ModelsLoop ==
  \/ Handled
  \/ pend # <<>> /\ "oom" \in Faults /\ UNCHANGED <<modelSet, hist>>
  \/ pend = <<>> /\ UNCHANGED <<modelSet, hist>>

-----------------------------------------------------------------------------
(* mng_mainloop *)

\* poll_cmd
PollCmd ==
  /\ pc = "poll"
  /\ \/ Deq /\ pc' = "run"
     \/ head = None /\ pc' = "models" /\ UNCHANGED <<cmdq, cur>>
  /\ UNCHANGED <<modelSet, demoVars, hist>>

Run ==
  /\ pc = "run" /\ pc' = "models"
  /\ Light \/ Invalid \/ DemoOn \/ DemoOff \/ Other
  /\ cur' = None
  /\ UNCHANGED cmdq

Models ==
  /\ pc = "models" /\ pc' = "demo"
  /\ ModelsLoop
  /\ UNCHANGED <<cmdq, cur, demoVars>>

\* demo_run: off, or not yet due
DemoSkip ==
  /\ pc = "demo" /\ pc' = "poll"
  /\ UNCHANGED <<cmdq, cur, modelSet, demoVars, hist>>

\* demo_run, roll: one more light, up to all of them
DemoRoll ==
  /\ pc = "demo" /\ demo /\ pc' = "demo set"
  /\ pos' = IF pos < Len(DemoAddrs) THEN pos + 1 ELSE pos
  /\ k' = 1
  /\ UNCHANGED <<cmdq, cur, modelSet, demo, hist>>

DemoSet ==
  /\ pc = "demo set" /\ k <= pos /\ pc' = "demo send"
  /\ LightSet("lightness", "demo", <<DemoAddrs[k]>>)
  /\ UNCHANGED <<cmdq, cur, demoVars>>

DemoSend ==
  /\ pc = "demo send" /\ pc' = "demo set"
  /\ ModelsLoop
  /\ k' = k + 1
  /\ UNCHANGED <<cmdq, cur, demo, pos>>

DemoEnd ==
  /\ pc = "demo set" /\ k > pos /\ pc' = "poll"
  /\ UNCHANGED <<cmdq, cur, modelSet, demoVars, hist>>

Manager == PollCmd \/ Run \/ Models \/ DemoSkip \/ DemoRoll \/ DemoSet \/ DemoSend \/ DemoEnd

-----------------------------------------------------------------------------
(* The console: cli_mainloop *)

Type(c) ==
  /\ Enq(c)
  /\ UNCHANGED <<pc, cur, modelSet, demoVars, hist>>

\* clicb_reset, longjmp: the manager is cancelled wherever it is, mng_init clears
\* mng, and a new thread is started.  The queue and the demonstration are not reset.
Reset ==
  /\ pc' = "poll" /\ cur' = None
  /\ type' = None /\ value' = None /\ pend' = <<>>
  /\ asked' = <<>> /\ sent' = <<>>
  /\ UNCHANGED <<cmdq, demoVars>>

\* clicb_quit; the program is started again.
Quit ==
  /\ head' = None /\ tail' = None /\ used' = {}
  /\ pc' = "poll" /\ cur' = None
  /\ type' = None /\ value' = None /\ pend' = <<>>
  /\ demo' = FALSE /\ pos' = 0 /\ k' = 0
  /\ asked' = <<>> /\ sent' = <<>>
  /\ next' = [x \in Cells |-> None] /\ item' = [x \in Cells |-> None]

Console == (\E c \in Cmds : Type(c)) \/ Reset \/ Quit

-----------------------------------------------------------------------------
Init ==
  /\ head = None /\ tail = None /\ used = {}
  /\ next = [x \in Cells |-> None] /\ item = [x \in Cells |-> None]
  /\ pc = "poll" /\ cur = None
  /\ type = None /\ value = None /\ pend = <<>>
  /\ demo = FALSE /\ pos = 0 /\ k = 0
  /\ asked = <<>> /\ sent = <<>>

Next == Manager \/ Console

\* The thread of the manager runs, and the NCP is not out of memory for ever.
Spec ==
  /\ Init /\ [][Next]_vars
  /\ WF_vars(Manager)
  /\ SF_vars(Models /\ Handled)

-----------------------------------------------------------------------------
(* Properties *)

\* Types; both ends of the queue are allocated items, or it is empty.
TypeOK ==
  /\ {head, tail} \subseteq used \/ (head = None /\ tail = None /\ used = {})
  /\ used \subseteq Cells
  /\ next \in [Cells -> Cells \cup {None}] /\ item \in [Cells -> Cmds \cup {None}]
  /\ pc \in {"poll", "run", "models", "demo", "demo set", "demo send"}
  /\ cur \in Cmds \cup {None} /\ (cur # None <=> pc = "run")
  /\ type \in LightKinds \cup {None} /\ value \in Values /\ pend \in Seq(Lights)
  /\ demo \in BOOLEAN /\ pos \in 0..Len(DemoAddrs) /\ k \in 0..(Len(DemoAddrs) + 1)
  /\ asked \in Seq(Messages) /\ sent \in Seq(Messages)

\* One accepted request is carried out for the lights that clicb_onoff or
\* clicb_perc_set put into its list, whatever is typed or demonstrated meanwhile: in
\* order, each once, all with its function and its value, and nothing is under way
\* when no light is left.  Which lights a command without addresses puts there is
\* another matter: LightsAsDocumented.
RequestServed ==
  /\ asked = sent \o Sending(pend, type, value)
  /\ (type = None) <=> (pend = <<>>)

\* The linked list is a queue, as CmdFifo says: in spite of what both threads do and
\* of resets at any point every command that waits is taken once and in its order,
\* and none for ever waits.
Fifo == INSTANCE CmdFifo WITH queue <- Queue, running <- cur
RefinesFifo == Fifo!FairSpec

\* What README.md:162 and cfgdb.h:251 say of a command without addresses: an accepted
\* request is for all lights that have its function.  onoff and lightness are not
\* (GetLightsAddrs), so that no run has this as a property.
FuncBit == [onoff |-> 0, lightness |-> 1, colortemp |-> 2]
LightsAsDocumented ==
  [][Run /\ Light /\ type = None /\ Addrs[cur] = <<>> =>
       {pend'[n] : n \in DOMAIN pend'} =
         {Tree[n] : n \in {m \in DOMAIN Tree : FuncBit[Kind[cur]] \in Func[Tree[m]]}}]_vars

\* No request keeps the lights busy for ever.
LightsEnd == type # None ~> type = None
=============================================================================
