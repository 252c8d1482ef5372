--------------------------- MODULE CfgStoreProofs ---------------------------
(***************************************************************************)
(* Proofs about CfgStore for any devices: the file, the document that was  *)
(* read from it and the trees agree.                                       *)
(*                                                                         *)
(* Inv strengthens the properties to the steps within an operation: AtHome *)
(* says where the device it is about is, MemoryFollows what of memory and  *)
(* document still differs, and FileCovers that the user moves an entry and *)
(* changes its fields, but does not take it away or give it an address.    *)
(***************************************************************************)
EXTENDS CfgStore, TLAPS

FileCovers ==
  \A d \in Devs :
    /\ root[d].node => file[d].node /\ (file[d].addr <=> root[d].addr)
    /\ root[d].back => file[d].back \/ file[d].node

NodesKnown == step # "clear load" => nodes \subseteq Provisioned(root)

AtHome ==
  /\ step \in {"addr on", "to nodes"} => at \in unprov
  /\ step = "to nodes" => at \in Provisioned(root)
  /\ step \in {"rm done", "rm tree", "bl tree", "done"} => at \in nodes
  /\ step \in {"bl done", "addr off"} => at \in unprov \ nodes
  /\ step \in {"rm tree", "addr off"} => ~root[at].done
  /\ ~up => step = "idle"

DoneOk == \A d \in Devs : (file[d].done => file[d].addr) /\ (root[d].done => root[d].addr)

Known == up /\ step # "boot" /\ file # root => newer \/ blind

\* A reload is due, and will do what is missing.
Reloads == step \in LoadSteps \cup {"clear"}

\* The device whose address in the document and whose tree differ.
Moves(d) == d = at /\ step \in {"to nodes", "bl done", "addr off"}

MemoryFollows ==
  up /\ ~Reloads =>
    \A d \in Devs :
      /\ d \notin Bare /\ root[d].node /\ ~Moves(d) =>
           (d \in nodes <=> root[d].addr) /\ (d \in unprov <=> ~root[d].addr)
      /\ d \in marked <=> root[d].node /\ root[d].flag
      /\ d \in configured <=> root[d].node /\ root[d].done /\ ~(step = "bl done" /\ d = at)

BacklogFollows == up /\ step # "boot" => Recorded(root) \ Bare \subseteq backlog

Inv ==
  /\ TypeOK /\ FileCovers /\ NodesKnown /\ AtHome /\ DoneOk
  /\ Known /\ MemoryFollows /\ BacklogFollows

-----------------------------------------------------------------------------
(* What a changed document is, field by field *)

AddrSet(f, g, d, v) ==
  /\ g \in [Devs -> Entry]
  /\ \A e \in Devs :
       /\ g[e].node = f[e].node /\ g[e].back = f[e].back
       /\ g[e].flag = f[e].flag /\ g[e].done = f[e].done
       /\ g[e].addr = (IF e = d THEN v ELSE f[e].addr)

DoneSet(f, g, d, v) ==
  /\ g \in [Devs -> Entry]
  /\ \A e \in Devs :
       /\ g[e].node = f[e].node /\ g[e].back = f[e].back
       /\ g[e].addr = f[e].addr /\ g[e].flag = f[e].flag
       /\ g[e].done = (IF e = d THEN v ELSE f[e].done)

BackSet(f, g, d) ==
  /\ g \in [Devs -> Entry]
  /\ \A e \in Devs :
       /\ g[e].node = f[e].node /\ g[e].addr = f[e].addr
       /\ g[e].flag = f[e].flag /\ g[e].done = f[e].done
       /\ g[e].back = (f[e].back \/ e = d)

AllFlagged(f, g) ==
  /\ g \in [Devs -> Entry]
  /\ \A e \in Devs :
       /\ g[e].node = f[e].node /\ g[e].back = f[e].back
       /\ g[e].addr = f[e].addr /\ g[e].done = f[e].done
       /\ g[e].flag = (f[e].flag \/ e \in Provisioned(f))

FlagsCleared(f, g) ==
  /\ g \in [Devs -> Entry]
  /\ \A e \in Devs :
       /\ g[e].node = f[e].node /\ g[e].back = f[e].back
       /\ g[e].addr = f[e].addr /\ g[e].done = f[e].done
       /\ g[e].flag = (f[e].flag /\ e \notin Unprovisioned(f))

AllCleared(f, g) ==
  /\ g \in [Devs -> Entry]
  /\ \A e \in Devs :
       /\ g[e].node = f[e].node /\ g[e].back = f[e].back
       /\ ~g[e].addr
       /\ ~g[e].flag
       /\ ~g[e].done

EntryMoved(f, g, d) ==
  /\ g \in [Devs -> Entry]
  /\ \A e \in Devs :
       /\ g[e].addr = f[e].addr /\ g[e].flag = f[e].flag
       /\ g[e].done = f[e].done
       /\ g[e].node = (f[e].node \/ e = d)
       /\ g[e].back = (f[e].back /\ e # d)

FlagSet(f, g, d, v) ==
  /\ g \in [Devs -> Entry]
  /\ \A e \in Devs :
       /\ g[e].node = f[e].node /\ g[e].back = f[e].back
       /\ g[e].addr = f[e].addr /\ g[e].done = f[e].done
       /\ g[e].flag = (IF e = d THEN v ELSE f[e].flag)

\* SetNodeAddr changes the field it is meant to change, and no other.
LEMMA SetNodeAddrFields ==
  ASSUME NEW f \in [Devs -> Entry], NEW d \in Devs, NEW v \in BOOLEAN
  PROVE  AddrSet(f, SetNodeAddr(f, d, v), d, v)
  BY DEF AddrSet, SetNodeAddr, Entry

\* SetNodeDone changes the field it is meant to change, and no other.
LEMMA SetNodeDoneFields ==
  ASSUME NEW f \in [Devs -> Entry], NEW d \in Devs, NEW v \in BOOLEAN
  PROVE  DoneSet(f, SetNodeDone(f, d, v), d, v)
  BY DEF DoneSet, SetNodeDone, Entry

\* BacklogNodeAdd changes the field it is meant to change, and no other.
LEMMA BacklogNodeAddFields ==
  ASSUME NEW f \in [Devs -> Entry], NEW d \in Devs
  PROVE  BackSet(f, BacklogNodeAdd(f, d), d)
  BY DEF BackSet, BacklogNodeAdd, Entry

\* RmallNodes changes the field it is meant to change, and no other.
LEMMA RmallNodesFields ==
  ASSUME NEW f \in [Devs -> Entry]
  PROVE  AllFlagged(f, RmallNodes(f))
  BY DEF AllFlagged, RmallNodes, Entry, Provisioned, Unprovisioned

\* RmblClr changes the field it is meant to change, and no other.
LEMMA RmblClrFields ==
  ASSUME NEW f \in [Devs -> Entry]
  PROVE  FlagsCleared(f, RmblClr(f))
  BY DEF FlagsCleared, RmblClr, Entry, Provisioned, Unprovisioned

\* NodesClrctl changes the field it is meant to change, and no other.
LEMMA NodesClrctlFields ==
  ASSUME NEW f \in [Devs -> Entry]
  PROVE  AllCleared(f, NodesClrctl(f))
  BY DEF AllCleared, NodesClrctl, Entry

\* Moved changes the field it is meant to change, and no other.
LEMMA MovedFields ==
  ASSUME NEW f \in [Devs -> Entry], NEW d \in Devs
  PROVE  EntryMoved(f, Moved(f, d), d)
  BY DEF EntryMoved, Moved, Entry

\* Flagged changes the field it is meant to change, and no other.
LEMMA FlaggedFields ==
  ASSUME NEW f \in [Devs -> Entry], NEW d \in Devs, NEW v \in BOOLEAN
  PROVE  FlagSet(f, Flagged(f, d, v), d, v)
  BY DEF FlagSet, Flagged, Entry

-----------------------------------------------------------------------------
(* Every step keeps the invariant *)

\* The step AddrOn keeps the invariant.
LEMMA AddrOnInv ==
  ASSUME CfgStoreAssumption, Inv, AddrOn
  PROVE  Inv'
<1>a. at \in Devs /\ root[at].node /\ root \in [Devs -> Entry]
  BY DEF Inv, TypeOK, AtHome, AddrOn
<1>b. root' = SetNodeAddr(root, at, TRUE) /\ file' = root'
  BY <1>a DEF AddrOn, Modify, Write, Flush
<1>c. AddrSet(root, root', at, TRUE)
  BY <1>a, <1>b, SetNodeAddrFields
<1>1. TypeOK'
  BY <1>a, <1>b, <1>c DEF AddrSet, Inv, TypeOK, Steps, AtHome, CfgStoreAssumption,
     trees, clock, AddrOn, Goto, Modify, Write, Flush
<1>2. FileCovers'
  BY <1>a, <1>b, <1>c DEF AddrSet, Inv, FileCovers, TypeOK, CfgStoreAssumption
<1>3. NodesKnown'
  BY <1>a, <1>b, <1>c DEF AddrSet, Inv, NodesKnown, TypeOK, AtHome, Provisioned,
     CfgStoreAssumption, trees, AddrOn
<1>4. AtHome'
  BY <1>a, <1>b, <1>c DEF AddrSet, Inv, AtHome, TypeOK, Provisioned, Steps,
     CfgStoreAssumption, trees, clock, AddrOn, Goto
<1>5. DoneOk'
  BY <1>a, <1>b, <1>c DEF AddrSet, Inv, DoneOk, TypeOK, AtHome, NodesKnown, Provisioned,
     CfgStoreAssumption
<1>6. Known'
  BY <1>a, <1>b, <1>c DEF AddrSet, Inv, Known, TypeOK, CfgStoreAssumption, trees, clock,
     AddrOn
<1>7. MemoryFollows'
  BY <1>a, <1>b, <1>c DEF AddrSet, Inv, MemoryFollows, TypeOK, AtHome, Reloads,
     LoadSteps, Moves, NodesKnown, FileCovers, Provisioned, Unprovisioned,
     CfgStoreAssumption, trees, clock, AddrOn, Goto
<1>8. BacklogFollows'
  BY <1>a, <1>b, <1>c DEF AddrSet, Inv, BacklogFollows, TypeOK, Recorded,
     CfgStoreAssumption, trees, clock, AddrOn, Goto
<1> QED BY <1>1, <1>2, <1>3, <1>4, <1>5, <1>6, <1>7, <1>8 DEF Inv

\* The step RmDone keeps the invariant.
LEMMA RmDoneInv ==
  ASSUME CfgStoreAssumption, Inv, RmDone
  PROVE  Inv'
<1>a. at \in Devs /\ root[at].node /\ root \in [Devs -> Entry]
  BY DEF Inv, TypeOK, AtHome, RmDone
<1>b. root' = SetNodeDone(root, at, FALSE) /\ file' = root'
  BY <1>a DEF RmDone, Modify, Write, Flush
<1>c. DoneSet(root, root', at, FALSE)
  BY <1>a, <1>b, SetNodeDoneFields
<1>1. TypeOK'
  BY <1>a, <1>b, <1>c DEF DoneSet, Inv, TypeOK, Steps, AtHome, CfgStoreAssumption,
     trees, clock, RmDone, Goto, Modify, Write, Flush
<1>2. FileCovers'
  BY <1>a, <1>b, <1>c DEF DoneSet, Inv, FileCovers, TypeOK, CfgStoreAssumption
<1>3. NodesKnown'
  BY <1>a, <1>b, <1>c DEF DoneSet, Inv, NodesKnown, TypeOK, AtHome, Provisioned,
     CfgStoreAssumption, RmDone
<1>4. AtHome'
  BY <1>a, <1>b, <1>c DEF DoneSet, Inv, AtHome, TypeOK, Provisioned, Steps,
     CfgStoreAssumption, trees, clock, RmDone, Goto
<1>5. DoneOk'
  BY <1>a, <1>b, <1>c DEF DoneSet, Inv, DoneOk, TypeOK, AtHome, NodesKnown, Provisioned,
     CfgStoreAssumption
<1>6. Known'
  BY <1>a, <1>b, <1>c DEF DoneSet, Inv, Known, TypeOK, CfgStoreAssumption, trees, clock,
     RmDone
<1>7. MemoryFollows'
  BY <1>a, <1>b, <1>c DEF DoneSet, Inv, MemoryFollows, TypeOK, AtHome, Reloads,
     LoadSteps, Moves, NodesKnown, FileCovers, Provisioned, Unprovisioned,
     CfgStoreAssumption, trees, clock, RmDone, Goto
<1>8. BacklogFollows'
  BY <1>a, <1>b, <1>c DEF DoneSet, Inv, BacklogFollows, TypeOK, Recorded,
     CfgStoreAssumption, trees, clock, RmDone, Goto
<1> QED BY <1>1, <1>2, <1>3, <1>4, <1>5, <1>6, <1>7, <1>8 DEF Inv

\* The step AddrOff keeps the invariant.
LEMMA AddrOffInv ==
  ASSUME CfgStoreAssumption, Inv, AddrOff
  PROVE  Inv'
<1>a. at \in Devs /\ root[at].node /\ root \in [Devs -> Entry]
  BY DEF Inv, TypeOK, AtHome, AddrOff
<1>b. root' = SetNodeAddr(root, at, FALSE) /\ file' = root'
  BY <1>a DEF AddrOff, Modify, Write, Flush
<1>c. AddrSet(root, root', at, FALSE)
  BY <1>a, <1>b, SetNodeAddrFields
<1>1. TypeOK'
  BY <1>a, <1>b, <1>c DEF AddrSet, Inv, TypeOK, Steps, AtHome, CfgStoreAssumption,
     trees, clock, AddrOff, Finish, Modify, Write, Flush
<1>2. FileCovers'
  BY <1>a, <1>b, <1>c DEF AddrSet, Inv, FileCovers, TypeOK, CfgStoreAssumption
<1>3. NodesKnown'
  BY <1>a, <1>b, <1>c DEF AddrSet, Inv, NodesKnown, TypeOK, AtHome, Provisioned,
     CfgStoreAssumption, trees, AddrOff
<1>4. AtHome'
  BY <1>a, <1>b, <1>c DEF AddrSet, Inv, AtHome, TypeOK, Provisioned, Steps,
     CfgStoreAssumption, clock, AddrOff, Finish
<1>5. DoneOk'
  BY <1>a, <1>b, <1>c DEF AddrSet, Inv, DoneOk, TypeOK, AtHome, NodesKnown, Provisioned,
     CfgStoreAssumption, AddrOff
<1>6. Known'
  BY <1>a, <1>b, <1>c DEF AddrSet, Inv, Known, TypeOK, CfgStoreAssumption, trees, clock,
     AddrOff
<1>7. MemoryFollows'
  BY <1>a, <1>b, <1>c DEF AddrSet, Inv, MemoryFollows, TypeOK, AtHome, Reloads,
     LoadSteps, Moves, NodesKnown, FileCovers, Provisioned, Unprovisioned,
     CfgStoreAssumption, trees, clock, AddrOff, Finish
<1>8. BacklogFollows'
  BY <1>a, <1>b, <1>c DEF AddrSet, Inv, BacklogFollows, TypeOK, Recorded,
     CfgStoreAssumption, trees, clock, AddrOff, Finish
<1> QED BY <1>1, <1>2, <1>3, <1>4, <1>5, <1>6, <1>7, <1>8 DEF Inv

\* The step Done keeps the invariant.
LEMMA DoneInv ==
  ASSUME CfgStoreAssumption, Inv, Done
  PROVE  Inv'
<1>a. at \in Devs /\ root[at].node /\ root \in [Devs -> Entry]
  BY DEF Inv, TypeOK, AtHome, Done
<1>b. root' = SetNodeDone(root, at, TRUE) /\ file' = root'
  BY <1>a DEF Done, Modify, Write, Flush
<1>c. DoneSet(root, root', at, TRUE)
  BY <1>a, <1>b, SetNodeDoneFields
<1>1. TypeOK'
  BY <1>a, <1>b, <1>c DEF DoneSet, Inv, TypeOK, Steps, AtHome, CfgStoreAssumption,
     trees, clock, Done, Finish, Modify, Write, Flush
<1>2. FileCovers'
  BY <1>a, <1>b, <1>c DEF DoneSet, Inv, FileCovers, TypeOK, CfgStoreAssumption
<1>3. NodesKnown'
  BY <1>a, <1>b, <1>c DEF DoneSet, Inv, NodesKnown, TypeOK, AtHome, Provisioned,
     CfgStoreAssumption, Done
<1>4. AtHome'
  BY <1>a, <1>b, <1>c DEF DoneSet, Inv, AtHome, TypeOK, Provisioned, Steps,
     CfgStoreAssumption, trees, clock, Done, Finish
<1>5. DoneOk'
  BY <1>a, <1>b, <1>c DEF DoneSet, Inv, DoneOk, TypeOK, AtHome, NodesKnown, Provisioned,
     CfgStoreAssumption, Done
<1>6. Known'
  BY <1>a, <1>b, <1>c DEF DoneSet, Inv, Known, TypeOK, CfgStoreAssumption, trees, clock,
     Done
<1>7. MemoryFollows'
  BY <1>a, <1>b, <1>c DEF DoneSet, Inv, MemoryFollows, TypeOK, AtHome, Reloads,
     LoadSteps, Moves, NodesKnown, FileCovers, Provisioned, Unprovisioned,
     CfgStoreAssumption, trees, clock, Done, Finish
<1>8. BacklogFollows'
  BY <1>a, <1>b, <1>c DEF DoneSet, Inv, BacklogFollows, TypeOK, Recorded,
     CfgStoreAssumption, trees, clock, Done, Finish
<1> QED BY <1>1, <1>2, <1>3, <1>4, <1>5, <1>6, <1>7, <1>8 DEF Inv

\* The device moves to the nodes, where its address already is.
LEMMA ToNodesInv ==
  ASSUME CfgStoreAssumption, Inv, ToNodes
  PROVE  Inv'
<1>a. at \in Devs /\ root[at].node /\ root \in [Devs -> Entry]
  BY DEF Inv, TypeOK, AtHome, ToNodes
<1>1. TypeOK'
  BY <1>a DEF TypeOK, Inv, Steps, AtHome, CfgStoreAssumption, trees, clock, ToNodes,
     Finish
<1>2. FileCovers'
  BY <1>a DEF FileCovers, Inv, TypeOK, CfgStoreAssumption, ToNodes
<1>3. NodesKnown'
  BY <1>a DEF NodesKnown, Inv, TypeOK, AtHome, Provisioned, CfgStoreAssumption, ToNodes
<1>4. AtHome'
  BY <1>a DEF AtHome, Inv, TypeOK, Provisioned, Steps, CfgStoreAssumption, ToNodes,
     Finish
<1>5. DoneOk'
  BY <1>a DEF DoneOk, Inv, TypeOK, AtHome, NodesKnown, Provisioned, CfgStoreAssumption,
     ToNodes
<1>6. Known'
  BY <1>a DEF Known, Inv, TypeOK, CfgStoreAssumption, clock, ToNodes
<1>7. MemoryFollows'
  BY <1>a DEF MemoryFollows, Inv, TypeOK, AtHome, Reloads, LoadSteps, Moves, NodesKnown,
     FileCovers, Provisioned, Unprovisioned, CfgStoreAssumption, ToNodes, Finish
<1>8. BacklogFollows'
  BY <1>a DEF BacklogFollows, Inv, TypeOK, Recorded, CfgStoreAssumption, trees, clock,
     ToNodes, Finish
<1> QED BY <1>1, <1>2, <1>3, <1>4, <1>5, <1>6, <1>7, <1>8 DEF Inv

\* The node moves to the unprovisioned devices.
LEMMA ToUnprovInv ==
  ASSUME CfgStoreAssumption, Inv, ToUnprov
  PROVE  Inv'
<1>a. at \in Devs /\ root[at].node /\ root \in [Devs -> Entry]
  BY DEF Inv, TypeOK, AtHome, ToUnprov
<1>1. TypeOK'
  BY <1>a DEF TypeOK, Inv, Steps, AtHome, CfgStoreAssumption, trees, clock, ToUnprov,
     Goto
<1>2. FileCovers'
  BY <1>a DEF FileCovers, Inv, TypeOK, CfgStoreAssumption, ToUnprov
<1>3. NodesKnown'
  BY <1>a DEF NodesKnown, Inv, TypeOK, AtHome, Provisioned, CfgStoreAssumption, ToUnprov
<1>4. AtHome'
  BY <1>a DEF AtHome, Inv, TypeOK, Provisioned, Steps, CfgStoreAssumption, ToUnprov,
     Goto
<1>5. DoneOk'
  BY <1>a DEF DoneOk, Inv, TypeOK, AtHome, NodesKnown, Provisioned, CfgStoreAssumption,
     ToUnprov
<1>6. Known'
  BY <1>a DEF Known, Inv, TypeOK, CfgStoreAssumption, clock, ToUnprov
<1>7. MemoryFollows'
  BY <1>a DEF MemoryFollows, Inv, TypeOK, AtHome, Reloads, LoadSteps, Moves, NodesKnown,
     FileCovers, Provisioned, Unprovisioned, CfgStoreAssumption, ToUnprov, Goto
<1>8. BacklogFollows'
  BY <1>a DEF BacklogFollows, Inv, TypeOK, Recorded, CfgStoreAssumption, trees, clock,
     ToUnprov, Goto
<1> QED BY <1>1, <1>2, <1>3, <1>4, <1>5, <1>6, <1>7, <1>8 DEF Inv

\* RmallNodes keeps the invariant.
LEMMA FlagAllRmallInv ==
  ASSUME CfgStoreAssumption, Inv, FlagAll, step = "flag"
  PROVE  Inv'
<1>a. root \in [Devs -> Entry] /\ step' = "load sync" /\ at' = at
  BY DEF Inv, TypeOK, FlagAll, Goto
<1>b. root' = RmallNodes(root) /\ file' = root' /\ UNCHANGED <<trees, up, sync>>
  BY DEF FlagAll, Write, Flush
<1>c. AllFlagged(root, root')
  BY <1>a, <1>b, RmallNodesFields
<1>1. TypeOK'
  BY <1>a, <1>b, <1>c DEF TypeOK, Inv, Steps, AtHome, CfgStoreAssumption, trees, clock,
     AllFlagged, FlagAll, Write, Flush
<1>2. FileCovers'
  BY <1>a, <1>b, <1>c DEF FileCovers, Inv, TypeOK
<1>3. NodesKnown'
  BY <1>a, <1>b, <1>c DEF NodesKnown, Inv, TypeOK, AtHome, Provisioned,
     CfgStoreAssumption, trees, clock, AllFlagged
<1>4. AtHome'
  BY <1>a, <1>b, <1>c DEF AtHome, Inv, TypeOK, Provisioned, Steps
<1>5. DoneOk'
  BY <1>a, <1>b, <1>c DEF DoneOk, Inv, TypeOK, AtHome, NodesKnown, Provisioned, clock,
     AllFlagged
<1>6. Known'
  BY <1>a, <1>b, <1>c DEF Known, Inv, TypeOK
<1>7. MemoryFollows'
  BY <1>a, <1>b, <1>c DEF MemoryFollows, Inv, TypeOK, AtHome, Reloads,
     LoadSteps, Moves, NodesKnown, FileCovers, Provisioned, Unprovisioned
<1>8. BacklogFollows'
  BY <1>a, <1>b, <1>c DEF BacklogFollows, Inv, TypeOK, Recorded, CfgStoreAssumption,
     trees, clock, AllFlagged
<1> QED BY <1>1, <1>2, <1>3, <1>4, <1>5, <1>6, <1>7, <1>8 DEF Inv

\* RmblClr keeps the invariant.
LEMMA FlagAllRmblclrInv ==
  ASSUME CfgStoreAssumption, Inv, FlagAll, step = "unflag"
  PROVE  Inv'
<1>a. root \in [Devs -> Entry] /\ step' = "load" /\ at' = at
  BY DEF Inv, TypeOK, FlagAll, Goto
<1>b. root' = RmblClr(root) /\ file' = root' /\ UNCHANGED <<trees, up, sync>>
  BY DEF FlagAll, Write, Flush
<1>c. FlagsCleared(root, root')
  BY <1>a, <1>b, RmblClrFields
<1>1. TypeOK'
  BY <1>a, <1>b, <1>c DEF TypeOK, Inv, Steps, AtHome, CfgStoreAssumption, trees, clock,
     FlagsCleared, FlagAll, Write, Flush
<1>2. FileCovers'
  BY <1>a, <1>b, <1>c DEF FileCovers, Inv, TypeOK
<1>3. NodesKnown'
  BY <1>a, <1>b, <1>c DEF NodesKnown, Inv, TypeOK, AtHome, Provisioned,
     CfgStoreAssumption, trees, clock, FlagsCleared
<1>4. AtHome'
  BY <1>a, <1>b, <1>c DEF AtHome, Inv, TypeOK, Provisioned, Steps
<1>5. DoneOk'
  BY <1>a, <1>b, <1>c DEF DoneOk, Inv, TypeOK, AtHome, NodesKnown, Provisioned, clock,
     FlagsCleared
<1>6. Known'
  BY <1>a, <1>b, <1>c DEF Known, Inv, TypeOK
<1>7. MemoryFollows'
  BY <1>a, <1>b, <1>c DEF MemoryFollows, Inv, TypeOK, AtHome, Reloads,
     LoadSteps, Moves, NodesKnown, FileCovers, Provisioned, Unprovisioned
<1>8. BacklogFollows'
  BY <1>a, <1>b, <1>c DEF BacklogFollows, Inv, TypeOK, Recorded, CfgStoreAssumption,
     trees, clock, FlagsCleared
<1> QED BY <1>1, <1>2, <1>3, <1>4, <1>5, <1>6, <1>7, <1>8 DEF Inv

\* A factory reset clears the document, which is read again first if it was modified;
\* the trees follow with the load of the next step.
LEMMA ClearAllInv ==
  ASSUME CfgStoreAssumption, Inv, ClearAll
  PROVE  Inv'
<1> DEFINE g == IF newer THEN file ELSE root
<1>a. g \in [Devs -> Entry] /\ step' = "clear load" /\ at' = at /\ up /\ up' = up
  BY DEF Inv, TypeOK, AtHome, ClearAll, Goto
<1>b. root' = NodesClrctl(g) /\ file' = root' /\ sync' = sync
  BY DEF ClearAll, Write, Flush
<1>c. AllCleared(g, root')
  BY <1>a, <1>b, NodesClrctlFields
<1>d. \A d \in Devs : /\ root[d].node => root'[d].node
                      /\ file[d].node /\ newer => root'[d].node
                      /\ root[d].back => root'[d].back \/ root'[d].node
                      /\ ~root'[d].done
  BY <1>c DEF AllCleared, Inv, FileCovers
<1>1. TypeOK'
  <2>1. root' \in [Devs -> Entry] /\ file' \in [Devs -> Entry]
    BY <1>b, <1>c DEF AllCleared
  <2>2. later' \in BOOLEAN /\ newer' \in BOOLEAN /\ blind' \in BOOLEAN
    BY DEF ClearAll, Write, Flush
  <2>3. CASE newer
    <3>1. /\ unprov' = unprov \cup Unprovisioned(file)
          /\ nodes' = nodes \cup Provisioned(file)
          /\ backlog' = backlog \cup Recorded(file)
          /\ marked' \subseteq Devs /\ configured' \subseteq Devs
      BY <2>3 DEF ClearAll, LoadTrees
    <3>2. unprov' \cup nodes' \subseteq {d \in Devs : root'[d].node}
      BY <1>d, <2>3, <3>1 DEF Inv, TypeOK, Unprovisioned, Provisioned
    <3>3. backlog' \subseteq {d \in Devs : root'[d].node \/ root'[d].back}
      BY <1>c, <1>d, <2>3, <3>1 DEF Inv, TypeOK, Recorded, AllCleared
    <3> QED BY <1>a, <1>b, <2>1, <2>2, <3>1, <3>2, <3>3 DEF TypeOK, Inv, Steps
  <2>4. CASE ~newer
    BY <1>a, <1>b, <1>d, <2>1, <2>2, <2>4 DEF TypeOK, Inv, Steps, trees, ClearAll
  <2> QED BY <2>3, <2>4
<1>2. FileCovers'
  BY <1>b DEF FileCovers
<1>3. NodesKnown' /\ AtHome' /\ Known'
  BY <1>a, <1>b DEF NodesKnown, AtHome, Known
<1>4. DoneOk'
  BY <1>b, <1>d DEF DoneOk
<1>5. MemoryFollows'
  BY <1>a DEF MemoryFollows, Reloads, LoadSteps
<1>6. BacklogFollows'
  <2>1. CASE newer
    BY <1>c, <2>1 DEF BacklogFollows, Recorded, AllCleared, ClearAll, LoadTrees
  <2>2. CASE ~newer
    <3>1. Recorded(root) \ Bare \subseteq backlog
      BY <1>a DEF Inv, BacklogFollows, ClearAll
    <3> QED BY <1>c, <2>2, <3>1 DEF BacklogFollows, Recorded, AllCleared, ClearAll, trees
  <2> QED BY <2>1, <2>2
<1> QED BY <1>1, <1>2, <1>3, <1>4, <1>5, <1>6 DEF Inv

\* The end of the process leaves the file as it is.
LEMMA EndInv ==
  ASSUME CfgStoreAssumption, Inv, End
  PROVE  Inv'
<1>1. TypeOK'
  BY DEF TypeOK, Inv, Steps, AtHome, CfgStoreAssumption, trees, clock, End, Entry
<1>2. FileCovers'
  BY DEF FileCovers, Inv, TypeOK, End
<1>3. NodesKnown'
  BY DEF NodesKnown, Inv, TypeOK, AtHome, Provisioned, End
<1>4. AtHome'
  BY DEF AtHome, Inv, TypeOK, Provisioned, Steps, End
<1>5. DoneOk'
  BY DEF DoneOk, Inv, TypeOK, AtHome, NodesKnown, Provisioned, End
<1>6. Known'
  BY DEF Known, Inv, TypeOK, End
<1>7. MemoryFollows'
  BY DEF MemoryFollows, Inv, TypeOK, AtHome, Reloads, LoadSteps, Moves, NodesKnown,
     FileCovers, Provisioned, Unprovisioned, End
<1>8. BacklogFollows'
  BY DEF BacklogFollows, Inv, TypeOK, Recorded, CfgStoreAssumption, trees, clock, End
<1> QED BY <1>1, <1>2, <1>3, <1>4, <1>5, <1>6, <1>7, <1>8 DEF Inv

\* After a forced load memory is what the file says.
LEMMA LoadInv ==
  ASSUME CfgStoreAssumption, Inv, Load({}, {}),
         step \in LoadSteps, step' = AfterLoad(step), at' = None,
         UNCHANGED <<up, sync>>
  PROVE  Inv'
<1> USE DEF LoadTrees
<1>s. step' \in {"boot", "sync", "idle"} /\ (up \/ step' = "idle")
  BY DEF Inv, AtHome, LoadSteps, AfterLoad
<1>a. root' = file /\ file' = file /\ file \in [Devs -> Entry]
  BY DEF Load, Flush, Inv, TypeOK
<1>1. TypeOK'
  BY <1>a, <1>s DEF TypeOK, Inv, Steps, AtHome, CfgStoreAssumption, trees, clock, Load, Flush,
     Provisioned, Unprovisioned, Recorded, FileCovers
<1>2. FileCovers'
  BY <1>a, <1>s DEF FileCovers, Inv, TypeOK
<1>3. NodesKnown'
  BY <1>a, <1>s DEF NodesKnown, Inv, TypeOK, AtHome, Provisioned, CfgStoreAssumption, trees, clock, Load
<1>4. AtHome'
  BY <1>a, <1>s DEF AtHome, Inv, TypeOK, Provisioned, Steps
<1>5. DoneOk'
  BY <1>a, <1>s DEF DoneOk, Inv, TypeOK, AtHome, NodesKnown, Provisioned
<1>6. Known'
  BY <1>a, <1>s DEF Known, Inv, TypeOK
<1>7. MemoryFollows'
  BY <1>a, <1>s DEF MemoryFollows, Inv, TypeOK, AtHome, Reloads, LoadSteps, Moves, NodesKnown,
     FileCovers, Provisioned, Unprovisioned, CfgStoreAssumption, trees, clock, Load
<1>8. BacklogFollows'
  BY <1>a, <1>s DEF BacklogFollows, Inv, TypeOK, Recorded, CfgStoreAssumption, trees, clock,
     Load, FileCovers
<1> QED BY <1>1, <1>2, <1>3, <1>4, <1>5, <1>6, <1>7, <1>8 DEF Inv

\* Emptying the trees and loading them again keeps the invariant, and so does the end
\* of the process when a device is in two trees.
LEMMA ForcedLoadInv ==
  ASSUME CfgStoreAssumption, Inv, ForcedLoad
  PROVE  Inv'
<1>1. CASE nodes \cap unprov # {}
  BY <1>1, EndInv DEF ForcedLoad
<1>2. CASE nodes \cap unprov = {}
  BY <1>2, LoadInv DEF ForcedLoad
<1> QED BY <1>1, <1>2

\* A reload without emptying the trees finds every device where its address says.
LEMMA ReloadInv ==
  ASSUME CfgStoreAssumption, Inv, SyncLoad, newer
  PROVE  Inv'
<1> USE DEF LoadTrees
<1>a. root' = file /\ file' = file /\ file \in [Devs -> Entry]
  BY DEF SyncLoad, Load, Flush, Inv, TypeOK
<1>b. unprov' = unprov \cup Unprovisioned(file) /\ nodes' = nodes \cup Provisioned(file)
  BY DEF SyncLoad, Load
<1>1. TypeOK'
  BY <1>a, <1>b DEF TypeOK, Inv, Steps, AtHome, CfgStoreAssumption, trees, clock,
     SyncLoad, Load, Finish, Flush, Provisioned, Unprovisioned, Recorded, FileCovers
<1>2. FileCovers'
  BY <1>a, <1>b DEF FileCovers, Inv, TypeOK, CfgStoreAssumption, trees
<1>3. NodesKnown'
  BY <1>a, <1>b DEF NodesKnown, Inv, TypeOK, AtHome, Provisioned, CfgStoreAssumption,
     trees, clock, SyncLoad, FileCovers
<1>4. AtHome'
  BY <1>a, <1>b DEF AtHome, Inv, TypeOK, Provisioned, Steps, CfgStoreAssumption, trees,
     SyncLoad, Finish
<1>5. DoneOk'
  BY <1>a, <1>b DEF DoneOk, Inv, TypeOK, AtHome, NodesKnown, Provisioned,
     CfgStoreAssumption, trees
<1>6. Known'
  BY <1>a, <1>b DEF Known, Inv, TypeOK, CfgStoreAssumption, trees
<1>7. MemoryFollows'
  BY <1>a, <1>b DEF MemoryFollows, Inv, TypeOK, AtHome, Reloads, LoadSteps, Moves, NodesKnown,
     FileCovers, Provisioned, Unprovisioned, CfgStoreAssumption, trees, SyncLoad, Load,
     Finish
<1>8. BacklogFollows'
  BY <1>a, <1>b DEF BacklogFollows, Inv, TypeOK, Recorded, CfgStoreAssumption, trees, clock, SyncLoad, Load, Finish, FileCovers
<1> QED BY <1>1, <1>2, <1>3, <1>4, <1>5, <1>6, <1>7, <1>8 DEF Inv

\* Without a change there is nothing to load.
LEMMA SyncWithoutLoadInv ==
  ASSUME CfgStoreAssumption, Inv, SyncLoad, ~newer
  PROVE  Inv'
<1>1. TypeOK'
  BY DEF TypeOK, Inv, Steps, AtHome, CfgStoreAssumption, trees, clock, SyncLoad, Finish
<1>2. FileCovers'
  BY DEF FileCovers, Inv, TypeOK, CfgStoreAssumption, SyncLoad
<1>3. NodesKnown'
  BY DEF NodesKnown, Inv, TypeOK, AtHome, Provisioned, CfgStoreAssumption, trees,
     SyncLoad
<1>4. AtHome'
  BY DEF AtHome, Inv, TypeOK, Provisioned, Steps, CfgStoreAssumption, SyncLoad, Finish
<1>5. DoneOk'
  BY DEF DoneOk, Inv, TypeOK, AtHome, NodesKnown, Provisioned, CfgStoreAssumption,
     SyncLoad
<1>6. Known'
  BY DEF Known, Inv, TypeOK, CfgStoreAssumption, clock, SyncLoad
<1>7. MemoryFollows'
  BY DEF MemoryFollows, Inv, TypeOK, AtHome, Reloads, LoadSteps, Moves, NodesKnown,
     FileCovers,
     Provisioned, Unprovisioned, CfgStoreAssumption, trees, SyncLoad, Finish
<1>8. BacklogFollows'
  BY DEF BacklogFollows, Inv, TypeOK, Recorded, CfgStoreAssumption, trees, clock,
     SyncLoad, Finish
<1> QED BY <1>1, <1>2, <1>3, <1>4, <1>5, <1>6, <1>7, <1>8 DEF Inv

\* The end of a synchronization, and steps that change nothing, keep the invariant.
LEMMA StutterInv ==
  ASSUME CfgStoreAssumption, Inv, step' = step /\ at' = at,
         UNCHANGED <<file, root, trees, up, later>>,
         newer' = newer /\ blind' = blind, sync' \in BOOLEAN
  PROVE  Inv'
<1>1. TypeOK'
  BY DEF TypeOK, Inv, Steps, CfgStoreAssumption, trees, clock
<1>2. FileCovers'
  BY DEF FileCovers, Inv, clock
<1>3. NodesKnown'
  BY DEF NodesKnown, Inv, TypeOK, AtHome, CfgStoreAssumption, trees, clock
<1>4. AtHome'
  BY DEF AtHome, Inv, TypeOK, Provisioned, CfgStoreAssumption, trees, clock
<1>5. DoneOk'
  BY DEF DoneOk, Inv, TypeOK, AtHome, NodesKnown, clock
<1>6. Known'
  BY DEF Known, Inv, clock
<1>7. MemoryFollows'
  BY DEF MemoryFollows, Inv, TypeOK, AtHome, Reloads, LoadSteps, Moves, NodesKnown,
     FileCovers,
     Provisioned, Unprovisioned, CfgStoreAssumption, trees, clock
<1>8. BacklogFollows'
  BY DEF BacklogFollows, Inv, TypeOK, Recorded, CfgStoreAssumption, trees, clock
<1> QED BY <1>1, <1>2, <1>3, <1>4, <1>5, <1>6, <1>7, <1>8 DEF Inv

\* An operation that begins with the right device keeps the invariant.
LEMMA BegunInv ==
  ASSUME CfgStoreAssumption, Inv, Unchanged, Idle,
         step' \in {"addr on", "rm done", "bl tree", "done", "sync", "flag", "unflag"},
         at' \in Devs \cup {None}, AtHome'
  PROVE  Inv'
<1>1. TypeOK'
  BY DEF TypeOK, Inv, Steps, AtHome, CfgStoreAssumption, trees, clock, Unchanged
<1>2. FileCovers'
  BY DEF FileCovers, Inv, TypeOK, CfgStoreAssumption, Unchanged
<1>3. NodesKnown'
  BY DEF NodesKnown, Inv, TypeOK, AtHome, Provisioned, CfgStoreAssumption, trees,
     Unchanged, Idle
<1>4. AtHome'
  BY DEF AtHome, Inv, TypeOK, Provisioned, Steps, CfgStoreAssumption
<1>5. DoneOk'
  BY DEF DoneOk, Inv, TypeOK, AtHome, NodesKnown, Provisioned, CfgStoreAssumption,
     Unchanged
<1>6. Known'
  BY DEF Known, Inv, TypeOK, CfgStoreAssumption, clock, Unchanged, Idle
<1>7. MemoryFollows'
  BY DEF MemoryFollows, Inv, TypeOK, AtHome, Reloads, LoadSteps, Moves, NodesKnown,
     FileCovers,
     Provisioned, Unprovisioned, CfgStoreAssumption, trees, Unchanged, Idle
<1>8. BacklogFollows'
  BY DEF BacklogFollows, Inv, TypeOK, Recorded, CfgStoreAssumption, trees, clock,
     Unchanged, Idle
<1> QED BY <1>1, <1>2, <1>3, <1>4, <1>5, <1>6, <1>7, <1>8 DEF Inv

\* A reset of the manager keeps the invariant wherever it was.
LEMMA ResetInv ==
  ASSUME CfgStoreAssumption, Inv, NEW factory \in BOOLEAN, Reset(factory)
  PROVE  Inv'
<1>1. TypeOK'
  BY DEF TypeOK, Inv, Steps, AtHome, CfgStoreAssumption, trees, clock, Reset, Begin
<1>2. FileCovers'
  BY DEF FileCovers, Inv, TypeOK, CfgStoreAssumption, Reset
<1>3. NodesKnown'
  BY DEF NodesKnown, Inv, TypeOK, AtHome, Provisioned, CfgStoreAssumption, trees, Reset
<1>4. AtHome'
  BY DEF AtHome, Inv, TypeOK, Provisioned, Steps, CfgStoreAssumption, Reset, Begin
<1>5. DoneOk'
  BY DEF DoneOk, Inv, TypeOK, AtHome, NodesKnown, Provisioned, CfgStoreAssumption, Reset
<1>6. Known'
  BY DEF Known, Inv, TypeOK, CfgStoreAssumption, clock, Reset
<1>7. MemoryFollows'
  BY DEF MemoryFollows, Inv, TypeOK, AtHome, Reloads, LoadSteps, Moves, NodesKnown,
     FileCovers,
     Provisioned, Unprovisioned, CfgStoreAssumption, Reset, Begin
<1>8. BacklogFollows'
  BY DEF BacklogFollows, Inv, TypeOK, Recorded, CfgStoreAssumption, trees, clock, Reset,
     Begin
<1> QED BY <1>1, <1>2, <1>3, <1>4, <1>5, <1>6, <1>7, <1>8 DEF Inv

\* A start keeps the invariant.
LEMMA BootInv ==
  ASSUME CfgStoreAssumption, Inv, Start
  PROVE  Inv'
<1>1. TypeOK'
  BY DEF TypeOK, Inv, Steps, AtHome, CfgStoreAssumption, trees, clock, Start, Begin
<1>2. FileCovers'
  BY DEF FileCovers, Inv, TypeOK, CfgStoreAssumption, Start
<1>3. NodesKnown'
  BY DEF NodesKnown, Inv, TypeOK, AtHome, Provisioned, CfgStoreAssumption, trees, Start,
     Begin
<1>4. AtHome'
  BY DEF AtHome, Inv, TypeOK, Provisioned, Steps, CfgStoreAssumption, Start, Begin
<1>5. DoneOk'
  BY DEF DoneOk, Inv, TypeOK, AtHome, NodesKnown, Provisioned, CfgStoreAssumption, Start
<1>6. Known'
  BY DEF Known, Inv, TypeOK, CfgStoreAssumption, Start, Begin
<1>7. MemoryFollows'
  BY DEF MemoryFollows, Inv, TypeOK, AtHome, Reloads, LoadSteps, Moves, NodesKnown,
     FileCovers,
     Provisioned, Unprovisioned, CfgStoreAssumption, Start, Begin
<1>8. BacklogFollows'
  BY DEF BacklogFollows, Inv, TypeOK, Recorded, CfgStoreAssumption, trees, clock, Start,
     Begin
<1> QED BY <1>1, <1>2, <1>3, <1>4, <1>5, <1>6, <1>7, <1>8 DEF Inv

\* A recorded device gets its entry and its object in one step.
LEMMA RecordInv ==
  ASSUME CfgStoreAssumption, Inv, NEW d \in Devs, Record(d)
  PROVE  Inv'
<1>a. root \in [Devs -> Entry] /\ step = "idle"
  BY DEF Inv, TypeOK, Record, Idle
<1>b. root' = BacklogNodeAdd(root, d) /\ file' = root'
  BY DEF Record, Write, Flush
<1>c. BackSet(root, root', d)
  BY <1>a, <1>b, BacklogNodeAddFields
<1>1. TypeOK'
  BY <1>a, <1>b, <1>c DEF TypeOK, Inv, Steps, AtHome, CfgStoreAssumption, trees, clock,
     BackSet, Record, Write, Flush
<1>2. FileCovers'
  BY <1>a, <1>b, <1>c DEF FileCovers, Inv, TypeOK, CfgStoreAssumption
<1>3. NodesKnown'
  BY <1>a, <1>b, <1>c DEF NodesKnown, Inv, TypeOK, AtHome, Provisioned,
     CfgStoreAssumption, trees, clock, BackSet, Record
<1>4. AtHome'
  BY <1>a, <1>b, <1>c DEF AtHome, Inv, TypeOK, Provisioned, Steps, CfgStoreAssumption,
     Record
<1>5. DoneOk'
  BY <1>a, <1>b, <1>c DEF DoneOk, Inv, TypeOK, AtHome, NodesKnown, Provisioned,
     CfgStoreAssumption, BackSet
<1>6. Known'
  BY <1>a, <1>b, <1>c DEF Known, Inv, TypeOK, CfgStoreAssumption, trees, clock
<1>7. MemoryFollows'
  BY <1>a, <1>b, <1>c DEF MemoryFollows, Inv, TypeOK, AtHome, Reloads,
     LoadSteps, Moves, NodesKnown, FileCovers, Provisioned, Unprovisioned,
     CfgStoreAssumption, trees, clock, BackSet, Record
<1>8. BacklogFollows'
  BY <1>a, <1>b, <1>c DEF BacklogFollows, Inv, TypeOK, Recorded, CfgStoreAssumption,
     trees, clock, BackSet, Record
<1> QED BY <1>1, <1>2, <1>3, <1>4, <1>5, <1>6, <1>7, <1>8 DEF Inv

\* EditMove keeps the invariant.
LEMMA EditMoveInv ==
  ASSUME CfgStoreAssumption, Inv, NEW d \in Devs, EditMove(d)
  PROVE  Inv'
<1>a. file \in [Devs -> Entry] /\ root' = root
  BY DEF Inv, TypeOK, EditMove, Save
<1>b. file' = Moved(file, d)
  BY DEF EditMove, Save
<1>c. EntryMoved(file, file', d)
  BY <1>a, <1>b, MovedFields
<1>1. TypeOK'
  BY <1>a, <1>b, <1>c DEF TypeOK, Inv, Steps, AtHome, CfgStoreAssumption, trees, clock,
     EntryMoved, Save, EditMove
<1>2. FileCovers'
  BY <1>a, <1>b, <1>c DEF FileCovers, Inv, TypeOK, CfgStoreAssumption, trees, EntryMoved
<1>3. NodesKnown'
  BY <1>a, <1>b, <1>c DEF NodesKnown, Inv, TypeOK, AtHome, Provisioned,
     CfgStoreAssumption, trees, Save, EditMove
<1>4. AtHome'
  BY <1>a, <1>b, <1>c DEF AtHome, Inv, TypeOK, Provisioned, Steps, CfgStoreAssumption,
     trees, Save, EditMove
<1>5. DoneOk'
  BY <1>a, <1>b, <1>c DEF DoneOk, Inv, TypeOK, AtHome, NodesKnown, Provisioned,
     CfgStoreAssumption, trees, EntryMoved
<1>6. Known'
  BY <1>a, <1>b, <1>c DEF Known, Inv, TypeOK, CfgStoreAssumption, trees, Save, EditMove
<1>7. MemoryFollows'
  BY <1>a, <1>b, <1>c DEF MemoryFollows, Inv, TypeOK, AtHome, Reloads,
     LoadSteps, Moves, NodesKnown, FileCovers, Provisioned, Unprovisioned,
     CfgStoreAssumption, trees, Save, EditMove
<1>8. BacklogFollows'
  BY <1>a, <1>b, <1>c DEF BacklogFollows, Inv, TypeOK, Recorded, CfgStoreAssumption,
     trees, clock, EntryMoved, Save, EditMove
<1> QED BY <1>1, <1>2, <1>3, <1>4, <1>5, <1>6, <1>7, <1>8 DEF Inv

\* EditFlag keeps the invariant.
LEMMA EditFlagInv ==
  ASSUME CfgStoreAssumption, Inv, NEW d \in Devs, EditFlag(d)
  PROVE  Inv'
<1>a. file \in [Devs -> Entry] /\ root' = root
  BY DEF Inv, TypeOK, EditFlag, Save
<1>b. file' = Flagged(file, d, ~file[d].flag)
  BY DEF EditFlag, Save
<1>c. FlagSet(file, file', d, ~file[d].flag)
  BY <1>a, <1>b, FlaggedFields DEF Entry
<1>1. TypeOK'
  BY <1>a, <1>b, <1>c DEF TypeOK, Inv, Steps, AtHome, CfgStoreAssumption, trees, clock,
     FlagSet, Save, EditFlag
<1>2. FileCovers'
  BY <1>a, <1>b, <1>c DEF FileCovers, Inv, TypeOK, CfgStoreAssumption, trees, FlagSet
<1>3. NodesKnown'
  BY <1>a, <1>b, <1>c DEF NodesKnown, Inv, TypeOK, AtHome, Provisioned,
     CfgStoreAssumption, trees, Save, EditFlag
<1>4. AtHome'
  BY <1>a, <1>b, <1>c DEF AtHome, Inv, TypeOK, Provisioned, Steps, CfgStoreAssumption,
     trees, Save, EditFlag
<1>5. DoneOk'
  BY <1>a, <1>b, <1>c DEF DoneOk, Inv, TypeOK, AtHome, NodesKnown, Provisioned,
     CfgStoreAssumption, trees, FlagSet
<1>6. Known'
  BY <1>a, <1>b, <1>c DEF Known, Inv, TypeOK, CfgStoreAssumption, trees, Save, EditFlag
<1>7. MemoryFollows'
  BY <1>a, <1>b, <1>c DEF MemoryFollows, Inv, TypeOK, AtHome, Reloads,
     LoadSteps, Moves, NodesKnown, FileCovers, Provisioned, Unprovisioned,
     CfgStoreAssumption, trees, Save, EditFlag
<1>8. BacklogFollows'
  BY <1>a, <1>b, <1>c DEF BacklogFollows, Inv, TypeOK, Recorded, CfgStoreAssumption,
     trees, clock, FlagSet, Save, EditFlag
<1> QED BY <1>1, <1>2, <1>3, <1>4, <1>5, <1>6, <1>7, <1>8 DEF Inv

\* EditDone keeps the invariant.
LEMMA EditDoneInv ==
  ASSUME CfgStoreAssumption, Inv, NEW d \in Devs, EditDone(d)
  PROVE  Inv'
<1>a. file \in [Devs -> Entry] /\ root' = root
  BY DEF Inv, TypeOK, EditDone, Save
<1>b. file' = SetNodeDone(file, d, FALSE)
  BY DEF EditDone, Save
<1>c. DoneSet(file, file', d, FALSE)
  BY <1>a, <1>b, SetNodeDoneFields
<1>1. TypeOK'
  BY <1>a, <1>b, <1>c DEF TypeOK, Inv, Steps, AtHome, CfgStoreAssumption, trees, clock,
     DoneSet, Save, EditDone
<1>2. FileCovers'
  BY <1>a, <1>b, <1>c DEF FileCovers, Inv, TypeOK, CfgStoreAssumption, trees, DoneSet
<1>3. NodesKnown'
  BY <1>a, <1>b, <1>c DEF NodesKnown, Inv, TypeOK, AtHome, Provisioned,
     CfgStoreAssumption, trees, Save, EditDone
<1>4. AtHome'
  BY <1>a, <1>b, <1>c DEF AtHome, Inv, TypeOK, Provisioned, Steps, CfgStoreAssumption,
     trees, Save, EditDone
<1>5. DoneOk'
  BY <1>a, <1>b, <1>c DEF DoneOk, Inv, TypeOK, AtHome, NodesKnown, Provisioned,
     CfgStoreAssumption, trees, DoneSet
<1>6. Known'
  BY <1>a, <1>b, <1>c DEF Known, Inv, TypeOK, CfgStoreAssumption, trees, Save, EditDone
<1>7. MemoryFollows'
  BY <1>a, <1>b, <1>c DEF MemoryFollows, Inv, TypeOK, AtHome, Reloads,
     LoadSteps, Moves, NodesKnown, FileCovers, Provisioned, Unprovisioned,
     CfgStoreAssumption, trees, Save, EditDone
<1>8. BacklogFollows'
  BY <1>a, <1>b, <1>c DEF BacklogFollows, Inv, TypeOK, Recorded, CfgStoreAssumption,
     trees, clock, DoneSet, Save, EditDone
<1> QED BY <1>1, <1>2, <1>3, <1>4, <1>5, <1>6, <1>7, <1>8 DEF Inv

\* The clock keeps the invariant.
LEMMA TickInv ==
  ASSUME CfgStoreAssumption, Inv, Tick
  PROVE  Inv'
<1>1. TypeOK'
  BY DEF TypeOK, Inv, Steps, AtHome, CfgStoreAssumption, trees, clock, Tick
<1>2. FileCovers'
  BY DEF FileCovers, Inv, TypeOK, clock, Tick
<1>3. NodesKnown'
  BY DEF NodesKnown, Inv, TypeOK, AtHome, Provisioned, CfgStoreAssumption, trees, clock,
     Tick
<1>4. AtHome'
  BY DEF AtHome, Inv, TypeOK, Provisioned, Steps, CfgStoreAssumption, trees, clock, Tick
<1>5. DoneOk'
  BY DEF DoneOk, Inv, TypeOK, AtHome, NodesKnown, Provisioned, clock, Tick
<1>6. Known'
  BY DEF Known, Inv, TypeOK, clock, Tick
<1>7. MemoryFollows'
  BY DEF MemoryFollows, Inv, TypeOK, AtHome, Reloads, LoadSteps, Moves, NodesKnown,
     FileCovers,
     Provisioned, Unprovisioned, CfgStoreAssumption, trees, clock, Tick
<1>8. BacklogFollows'
  BY DEF BacklogFollows, Inv, TypeOK, Recorded, CfgStoreAssumption, trees, clock, Tick
<1> QED BY <1>1, <1>2, <1>3, <1>4, <1>5, <1>6, <1>7, <1>8 DEF Inv

-----------------------------------------------------------------------------
(* The theorems *)

\* An empty file, and nothing in memory.
LEMMA InitInv ==
  ASSUME CfgStoreAssumption, Init
  PROVE  Inv
<1>1. TypeOK
  BY DEF Init, TypeOK, Entry, Steps
<1>2. FileCovers /\ NodesKnown /\ AtHome /\ DoneOk
  BY DEF Init, FileCovers, NodesKnown, AtHome, DoneOk
<1>3. Known /\ MemoryFollows /\ BacklogFollows
  BY DEF Init, Known, MemoryFollows, BacklogFollows
<1> QED BY <1>1, <1>2, <1>3 DEF Inv

\* An operation takes up its device where AtHome says, as the trees are disjoint.
LEMMA OperationsInv ==
  ASSUME CfgStoreAssumption, Inv, Operations
  PROVE  Inv'
<1>1. ASSUME NEW d \in Devs, AddressSet(d) PROVE Inv'
  <2>1. AtHome'
    BY <1>1 DEF AtHome, Idle, AddressSet, Begin, Unchanged, trees, clock
  <2> QED BY <1>1, <2>1, BegunInv DEF AddressSet, Begin
<1>2. ASSUME NEW d \in Devs, NodeRemoved(d) PROVE Inv'
  <2>1. AtHome'
    BY <1>2 DEF AtHome, Idle, NodeRemoved, Begin, Unchanged, trees, clock
  <2> QED BY <1>2, <2>1, BegunInv DEF NodeRemoved, Begin
<1>3. ASSUME NEW d \in Devs, NodeBlacklisted(d) PROVE Inv'
  <2>1. AtHome'
    BY <1>3 DEF AtHome, Idle, NodeBlacklisted, Begin, Unchanged, trees, clock
  <2> QED BY <1>3, <2>1, BegunInv DEF NodeBlacklisted, Begin
<1>4. ASSUME NEW d \in Devs, NodeConfigured(d) PROVE Inv'
  <2>1. AtHome'
    BY <1>4 DEF AtHome, Idle, NodeConfigured, Begin, Unchanged, trees, clock
  <2> QED BY <1>4, <2>1, BegunInv DEF NodeConfigured, Begin
<1>5. CASE Sync \/ Rmall \/ Rmblclr
  <2>0. up' /\ step' \in {"sync", "flag", "unflag"}
    BY <1>5 DEF Idle, Sync, Rmall, Rmblclr, Begin, Unchanged
  <2>1. AtHome'
    BY <2>0 DEF AtHome
  <2> QED BY <1>5, <2>1, BegunInv DEF Sync, Rmall, Rmblclr, Begin
<1>6. CASE SyncDone
  BY <1>6, StutterInv DEF SyncDone, clock
<1>7. CASE Crash
  BY <1>7, EndInv DEF Crash
<1> QED BY <1>1, <1>2, <1>3, <1>4, <1>5, <1>6, <1>7, RecordInv, ResetInv, BootInv DEF
   Operations

\* Each step of an operation keeps the invariant.
LEMMA SteppingsInv ==
  ASSUME CfgStoreAssumption, Inv, Steppings
  PROVE  Inv'
<1>1. CASE FlagAll
  BY <1>1, FlagAllRmallInv, FlagAllRmblclrInv DEF FlagAll
<1>2. CASE SyncLoad
  <2>1. CASE newer
    BY <1>2, <2>1, ReloadInv
  <2>2. CASE ~newer
    BY <1>2, <2>2, SyncWithoutLoadInv
  <2> QED BY <2>1, <2>2
<1> QED
  BY <1>1, <1>2, AddrOnInv, ToNodesInv, RmDoneInv, ToUnprovInv, AddrOffInv, DoneInv,
     ClearAllInv, ForcedLoadInv DEF Steppings

\* The invariant is inductive.
LEMMA NextInv ==
  ASSUME CfgStoreAssumption, Inv, [Next]_vars
  PROVE  Inv'
<1>1. CASE UNCHANGED vars
  <2>1. sync' \in BOOLEAN
    BY <1>1 DEF Inv, TypeOK, vars
  <2> QED BY <1>1, <2>1, StutterInv DEF vars, trees, clock
<1>2. CASE User
  BY <1>2, TickInv, EditMoveInv, EditFlagInv, EditDoneInv DEF User
<1> QED BY <1>1, <1>2, SteppingsInv, OperationsInv DEF Next

\* The invariant holds for any devices.
LEMMA Invariance == Spec => []Inv
<1>1. Init => Inv
  BY InitInv, CfgStoreAssumption
<1>2. Inv /\ [Next]_vars => Inv'
  BY NextInv, CfgStoreAssumption
<1> QED BY <1>1, <1>2, PTL DEF Spec

\* The types of the store, and that an object in memory has an entry in the document:
\* modify_node_field finds the entry of every node that the manager works on.
THEOREM TypeCorrect == Spec => []TypeOK
<1>1. Inv => TypeOK
  BY DEF Inv
<1> QED BY <1>1, Invariance, PTL

\* The address of a node in memory is in the file at every step of upl_nodeset_addr,
\* nodes_rm and nodes_bl, also while the user saves the file.
THEOREM AddressSaved == Spec => []AddressIsSaved
<1>1. Inv => AddressIsSaved
  BY DEF Inv, AddressIsSaved, NodesKnown, FileCovers, Provisioned
<1> QED BY <1>1, Invariance, PTL

\* No device without an address is marked as configured in the file, whenever the
\* process ends.
THEOREM DoneAddressed == Spec => []DoneHasAddress
<1>1. Inv => DoneHasAddress
  BY DEF Inv, DoneHasAddress, DoneOk
<1> QED BY <1>1, Invariance, PTL

\* What the user saved is found by the next sync, but for the second of a flush.
THEOREM ChangeKnown == Spec => []ChangedOutsideIsKnown
<1>1. Inv => ChangedOutsideIsKnown
  BY DEF Inv, ChangedOutsideIsKnown, Known, Idle
<1> QED BY <1>1, Invariance, PTL

\* Between operations memory is what a restart would load from the document,
\* wherever a reset cancelled the manager before.
THEOREM MemoryAgrees == Spec => []MemoryIsDocument
<1>1. ASSUME Inv, Idle PROVE MemoryIsDocument
  <2>1. ~Reloads /\ step # "boot" /\ \A d : ~Moves(d)
    BY <1>1 DEF Idle, Reloads, LoadSteps, Moves
  <2>2. nodes \ Bare = Provisioned(root) \ Bare /\ unprov \ Bare = Unprovisioned(root) \ Bare
    BY <1>1, <2>1 DEF Inv, Idle, TypeOK, MemoryFollows, Provisioned, Unprovisioned
  <2>3. Recorded(root) \ Bare \subseteq backlog
    BY <1>1, <2>1 DEF Inv, Idle, BacklogFollows
  <2>4. /\ marked = {d \in Devs : root[d].node /\ root[d].flag}
        /\ configured = {d \in Devs : root[d].node /\ root[d].done}
    BY <1>1, <2>1 DEF Inv, Idle, TypeOK, MemoryFollows
  <2> QED BY <2>2, <2>3, <2>4 DEF MemoryIsDocument
<1>2. Inv => MemoryIsDocument
  BY <1>1 DEF MemoryIsDocument
<1> QED BY <1>2, Invariance, PTL
=============================================================================
