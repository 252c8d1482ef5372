# A verification model of nwmng

nwmng is a network manager for Bluetooth mesh. It runs on a host, reads the
network it should build from JSON files (one for the network, one for templates)
and drives an NCP target, a radio chip with the mesh stack, until the network is
as the files describe it: it provisions devices, configures nodes, removes nodes
and blacklists nodes. This directory holds TLA+ modules that model the program's
core, TLC configurations that check them on small instances, and proofs that
TLAPS checks.

All references of the form `src/...` are to files of the repository.

## 1. The system

Two threads run. The console thread (`cli`) reads commands with readline and
appends them to a queue. The manager thread repeats one *round* for ever
(`src/mng/mng.c`, `mng`):

1. take a command from the queue and run it (`poll_cmd`);
2. drain the events of the NCP target (`bgevt_dispenser`), each offered in turn
   to the handlers `bl_hdr`, `dev_add_hdr`, `dev_config_hdr`, `model_hdr`...;
3. do the work of the current state (`mng_mainloop`);
4. choose the next state (`set_mng_state`).

So everything but the queue of commands is sequential on the host. What makes
the program hard is that each piece of work is spread over many rounds, between
which events, timers and commands of the user come in any order, and that
nothing in it ever waits: whatever is outstanding is remembered in flags.

Before that, `cli_proc` (`src/utils/startup.c`) runs the initialisations one
after the other, and `nwk_init` brings the network of the NCP target and the
provisioner's file together. A `reset` jumps back there from the console, cancels the
manager wherever it is, and starts over with what is in the files; a factory reset
(`reset 1`) clears files and NCP target first. The user edits the same network
configuration file with an editor while the program rewrites it.

| Component | Source | State | Operations | Correct when |
|---|---|---|---|---|
| Asynchronous configuration engine | `mng/dev_config.c`, `mng/states/*` | slots (`mng.cache.config`): node, state, next state, flags WAIT_RESPONSE / OOM / EVER_RETRIED, guard timer, iterators, error bits; lists config, rm, fail | load slots, pass over slots, status events, retries, guard timer, end and rmend | no assertion fires; a node is at one place, unless clrrb files it again; done means configured; no event is awaited in vain; every slot is given back |
| Items of the phases | `mng/states/as_*.c` | iterators over keys, elements, models, addresses, feature bits; composition data | guard, entry, inprg of each phase; iterators; parsing of the composition | the node is told exactly what its configuration says; iterators stay in range and end |
| Scheduler | `mng/mng.c` | state, order of actions, work lists | round, set_mng_state, sync, rmall, clrrb, seqset | the kinds of work exclude each other; a sync ends; Sync Done means done |
| Blacklisting | `mng/dev_bl.c` | list, offset, tail, phase of the remaining nodes | push till OOM, start of key refresh, its events, completion | only excluded nodes leave the database; the host's key is the network's; it ends |
| Adding | `mng/dev_add.c` | sessions, scan_need_recover, oom, free_mode | beacons, provisioning events, add_loop, scanning on and off | sessions in step with the NCP; database in step with it; scanning comes back and does not outlive its purpose |
| Removing | states rm and rmend | in the engine | in the engine | in the engine |
| Startup, network initialisation | `utils/startup.c`, `mng/nwk.c` | step of `cli_proc`; `done` of the keys and addresses in the files; network, keys and devices in the NCP target | start, reset, factory reset; create network and keys one by one | the files never claim what the NCP does not have, wherever a start is cut off; a factory reset gets out of every mismatch |
| Configuration store | `cfg/`, `cfg/parser/*` | the file, the JSON document, node trees, time of the last synchronization | open, reload, flush, modify; add, remove, blacklist a node, mark it done | memory, document and file agree between operations; a change of the user is noticed; a crash leaves nothing half done that matters |
| Command queue | `mng/mng.c` | linked list under a mutex | append, take | each command runs once, in order |
| Event dispenser | `mng/bgevt_hdr.c` | NCP boot state | drain, offer to the handlers | each event meets at most the handlers it is for |
| Lighting models, demo | `mng/models.c`, `mng/demo.c` | one request: function, value, lights left | accept or refuse, send to one light per round | a request is carried out for the lights in its list, whatever comes meanwhile, and ends |
| Statistics | `mng/stat.c` | counters, times | record | printed only |
| Console | `cli/` | line, command table | read, handle or queue, reset, quit | shares only the queue |
| Utilities | `utils/` | log buffer, options | print | printed only |
| HAL, NCP daemon, Bluetooth stack | vendored | serial port, sockets | transport | external |

Interactions: the scheduler loads the lists from the database, the workers take
nodes from them and write the outcome back to the database (address, done, err).
The engine hands its slots from adding to configuring to removing; blacklisting
requires them free. Adding feeds the list of configurations with each node that
it provisions. `sync 0` drops the lists under all of them, and `clrrb` has them loaded again with
new node objects in any state. The console reaches the
manager through the queue and through `reset`; the store is reached by the manager
alone, and by the user's editor.

## 2. The modules

| Module | Models | Abstracts |
|---|---|---|
| `Acc` | what the engine promises: each device at one place, handled by one kind of work, with one of its outcomes | slots, phases, requests, events |
| `AccEngine` | the engine with its slots, all phases, the scheduler as far as it drives the engine, the NCP target; implements `Acc` | what a phase sends: `Work[n][p]` requests |
| `AsItems` | what one slot sends, in which order | retries, timeouts, out-of-memory |
| `Mng` | the round and set_mng_state, the commands that change the lists, lists that stop early | the workers: a slot is taken and given back, blacklisting is busy and done |
| `DevBl` | blacklisting by key refresh | the rest of the scheduler |
| `DevAdd` | adding, scanning, free mode | all states but adding and the idle ones: "working" |
| `Startup` | cli_proc, nwk_init, reset and factory reset, with crashes | the work of the manager: a sync that adds and removes devices; key values, IV index |
| `CfgStore` | file, document and node trees, step by step, with crashes and the user's edits | what the configuration of a node consists of |
| `CmdFifo` | what the command queue promises | the list, its cells |
| `Console` | command queue, lighting requests, demonstration, both threads; implements `CmdFifo` | the other work of a round, the effect of the other commands |
| `MC*` | instances for TLC | |
| `AccEngineProofs`, `AsItemsProofs` | proofs about AccEngine and AsItems | |
| `StartupProofs`, `CfgStoreProofs` | proofs about Startup, CfgStore | |
| `MngProofs`, `DevBlProofs`, `DevAddProofs`, `ConsoleProofs` | proofs about Mng, DevBl, DevAdd, Console | |

Each operator carries the name of the C function it translates, in TLA+ spelling
(`iter_addsub` is `IterAddsub`), or names it in its comment. `PROJECT.json` lists
the source lines of each definition. Operators commented "Mutant" are plausible
mistakes in that code; replacing the original by one makes a named property fail,
which shows that the property says something about the code.

**AccEngine.** One record per slot (`config_cache_t`), with `timer` for the three
readings of `expired` (0, future, past), `it` for the iterators counted as one
number, and `err` for the bitmaps of `err_cache`. `pos` is where the main loop is:
0 while events are drained and commands are run, i while `config_engine` is at
slot i, past the last slot at `set_mng_state`. `Engine(i, r, q)` is one slot's turn:
the OOM retry, or the retry after the guard timer, or the change of state with the
guards and entry of the next phase; r and q are the replies of the NCP target to
the requests it sends. The events of the slots are `DcdEvent` and `StatusEvent`.
A request's fate is kept beside the slot in `answer` (none, composition data
to come, status to come, lost). A request whose slot has sent another one becomes
`stale`; its event would find no slot and end the process. `acked` is a history
variable. `RmBlClr` is clrrb: it may come whenever commands are run, slots in use or not,
files all nodes anew (`ListsLoad`) and makes new objects of them. If a slot is in use, its
object is freed, and `abort` is "freed": what the code does with it from then on is undefined, and
the behaviour ends.

**AsItems** has the composition parser with its `uint8_t` arithmetic, the nested
iterators, the guards of the phases, and the node's own record of what it was told.
Models are classes that the code tells apart. The code compares the number of a vendor
model with the lists of SIG models as well (`not_pub_models`, `not_sub_models`); "vsetup" and
"vtime" are vendor models with such a number. What a node's model can really do is
`CanPublish` and `CanSubscribe`.

**Mng.** `pc` is the step of the round. `SetMngState` keeps the structure of
`set_mng_state`: early returns (`Unfinished`), the shortcut from adding to
configuring, and the loop over the order (`NextOffs`). `Walked` is how far `load_lists`
comes: with the fault "ddb" a node that the NCP target does not have ends the walk over the
nodes (`mng.c:433`).

**DevBl.** `kr` is the key refresh at the NCP target from its start to the
handling of its completion event. Key identities alternate between 0 and 1, which
is enough to see the host fall behind.

**DevAdd.** `q` is the NCP's queue of events. The database of the NCP (`ddb`) and
the devices that hold the key (`member`) are separate, because the workaround for
reason 7 deletes from the first but leaves the second. `touched` is a history
variable: the user interfered in a way after which the outcome of a session may pass by.

**Acc** is the engine seen from the manager. `ImplementsAcc` in AccEngine gives the
mapping: `place` of a device is which slot kind or list it is in, `marked` is the
field `done`, and `lost` says that devices at work were filed anew (clrrb), after which `Acc`
has no step and promises nothing. A round in which the engine passes over many flags is a stutter;
`EndEntry`, for instance, is `Configured`, `Removed` or `Failed`, according to slot and
error bits.

**Startup.** `pc` is the statement of `cli_proc` and `nwk_init` that comes next;
each call that changes the file or the NCP target is a step of its own, since the
process may end between any two. `failed` and `forced` are history variables. What a
failed call does is `GiveUp`: `nwk_init` returns, the error is logged, the manager is
started all the same.

**CfgStore.** An operation (`upl_nodeset_addr`, `nodes_rm`, `nodes_bl`, ...) is a
sequence of steps, one for the trees and one for each field written, because the
console's reset and a crash come in between. `step` and `at` say what follows. A factory reset is two loads: `ClearAll` clears the
document and the file (and loads the trees first if the file is newer), `ForcedLoad` loads the
cleared file, and once more when the program starts over. `Flush`
takes the time before it writes, and file times and `synctime` have whole
seconds: `later` says that the second of the last flush is over, `newer` that the file
was modified after it. `Bare` are devices whose entry names no template, which
`G_HTB` looks for in the wrong tree.

**Console.** `Enq` and `Deq` work on cells of memory with a `next` pointer; a freed
cell is wiped, so that a pointer left to it shows. `Queue` walks the list and is what
`CmdFifo` speaks of; its `Spec` is the steps of a FIFO, `FairSpec` adds that commands are taken. `asked` and `sent` are history variables for one request.
`Targets` is the list of lights that a command is for, as `get_lights_addrs` makes it: that is not
what its comment says (section 4), and `asked` is about this list.

## 3. What is checked

| Run | Instance | Properties | Shows |
|---|---|---|---|
| `acc_engine` | 2 nodes, 1 slot, NCP answers in time but may refuse, run out of memory, time out; clrrb at any time | TypeOK, NoAbort, WaitMatchesNcp, OneErrorBit, EveryNodeEnds | no assertion, no event awaited in vain, slots come free |
| `acc_engine_faults` | 2 nodes, 2 slots, a low power node, lost events, "insufficient resources"; clrrb at any time | OnePlace, DoneMeansConfigured, ImplementsAcc | even when the process may abort, the lists and the database are never wrong before clrrb frees a node in a slot, and the engine does what `Acc` allows |
| `acc_engine_hang` | 1 node, lost events | EveryNodeEnds | *violated*: the second loss in a row is not covered |
| `mng` | 2 nodes, 8 orders, all commands, free mode, lists that stop early | TypeOK, WorkMatchesState, MarkedNotConfigured, SyncDoneMeansDone, SyncFinishesInOrder | the kinds of work exclude each other; a sync ends when its order removes before it blacklists, and only when the work that was filed is done |
| `mng_stuck` | 2 nodes, orders that blacklist first | SyncFinishes | *violated*: the wrong list is looked at |
| `dev_bl` | 3 nodes, pushes fail, key refresh does not start or fails, `sync 0` | TypeOK, KeyFollowsNcp, DoneNodesWerePushed, BlEnds | key and list stay right, also across a stopped sync |
| `dev_add` | 3 devices (one marked), a stranger, 2 sessions, all failures and commands | TypeOK, SessionsTracked, DbFollowsNcp | sessions and database in step with the NCP, the database until the user interferes (`touched`) |
| `dev_add_live` | 3 devices, 2 sessions, `sync 0`, OOM and failures | ScanRestored, ScanHasReason | scanning comes back, and goes; without freemode |
| `as_items` | 1 or 2 elements, vendor models, up to 3 keys, nodes that get full | TypeOK, ConfiguredAsAsked, SubsInOrder, Ends | nothing skipped, nothing twice |
| `startup` | 2 devices, 3 keys, room for 2, crashes and failures at every step | TypeOK, FileFollowsNcp, ConfiguredMeansReady, StuckOnlyOnMismatch, FactoryResetRecovers | what a start may rely on after any other was cut off |
| `cfg_store` | 2 devices, one without a template, all edits | TypeOK, MemoryIsDocument, AddressIsSaved, DoneHasAddress, ChangedOutsideIsKnown | file, document and trees through crashes, resets and edits |
| `console` | 7 commands, 2 that wait, 2 lights, one of them without CTL, OOM, resets | TypeOK, RequestServed, RefinesFifo, LightsEnd | the list is a FIFO with two threads and resets; requests do not mix, and end |

### Bounds

* Engine: two slots and two nodes are the least with which two slots compete for
  the lists and one event may find the wrong slot. One node has two items in a
  phase, so that retries happen on an item that is not the last; the other skips
  phases whose guard fails. One retry per phase reaches both the retry and giving
  up. Liveness is checked on one slot, because the two-slot instance with OOM has
  about a million states and the slots share nothing that could block one another;
  safety with two slots is checked without OOM and proved with it (section 5).
* Scheduler: two nodes and one slot make a list wait for the slots. The 8 orders
  have each action first, cut-off orders (`-`) and blacklisting before and after removing.
* Blacklisting: three nodes are enough for two to be blacklisted in two key
  refreshes while one remains.
* Adding: with two sessions a third device finds them full. `MaxQueue` bounds the
  beacons in the queue (2; 1 for liveness), not the events of provisioning.
* Startup: three keys and room for two make a key fail before, at and after the limit;
  two devices suffice, as no step is about two of them. "key" (the NCP refuses a key at
  random) is not among the faults of the run, since ConfiguredMeansReady then promises
  less; the proof has it.
* Store: each device goes through the store alone, so one of each kind is enough; the
  proof is for any number.
* Console: `Cells` bounds the commands that wait. With two, the list goes through
  empty, one and two items and reuses a freed cell, which is where head, tail and next
  change. Two lights in the tree and two in the demonstration give a last one and one that is not.
  Of the commands, `onoff on` and `lightness 50` take the lights of the tree, `colortemp 30 l2`
  names one, `colortemp 101` is invalid.
* Items: two elements turn the element iterator once, up to five models and three
  keys have holes at the start, middle and end. The 255 rounds of the element count
  are all there.

`CHECK_DEADLOCK FALSE` is set where the model really stops: after an assertion
ended the process (`acc_engine_faults`, `dev_bl`), after a node that no longer
exists was used (`mng`), and at the end
of the chain (`as_items`).

### Fairness

The main loop is an endless loop without blocking calls, so its steps are weakly
fair, and as each round drains the events first, an event that was raised is
handled (strong fairness where a step is possible only at one point of the
round). Beyond the loop the specifications assume:

* AccEngine: the NCP target does not run out of memory at *every* request (strong
  fairness of the accepted ones). The code needs this: out-of-memory retries
  are not counted, so an NCP that is always out of memory holds a slot for
  ever. An armed guard timer may run out only when the event is lost, and then does.
* Mng: each worker comes to its end. For the slots this is `EveryNodeEnds`, for
  blacklisting `BlEnds`; a device that is to be added shows up at last.
* Startup: only that `cli_proc` goes on; starts, commands and the work of the manager
  are not fair.
* Console: the thread of the manager goes on, and the NCP target is not out of memory at
  every attempt to send to a light. Nothing is assumed of the console.
* CfgStore has no liveness.
* DevBl: a key refresh that was started completes, well or badly. Nothing is
  assumed of the nodes: they may never report a phase.
* DevAdd: the NCP ends each session, the queue of events gets empty again and
  again (the host is faster than the beacons), the delay after OOM passes while adding, and the host
  clears a session it has heard nothing of only after the NCP has ended it
  (`ADD_NO_RSP_TIMEOUT` is longer than the NCP's own limit). Commands that turn scanning
  on and off are taken to succeed.

## 4. Departures of the code from what it says

Two are runs that TLC must find violated, with the quoted text under "findings"
in `PROJECT.json`:

* `acc_engine_hang`: `as_*_retry` sets `expired` to 0 after the retried
  request has armed the timer again. `DeafForGood` proves the core of it for any instance: a slot
  whose event is lost while no timer runs stays as it is for ever, and so does the sync.
* `mng_stuck`: `set_mng_state` looks at `lists.rm` in state blacklisting. `RemovedBefore` proves
  that the list is empty then as long as the order removes first, and `HeldUpForGood` that otherwise
  neither the list nor the state changes any more, unless the user stops the sync or clears.

Others are in the modules as well, and a changed instance shows them. The passing
runs go through these behaviours where that is possible (an assertion then ends the
behaviour), and leave them out by their constants where it is not.

| Property | Instance that refutes it | Where |
|---|---|---|
| AccEngine `OomNeverWaits` | Faults = {oom, loss} | `dev_config.c:417`: a guard timer retry that meets OOM keeps WAIT_RESPONSE, and the next round asserts that it is clear |
| AccEngine `RetryWithinBudget` | Faults = {timeout, nores} | `as_addsub.c:223`: "insufficient resources" on the last address does not clear EVER_RETRIED, so it is retried with no retry left |
| AccEngine `GuardOutlivesNcp` | LowPower = {n1} | `dev_config.c:570` tests the position of the bit, not its mask, so a low power node gets the short timeout |
| AccEngine OnePlace, ImplementsAcc without their exceptions | any | `mng.c:535`, `generic_parser.c:166`: clrrb reloads the file in any state from configured on, frees every `node_t` and files the nodes in slots again; OnePlace and Acc except what follows |
| Mng `StopIsSafe` | Commands = {sync 1, sync 0}, or {sync 1, clrrb} | `mng.c:469`: `sync 0` in a key refresh clears the list that `on_bl_done` goes through; `mng.c:535`: clrrb frees every `node_t`, those in slots too |
| DevBl `BlacklistedIsExcluded` | Faults = {fail} | `dev_bl.c:220`: `kr_finish` sets `bl_done` before it looks at the result, so nodes of a failed key refresh leave the database while they still hold the network key, against README.md:55 "Blacklist devices from a network via key refresh procedure" |
| DevBl `SomethingPushed` | Faults = {oom} | `dev_bl.c:135`: the second key refresh starts without pushing the rest |
| DevAdd `ScanRestored` | Faults = {seven} | `dev_add.c:323`: with reason 7 scanning is not recovered, and the session only times out |
| DevAdd DbFollowsNcp without `touched` | Commands = {freemode}, or {sync 0} | `dev_add.c:99`: the events of a session that ends when neither adding nor free mode goes on are dropped: the NCP target has the device, the database has not |
| DevAdd `ScanHasReason` | Commands = {freemode} | `mng.c:321`: `freemode off` while adding waits; the NCP scans on after adding |
| Console `LightsAsDocumented` | as `console` | `cfgdb.c:366`: the mask kept in `kind` is tested as the number of a bit (`utils.h:64`). `onoff` without addresses comes to the lights that have lightness, `lightness` and `colortemp` to those that have CTL, against `cfgdb.h:251` "bit mask for feature". The shortest behaviour that shows it: `lightness 50` with a light that has CTL and one that has not; only the first is put into the list |
| AsItems ConfiguredAsAsked with `CanPublish` for `Publishes` | as `as_items` | `as_setpub.c:298`, `as_addsub.c:282`: the number of a vendor model is looked up in the lists of SIG models; where it is in one, the model is passed over, unless it is the first of its element. ConfiguredAsAsked excepts it (`Publishes`) |
| AsItems `KeyExists` | Configs <- AnyConfigs | `as_addappkey.c:61`: the first binding is not checked for a key that exists |
| AsItems `AllElementsFound` | Compositions <- AnyShape | `as_getdcd.c:226`: elements are counted with the size of the first |
| AsItems `OnlySupportedSubs` | Compositions <- TimeFirst | `as_addsub.c:280`: the first model of an element is not checked for support; `NoneRefused` proves that all is well where that model can subscribe |

A removal that runs out of retries counts as done (`as_rm.c:113`): the node leaves the
database although nobody knows whether it was reset.

`mng.status.oom` is cleared by `add_loop` alone, so out-of-memory in free mode lasts
until the next sync adds devices.

`mng.c:433`: a node with an address that the NCP target does not have ends the walk of `load_lists`.
The nodes behind it are not filed, and the sync goes on and ends in `Sync Done` without them; the code
prints that a factory reset may be required. `mng` goes through this (Faults = {ddb}), and SyncDoneMeansDone
speaks of the work that was filed.

Startup, CfgStore and Console go through these behaviours, and their properties name
the exception:

* `nwk.c:104`: a crash after the network was created and before the file knows ends in
  "NETKEY MISMATCH" at every start until a factory reset (StuckOnlyOnMismatch).
* `startup.c:146`: the manager is started whatever `nwk_init` returned, and `sync` is
  accepted in every state (`mng.c:466`), so that `configured` is reached
  without a network (`forced` in ConfiguredMeansReady). A client model that cannot be
  initialised leaves the state configured as well.
* `nwk.c:154`: `active_appkey_num` counts keys, but is the length of a prefix of the array.
  That is the same only as long as keys are refused for lack of room
  (ConfiguredMeansReady asks for "key" \notin Faults).
* `json_parser.c:2046`: an edit saved in the second of a flush is not noticed (`blind` in
  ChangedOutsideIsKnown). Any edit that has not been loaded is lost when the program
  writes a field meanwhile, as it writes the whole document.
* `cfgdb.c:47`: a device without a template stays among the unprovisioned devices
  after it was provisioned (`Bare` in MemoryIsDocument). The next forced reload frees its
  object twice; `ForcedLoad` ends the process there.
* `models.c:261`: an invalid lightness is stored before it is refused; nothing sends it, as
  no light is pending (RequestServed).
* `models.c:266`: `colortemp` without addresses asks for the mask of `lightness`; by the mistake in
  `cfgdb.c:366` it comes to the lights that have CTL all the same, and `lightness` to those too.
* A reset swallows the command in execution, keeps the queue and the demonstration, and
  overtakes what waits in the queue.

## 5. What is proved

All theorems hold for every value of the constants that their module's named
assumptions allow: any number of nodes, slots, keys and devices, any assignment of work,
retries and low power nodes, and every fault and command, but for the hypotheses named
here. They rest on those assumptions and nothing else. The hypotheses draw the line around
the departures of section 4: each theorem says what holds until the one named fault or
command comes, and the instance in the table shows that with it, the property fails.

**`AccEngineProofs`.** `EngineInvariant` establishes `IInv`, under every fault of
the NCP target; `EngineTypeCorrect` (TypeOK) and `EngineOnePlace` (OnePlace) follow.

* OnePlace alone is not inductive: a node could be provisioned, and put into
  the list, while a slot holds it. `ListInv` (what is in a list or a slot is
  provisioned) excludes that.
* A sync files all nodes anew; that a slot does not hold one of them then is
  `ModeInv`: outside a sync all slots are free.
* clrrb files all nodes anew with slots in use. What OnePlace says of lists against slots
  holds as long as abort is not "freed"; no two slots hold the same node even then.
* TypeOK needs `SlotInv`: only a slot in a phase that sends requests has a
  request out, a timer or an OOM to recover from; otherwise a retry could send
  in a phase that has nothing to send.

The second part is about waiting and aborts. `WaitInv` says that a slot waits exactly
when the NCP target has its request, and that a guard timer is due only for an event
that was lost. It needs no assumption about the faults, only that the timers
are long enough, which they are not for low power nodes (`dev_config.c:570`): with LowPower =
{}, `EngineWaitMatches` (WaitMatchesNcp) and `EngineGuardOutlives` (GuardOutlivesNcp, and
each event finds its slot). The ASSERTs need more, `CalmInv`: only after a timeout has
a slot EVER_RETRIED set, only after OOM is it marked so, never while it waits. From it follows
`ToleratedNoAbort` (NoAbort and OomNeverWaits) under `Tolerable`: no low power node, not OOM
together with lost events, not timeouts together with "insufficient resources". Any other
combination of the six faults is borne, and the condition cannot be weakened: each
of the three it excludes leads to an abort (the first three rows of section 4). What
the second loss in a row does is `DeafForGood`, an action property: no step of any other slot, of the
NCP target or of the user touches a slot that waits with its timer off and its event lost.

The third part is about `Acc` and the database. `EngineImplementsAcc` shows ImplementsAcc: initial states
map to initial states, and each action of the engine to an action of `Acc` or a
stutter; clrrb is `File`, which sets `lost` if a device was at work, and nothing follows. That needs more of the engine than IInv. `KindInv` says that all slots
in use are of the kind of the mode, each with a state and a next state of that kind:
this is why a slot that removes cannot end as `Configured`, whatever retry, timeout or
error it went through, and why configuring and removing exclude each other
(`Begin`). `FailInv` keeps the fail list apart from lists and slots, so that `Place` is
not decided by the order of its cases. `EngineKinds` establishes both (`PInv`).

It ends with `EngineDoneConfigured` (DoneMeansConfigured) and `EngineOneErrorBit`
(OneErrorBit). The argument follows a node through its attempts. A slot without a
failure has all phases before its state acknowledged (`Clean`); a slot with a failure
does nothing until its turn, so that it records one state only, and everything before that
state is acknowledged (`Asleep`); so is everything before the state that an error bit
in the file names (`RecordOk`), which is where the next sync resumes. `DInv` puts these together.

The proofs about the engine have one lemma per operation on a slot (what `Send`,
`Retry`, `Enter`... make of it), then one for each action, then the step over `Next`,
split by its disjuncts.

**`AsItemsProofs`.** `TypeCorrect`, `EverythingSent` (ConfiguredAsAsked) and
`SubscriptionsInOrder` (SubsInOrder), for any composition data, bindings, addresses and
features. `ConfiguredAsAsked` speaks of the end only. The invariant `IInv` says it of
each request on the way: what the node has acknowledged in a phase is what lies before
the position of the iterators. `Before(it)` are the models passed, `Keys(j)` and
`First(j)` the keys and addresses passed at the current one, and each later phase finds
all of them, the whole of `Places` and `UsedKeys`.

* One lemma per iterator says that nothing lies between a position and the next but what
  the iterator is to leave out: `NextKeyIs` for keys that do not exist, `MoveIs` for the
  next model of any kind, `SkipIs` for models that cannot publish or subscribe.
* TypeOK bounds the iterators by the sizes of the arrays that the code reads with them.
* `ElementsFound` and `NothingAborts` are conditional: on `Counted` (the first loop of
  `__dcd_store` finds the number of elements), `Modelled` (each element has a model) and
  `Keyed` (first binding and publication name a key that exists; later bindings need
  not). The departures in section 4 are what happens without them.
* `NoneRefused` says of subscriptions what `Keyed` says of keys: if the first model of each
  element can subscribe (`SubFirst`), each request is to a model that can, and the node refuses none.
* `NeverBack` (Forward) needs no hypothesis: no step takes the phase or, within a phase,
  the iterators back, and with a request answered they move on. The iterators are bounded (TypeOK),
  so that this is the safety half of Ends.
* `Models` is a recursive function; that it returns a sequence of models (`ModelsType`)
  takes an induction, which is done over the set of the lengths for which it is true.

**`StartupProofs`.** `TypeCorrect`, `FilesFollow` (FileFollowsNcp), `OnlyMismatch`
(StuckOnlyOnMismatch) and `ConfiguredReady` (ConfiguredMeansReady), from one inductive
invariant of five parts besides the types: what a step may rely on when it writes to a
file (`StepKnows`), that work of the manager goes on only in a sync (`WorkKnows`), how a
start got to where it is (`StateKnows`), whose address is whose (`AddrKnows`), and that the keys
of the NCP are a prefix of the array up to its room (`KeysKnow`), which is why a count can stand for a prefix.

**`CfgStoreProofs`.** `TypeCorrect`, `MemoryAgrees` (MemoryIsDocument), `AddressSaved`
(AddressIsSaved), `DoneAddressed` (DoneHasAddress) and `ChangeKnown`
(ChangedOutsideIsKnown). The invariant extends the properties to the states within an
operation: which tree the device is in at each step (`AtHome`), what of memory and
document still differs (`MemoryFollows`), and that the user moves entries and changes
fields, but gives no address and takes no entry away (`FileCovers`); without the
last a reload could take a node's home from under an operation.

**`MngProofs`.** `TypeCorrect`, `WorkSeparate` (WorkMatchesState), `MarkedUntouched`
(MarkedNotConfigured) and `SyncDone` (SyncDoneMeansDone), for any nodes, slots, orders
and commands. The invariant `IInv` adds to the properties that a device is in one list or
slot until clrrb frees a node in use (`ListInv`), that within a sync the list of
configurations holds no marked node (`FreshConfig`), and that each action the loop of
set_mng_state has passed is the one at work or has no work left (`OrderInv`). With the last,
`SyncDone` splits the order at `offs`: before it OrderInv speaks, after it the loop found
nothing to load (`NoneLeft`). That the slots in use are no more than there are needs
cardinalities of finite sets, and `IsFiniteSet(Nodes)` as an assumption. `StopSafe`
(StopIsSafe) names the commands to blame for a node that is used after it was
freed: without `sync 0` and clrrb there is none, since what a key refresh was
started for is in the list until it is done (`BusyListed`). `RemovedBefore` and
`HeldUpForGood` are the two sides of the finding `mng_stuck`. The first is an invariant of the loop of
set_mng_state: blacklisting is begun from its place in the order (`AtB`), and what lies before that place is
done (`Reached`). The second is an action property, of any commands but `sync 0` and clrrb.

**`DevBlProofs`.** `TypeCorrect`, `HostHasKey` (KeyFollowsNcp) and `DoneWerePushed`
(DoneNodesWerePushed). The invariant adds that a key refresh is under way only while
blacklisting looks active (`RefreshIsKnown`: otherwise the event of its completion would be
dropped), that keys differ only between the completion and its handling (`KeysAgree`),
and that a sync finds the counters reset (`IdleIsReset`).

A second invariant, `Causes`, finds the culprits. Without "oom" all nodes are pushed in the
first round (`WholeInv`), so that no key refresh starts with nothing pushed
(`PushedUnlessOom`: SomethingPushed). Without stopped syncs the pushed nodes stay in the list
(`ListedInv`). A key refresh that completed well has excluded all that was pushed
(`ExclInv`), so that without "fail" only excluded nodes leave the database, stopped syncs
included (`ExcludedUnlessFailed`: BlacklistedIsExcluded). Each way to abort has its own
cause (`CauseInv`): with neither "oom" nor "start" nor a stop there is none (`BlNoAbort`:
Alive), whatever else fails.

**`DevAddProofs`.** `TypeCorrect`, `SessionsKnown` (SessionsTracked), `DatabasesAgree`
(DbFollowsNcp), for a queue of any length, and `ScanReasoned` (ScanHasReason, as long as
no freemode command is given, which changes the reason while the scan runs). All
hang on the order in the queue. A session has one outcome, and its device is in no other
session until that is handled (`OneOutcome`). When add_loop gives up on a session, its
slot may be freed with the outcome still in the queue; that is safe since no beacon of that device comes before
it (`BeaconsFirst`), which would start a second session. The reason is
that add_loop runs after the queue was drained (`SinceDrained`). For the databases, a device
that the NCP target knows and the file does not has its outcome in the queue, unless the
user interfered (`Untouched`).

**`ConsoleProofs`.** `TypeCorrect` and `LightsObey` (RequestServed), for any number of
cells, commands and lights. LightsObey is about the lights that were put into the list, and says
nothing of which ones a command without addresses selects; of `GetLightsAddrs` it is proved
(`AddrsType`, by induction over the tree) that it returns a sequence of lights. That the cells of the queue are a list is said with a sequence of
all of them, each linked to the next (`IsList`); cmd_enq appends to it, cmd_deq takes
its head, quitting empties it. The lights need that what was sent and what is still to be
sent (`Sending`) make up what was asked for; this holds also where an invalid
command has overwritten the value, since nothing is pending then.
`QueueImplementsFifo` shows that each step of the console module is a step of `CmdFifo` or
leaves the queue alone. The walk of `Queue` along the `next` pointers yields the items of
the sequence of `IsList` (`WalkIs`, `QueueIs`), whichever such sequence is taken; `EnqAppends`
and `DeqTakes` follow, one for each of the two branches of cmd_enq and cmd_deq.

Only model-checked: all liveness (EveryNodeEnds, SyncFinishesInOrder, BlEnds,
ScanRestored, Ends, FactoryResetRecovers, LightsEnd) and of RefinesFifo the fairness in
`CmdFifo!FairSpec`: fairness and ENABLED are out of the prover's reach.

## 6. Not modelled

* Statistics and utilities keep no state that the core depends on; they count, print and
  convert. err_str.c and src_names.c are generated.
* HAL, NCP daemon and Bluetooth stack are vendor code, and most of the repository's
  lines (the two generated headers of the host stack alone have 50 000). The modules have
  the NCP target as external actions, by what the handlers expect of it.
* Console: line editing, completion, the table of commands and its prefix match, printing.
  The commands info, list, status and loglvlset print or set the log level.
* Startup: arguments, the option cache file, the start of the daemon. The manager's thread
  is cancelled and not joined (`startup.c:126`): the modules cancel it between two steps,
  and not inside a file write, where the C library decides.
* Store: the template file, the fields of a configuration, error bits and functions,
  parsing and what it rejects (a file with a syntax error, a string that is not a
  number), a write that fails (the time of synchronization moves on all the same), a file torn
  by a crash, an editor that saves a stale copy, entries that the user deletes.
* clrrb in Startup: it deletes devices without an address from the database of the NCP target, as
  each sync does, which is there.
* Data races of the console's completion with the manager (`get_node_addrs`,
  `get_lights_addrs` keep their position in static variables under a lock for reading):
  C gives them no outcome.
* An NCP target that is exchanged or erased behind the program's back.

## 7. Plan

Done, in this order: AccEngine with its proofs, Mng, DevBl, DevAdd, AsItems; then
Startup, CfgStore, Console, the abstract specifications Acc and CmdFifo and the
refinements, and the proofs about done, Startup, CfgStore, Mng, DevBl, DevAdd, Console,
AsItems and the queue as a FIFO.

1. Composition of Mng with DevBl and DevAdd in place of their stand-ins, and of
   CfgStore with the commands of Mng, so that an edit meets each state of a sync.
2. `SyncSpec`, a sync as idle, working, done, refined by Mng; AsItems as the
   implementation of a node's configuration as a set.
3. The template file and failed writes in CfgStore.
