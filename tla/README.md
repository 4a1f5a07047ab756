# usb-proxy-udp: TLA+ models, model checking and proofs

usb-proxy-udp sits between a USB mouse and a host. It forwards every report of
the physical mouse and mixes in motion and buttons that arrive as UDP packets.
This directory models the part of it that decides what the host sees: the
mixer, the endpoint threads that feed and empty it, the UDP server's loop with
its movement transactions, and the requests of the clients that drive it.

## 1. Inventory

| Component | State | Operations | Correct when |
|---|---|---|---|
| **Mouse mixer** `mouse_mixer.cpp` | per endpoint: layout and generation, queue of synthetic items, inflight mark, applied masks, last written template and physical buttons, credits; bounded writer events | `enqueue_report`, `clear_synthetic_state`, `queue_physical_mouse_report`, `take_mouse_report`, `notify_mouse_report_written`, `take_writer_*`, `learn_mouse_descriptor`, `set_mouse_protocol`, register, unregister, seed | nothing physical is disturbed; accepted motion is delivered at most once and never dropped silently; no interleaving wedges the queue |
| **Endpoint threads** `proxy.cpp` | data queue of 32 reports, stop flag, the report in the ioctl | `ep_loop_read`, `ep_loop_write`, `process_eps`, `terminate_eps`, `ep0_loop` | reports leave in the order read; teardown ends; late completions are harmless |
| **UDP server** `udp_server.cpp` | owner and its lease, desired masks, click queue, command cache, release obligation, tracked generation | `server_loop`: generation check, events, watchdog, scheduler tick, one packet; `stop` | nothing stays pressed; every accepted command ends once; `completed` is honest |
| **Movement executor** `move_executor.h` | request, stage, ledger of motion out and back, deadline, flags | start, event, tick, proceed, cancel, stop | the residual never claims less than the host may have seen |
| **Session tracker** `session_tracker.h` | 32 active and 256 retired sessions, highest command, stamp | stale, admit, accept | no command is accepted twice within the retention |
| **UPX1 replay window** `upx_replay.h` | 256 peers, last sequence, stamp | stale, accept | no packet is applied twice or out of order |
| **Telemetry** `telemetry_protocol.h` | subscription, token, sequence | accept, alive, packet | at most one live subscriber |
| **Codecs** `mouse_protocol.h`, `click_protocol.h`, `move_protocol.h` | none | parse, encode, split | a split adds up to its command, every part fits |
| **Replay gadget** `usb_replay.cpp`, `replay_profile.h` | a captured device | seeds the mixer, same writer | as the mixer |
| **Client** `client.py` | session, next command, acks seen | `_reliable_request`, `move_action_return`, `release_all` | a retried request acts once |
| **I/O and main** `device-libusb`, `host-raw-gadget`, `misc`, `usb_capture`, `usb-proxy.cpp` | handles, options | wrappers | out of scope: pure I/O |

**Interaction.** The reader thread of an endpoint stamps a report under
`registry_mutex` and pushes it under `data_mutex`. The writer thread asks the
mixer for the next report, is away in `usb_raw_ep_write` without any lock, and
reports the completion under `registry_mutex`; the event follows under
`event_mutex`. The server's only thread polls: each call of it into the mixer
is atomic, and anything may happen between two calls. The ep0 loop changes the
layout, and stops and starts the endpoint's threads.

**Hard behaviour.** Nearly everything is a completion that arrives after the
thing it completes has been cleared, superseded or invalidated; a snapshot used
after the lock; a bounded queue (8 synthetic items, 32 writer events, 64 click
commands, 256 cache records); a write that fails or never returns; the 25 ms and
250 ms timeouts that race with completions. `PROJECT.json` lists each hazard at
its line, with the property that would catch it.

## 2. Modules

| Module | Stands for | Checked by | Proved in |
|---|---|---|---|
| `MouseMixer` | `mouse_mixer.cpp` with the reader, writer and control steps of `proxy.cpp` for one endpoint | `MCMouseMixer` | `MouseMixer_proofs` |
| `SyntheticOutput` | abstract specification: what the mixer promises its callers | `MCMouseMixer` | `UdpServer_proofs` |
| `MixerRefinement` | the mapping of `MouseMixer`'s state to `SyntheticOutput`'s | `MCMouseMixer` | `MixerRefinement_proofs` |
| `UdpServer` | `server_loop()` on top of `SyntheticOutput` | `MCUdpServer` | `UdpServer_proofs`, `Release_proofs` |
| `MoveServer` | the same loop with UPM1 and `move_executor.h` | `MCMoveServer` | `MoveServer_proofs`, `MoveLedger_proofs` |
| `SessionTracker` | `session_tracker.h` | `MCSessions` | `ReliableCommands_proofs` |
| `ReliableCommands` | `client.py`'s reliable requests, the network, and the cache, epoch and session checks of `udp_server.cpp` | `MCSessions` | `ReliableCommands_proofs` |
| `UpxReplay` | `upx_replay.h` and the snapshots of `client.py` | `MCSessions` | `UpxReplay_proofs` |

They stand on each other in two ways. `MouseMixer` implements `SyntheticOutput`
(`MixerRefinement`), and `UdpServer` and `MoveServer` extend `SyntheticOutput`
instead of the mixer: their state space does not contain the mixer's internals,
and what holds of them holds on top of everything the mixer may do.
`ReliableCommands` extends `SessionTracker`, whose operations are conjuncts of
its actions.

### MouseMixer

Every locked section of the code is one action. `EnqueueOk` and
`EnqueueQueueFull` are the outcomes of `enqueue_report` that may touch the
queue. The reader is `ReadPhysical` (stamping) and `PushPhysical` (after the
lock is dropped; the whole 32-report wait is its guard, with the bound
`MaxFifo`). The writer is one of `TakePhysical`, `TakeStandalone`, `TakeNothing`
(`take_mouse_report`, expiry included: `cutoff` is the newest item that is too
old, chosen freely), then `WriteSucceeds`, `WriteFails` or `WriteFailsAndEnds`
(the ioctl and `notify_mouse_report_written`), then `AppendEvent`. Control is
`SetProtocol`, `LearnDescriptor`, `SeedMouseReport`, and a teardown in four
steps: `BeginTerminate`, `Unregister`, `WriterStops`, `Join`, and `Register`.

The data is abstract: one motion axis in the range of the field, where
`Encodable` and `Part` stand for `split_mouse_command`; two layouts, of which
boot has fewer buttons; the template is reduced to whether it is known. The
variables `hostButtons`, `hostPhysical`, `hostMotion` and `commanded` are
history: what the host has been shown and what was asked for. Bounds: items
accepted (`MaxItems`), physical reports read (`MaxPhysical`), generations
(`MaxGenerations`).

### SyntheticOutput and MixerRefinement

`SyntheticOutput` forgets why: which physical report a command is merged with,
how competition is decided, which layout is in force, when a movement is too
old, how the threads are started and stopped. It keeps what its callers can
rely on: acceptance and superseding, one report at a time, what a completion
credits, which event it raises, the loss of events, what the host sees, and that
reports of an earlier generation leave before those of this one. A layout need
not have all the physical buttons the mixer remembers: until a report of a new one
has been written, a report made for a command alone may show fewer of them
(`Remembered`), while the event of its completion names them all (`FinalButtons`).

`MixerRefinement` names the mapping part by part: an item becomes an entry without
its identity and guard (`AbstractEntry`), the report in the writer thread and the
events lose what the callers cannot tell apart (`AbstractReport`, `AbstractEvent`),
and `StaleWaiting` says whether a report of an earlier generation is still to be
written. That every step of `MouseMixer`, in the proxy and in the replay gadget
(whose seed is `Seed` here), is a step of `SyntheticOutput` or a stutter is checked
by run `mixer_refines` and proved in `MixerRefinement_proofs`.

### UdpServer

`pc` names the next call of the loop into the mixer; the local work up to the
next call belongs to the same step: `Top`, `ResetChanged`, `Resnapshot`,
`FetchEvents` and the `Handle...` actions, one for each branch of the event loop,
`FetchOverflow`, `ResetLost`, `Watchdog`, the `Tick...` actions of
`scheduler_tick`, then `Timeout` or one of the `Receive...` actions. `BeginReset`
is `begin_reset()` and always contains the mixer's clear. Packets of one client
session with increasing command numbers come from any peer and any number of
times; the 250 ms of the lease (`Lapse`) and a click's delays (`DelayPasses`) may
pass at any moment. Replies are not modelled here; a packet that is refused
without a change is left out. `clicked` is history: the clicks of a command the
host has seen. The movement executor is idle: it has a module of its own.

### MoveServer

`MoveExecutor` is a record and functions of it: `StopMover`, `OnEvent` (`event()`),
`Diverted` and `Waited` (the stages of `tick()` that ask for no report),
`MoverReport` (those that do). Each action of the loop in `UdpServer` is taken
together with what it does to the mover: `MoverFails` and `MoverProgresses` show
it the event first, `LoopStops` and `AskedToStop` are the resets and stop it.
Between the watchdog and the scheduler comes the mover's turn: `TickOver`
(another endpoint, physical activity, the deadline), `TickNothing`, `TickStage`,
`TickWants` and `EnqueueMover`, which is the call into the mixer, with
`ResetMover` where the tick asks for the final release. Packets are
`ReceiveExecute` and `ReceiveControl` (Continue, Cancel, the same request again).

Time is left open: a stage's delay, the midpoint wait and the deadline may have
passed at any tick. Physical activity (`PhysicalArrives`) is noticed at a later
tick; until then physical reports show the buttons received at the start, and a
guarded report whose activity has passed is never taken. `landed` is history: what the
host has seen of the transaction. Clicks are left out: they and a transaction
refuse each other.

### SessionTracker

The two lists in the order of last use, `Take` for `stale()`, `admit()` and
`accept()` of one command, and `Expire` for `prune()`. A tombstone is dropped when
it is an hour old; the list is in the order of retirement, so the tombstones
dropped are the first ones, any number of them. `remembered` is history: the
commands accepted of sessions that have not been forgotten since.

### ReliableCommands

A client is a `MouseProxy` with at most one open request. `Ask` is its first send;
`packets` are all requests ever sent, and each may arrive at any later time, any
number of times or never, which stands for retransmission as well as for the
network. `Arrive` is what the server does with one: the lease (`AnswerBusy`), the
epoch (`AnswerEpoch`), the cache (`AnswerAgain`), the mark (`AnswerStale`), the
endpoint and the limits (`AnswerRefused`, `AnswerFull`), and acceptance
(`AcceptWork`, `AcceptRelease`, which cancels what is under way). Accepted work
ends at any time (`Ends`), by a reset of the server (`ServerResets`) or with it
(`Restart`: an empty cache, no marks, a new epoch).

An answer is lost or is heard at once. A late one makes no difference: the client
does nothing else while its request is open, the server does not see when an
answer arrives, and after the request it goes to `_acks` and stays there
(`client.py:111`). `GiveUp` is the deadline; for a transaction it sends ReleaseAll,
the fence of `client.py:247`. History: `started`, `repeated`, `done`, `dropped`.

### UpxReplay

Sequence numbers modulo `2 * Half` (2^32 in the code), one entry for a peer,
eviction at `MaxPeers`, `prune()` from the front. A snapshot is at most `Delay`
others late, which is an assumption about the network: half-range comparison
cannot hold without one.

## 3. Runs

| Run | Question | Bounds, and why they are enough |
|---|---|---|
| `mixer_motion` | `InflightHeld`, `QueueOrder`, `MotionLedger`, `RefusalKeepsQueue` | 3 commands over a queue of 2: superseding, refusal (which removes nothing: the queue is within its limit, so whatever is superseded makes room), a split movement (3 = 1+1+1), a guarded one; a physical report that leaves no room and a foreign one |
| `mixer_drain` | liveness: `QueueDrains`, `PhysicalDrains`; `OvertakenOnce`, `TypeOK` | 4 physical reports that never leave room: three earn the credit, the fourth is competed with |
| `mixer_refines` | `ImplementsOutput`, `WriterLeavesNothingUndone`, `AcceptedStaysEncodable`, `StandaloneKeepsPhysical`, `InflightHeld` | movement, press and release over 3 generations: a layout change, a teardown and a new registration in any place; a physical press of the clicked button; both executables. Physical buttons that a layout hides need more reports and are covered by the proof |
| `mixer_masks` | finding | see below |
| `server_rest` | `RestMeansReleased`, `TerminalIsFinal`, `TypeOK` | 2 packets of any kind, or one packet and one change of the layout or endpoint, a hold, a click: the second packet, or the change, meets every stage of the first, between any two calls; there is one command and one record, so what eviction does is left to the proofs of `TypeOK` and `TerminalIsFinal` |
| `server_clicks` | `ClicksHappened` | 1 command of one or two clicks, a physical button that may change with every report |
| `server_progress` | liveness: `ReleaseCompletes`, `CommandsEnd`, `SilenceReleases` | 1 packet, any number of failed writes and lost events before writes succeed |
| `server_release` | finding | see below |
| `mover_ledger` | `LedgerHonest`, `NeverOvershoots`, `CompletedHappened`, `PressIsReleased`, `PendingIsUnderway`, `GuardedIsOwned`, `OutcomeIsFinal`, `MoveTypeOK` | a movement of 1 with a click and a midpoint wait, whose reports may be written in two parts, the first without motion, and a request that does nothing; 2 packets: the second continues, cancels, asks or releases at every stage; one generation of the endpoint. A press is written only after Execute and Continue, so a cancel or ReleaseAll behind it would be a third packet: the proofs cover that. Longer movements, and an endpoint that changes under a transaction, are covered by the proofs, but for `CompletedHappened`, which does not hold over several layouts and is proved within one (section 4) |
| `mover_ends` | liveness: `TransactionEnds`; `CompletedHappened` | a click beside a physical button, or motion of a packet, one packet each |
| `mover_cancel` | finding | see below |
| `sessions` | `OutcomeStands`, `MoveStartsOnce`, `StaleWasAccepted`, `ReleaseFences`, `NeverAcceptedTwice`; `LatestIsTaken`, `SnapshotsAdvance` | 2 clients with 2 commands each, 1 active place, 1 tombstone, 2 records, 3 requests and restarts together: each client's request meets the other's eviction, and a delayed one meets a restart; what needs more clients and places is covered by the proofs. 3 controllers over 2 places, 8 snapshots modulo 6 |

Lost events are possible in every server run: the event queue holds one. Run
`sessions` accepts a system that stops (`CHECK_DEADLOCK FALSE`), because its
bounds use up the requests; in every other run deadlock is checked. Every property has a mutant in
`PROJECT.json`, a plausible slip in the code that makes TLC find it violated.

**What the properties say.** `InflightHeld`: the mark that stops all further
reports is always one the writer thread is about to clear. `MotionLedger`: after
any number of failures, clears and expiries the host has been sent no more of a
movement than commanded, and what is left in the queue is exactly the rest.
`WriterLeavesNothingUndone`: the writer takes an item off the queue only when it
has been written, or would change nothing and is not a forced release.
`StandaloneKeepsPhysical`: a purely synthetic report neither releases nor
presses a physical button. `RestMeansReleased`: when nobody holds a button and
nothing is owed or under way, the host sees the physical buttons only.
`ClicksHappened`: `completed` counts clicks the host has seen. `TerminalIsFinal`:
what a client has been told last stays true.

`LedgerHonest`: the residual a client is told of an ended transaction is what the
host was moved, or it is flagged uncertain. `NeverOvershoots`: the host is never
further out than asked, nor back beyond the start, also by reports written
after the transaction has ended. `PendingIsUnderway` and `GuardedIsOwned` are the
two halves of why a transaction cannot wedge: one that waits for its report will
learn of its fate, and a guarded report that will never be taken is about to be
cleared. `OutcomeIsFinal`: late events and repeated packets do not change what
was told.

`OutcomeStands`: what a client is told of its request stays the outcome, unless
the server has forgotten the session or was started again (for work without an
epoch): USAGE.md's 'within retained cache/high-water state, a retry cannot
schedule twice'. `MoveStartsOnce`: a transaction is started once, also by a
delayed packet that meets a new server. `StaleWasAccepted`: no session locks
another out. `ReleaseFences`: a client that has been told of its ReleaseAll has
nothing earlier under way. `NeverAcceptedTwice`, `SnapshotsAdvance`,
`LatestIsTaken`: the two trackers accept nothing twice and lock nobody out.

**Liveness and fairness.** `mixer_drain` assumes weak fairness of the endpoint
threads' steps (they loop with a 20 ms wait, so a lost notification costs
time only) and strong fairness of a successful write (a write that is tried
again and again succeeds in the end; raw-gadget fails one only when the host has
reset or the thread is interrupted). `QueueDrains` is for unguarded items and a
physical mouse that falls silent: the code lets a standalone report compete only
with a backlog of one, so a host that always leaves two reports waiting starves
synthetic motion that fits none of them.

`server_progress` assumes weak fairness of the loop (it polls for at most 2 ms),
of time passing, of the endpoint's first registration and report, of a write
returning and of its event being appended; strong fairness of the writer's
progress: it takes the front command, passes over it or is rid of the reports of
an earlier generation, which is what `mixer_drain` shows of the mixer; and that writes succeed from some time on, because each one that fails
starts a reset and so a new obligation. Packets are never assumed to arrive.

`mover_ends` assumes the loop alone: that it goes round, and that of the ticks of
an active transaction one finds the deadline passed (a clock). Nothing is asked
of the writer thread, of the endpoint or of the network.

**Findings.** `mixer_masks`: the comment at `mouse_mixer.cpp:316` says the masks
describe the last successful USB write; after a clear that overtakes a write in
flight they do not (telemetry and `+state` show it; the final release repairs it).

`server_release`: the release obligation of `udp_server.cpp:123-125` can be left
unmet. A layout change drops the enqueued RELEASE_ALL; the loop notices by
comparing the snapshot's generation with `tracked_generation`, but that is
overwritten by packet handlers (369, 408, 451, 456) and at 212 before the
comparison. `release_inflight` then stays set, nothing is enqueued again and
clicks wait, until something else resets the server. For this reason
`ReleaseCompletes`, `ClicksHappened` and `CompletedHappened` are checked within one
layout, and `RestMeansReleased` also across a change. A smaller effect of the same kind: the
completion of an orphaned RELEASE_ALL carries the key of its successor and is
credited to it (`udp_server.cpp:183`); within one layout the successor is still
queued behind it and is written all the same.

`mover_cancel`: a cancelled transaction whose press completes as blocked
(`move_executor.h:83-86`) ends without a release, and its button stays in the
scheduled mask, although USAGE.md says that Cancel releases any synthetic press.
The press is blocked when the host still sees the physical button although its
release has been received. `PressIsReleased` is what does hold: a press the
client is told of is released.

## 4. Proofs

Every theorem is proved for all values of the constants, from the assumptions
the modules name (`InputsAssumption`, `FieldAssumption`, ... of `MouseMixer`;
`TrackerLimits` of `SessionTracker`).

**MouseMixer_proofs.** Nine properties of the mixer with its three threads. Each
part of the invariant is a named predicate with its own inductive proof, and the
later ones use the earlier.

* `TypeCorrect`, `InflightIsHeld`, `QueueIsOrdered`. The steps that matter for the
  mark are the ones that drop the queue, because each also drops the mark
  (`DropSynthetic`); the caller's, because a superseded item is never the one in
  flight; and the completion, which clears exactly the mark it set. Ids are
  handed out in increasing order; what is taken off is a prefix or, by
  superseding, a suffix; only the front is committed.
* `ThreadInv`, `FreshInv`, `IoShape`: where the threads have got to, what an
  unregistered endpoint has forgotten, which fields of a report go together.
* `OvertakesAtMostOnce`, from `Overtaking`: only the oldest waiting report can have
  been overtaken, and the report that did so has spent the credits, which start to
  fill again only when that physical report is written.
* `StandaloneShowsPhysical`, from `PhysicalInv`: what a registered endpoint
  remembers is what the host was last sent, and a synthetic report was built from
  it.
* `AcceptedIsEncodable` and `RefusalRemovesNothing`, from `QueueInv`: every queued
  item is `Sound`, that is, what is left of it can be encoded, and only movements
  are latest-only; the queue is within its limit, so one from which something was
  superseded has room. The second part needs the assumption of `InputsAssumption`
  that a latest-only command is a movement, which is how `udp_server.cpp` calls
  `enqueue_report()`.
* `MotionIsAccounted`, from `LedgerInv`: of every id, what the host has, with what
  the writer thread is sending, is between nothing and the command; of a queued
  item, sent and left make up the command.
* `NothingLeftUndone` follows from all of these: a step of the writer that
  shortens the queue is a completion of the front item or an expiry of items that
  need no report.

**MixerRefinement_proofs.** `MixerImplementsOutput`: `Spec => ImplementsOutput`, so
what is proved of the server on top of `SyntheticOutput` rests on the mixer and not
on an assumption about it. Two more invariants are needed: `OrderInv` (physical
reports are written in the order they were read, so that once one of this
generation has been written no earlier one is left, which is what `templateKnown`
stands for) and `SupportedInv` (the masks in force and in the writer thread can be
shown by the layout). There is one lemma per action. Those of the reader and most
of those of control change nothing the mapping keeps; superseding, dropping,
expiring and committing are each shown to commute with `AbstractEntries`. The
step with the most cases is `Take`: a report for an item is `StartEntry`, with or
without a physical one, a physical report is `StartPhysical` or `StartForeign`, which
may end `StaleWaiting`, and a step that only expires items is `PassOver`.

**SessionTracker**, in `ReliableCommands_proofs`: `TrackerCorrect` and
`TrackerAcceptsOnce`. The invariant `TrackerInv` is the types, `OneEntry` (a session
has one entry in the two lists) and `RememberedIsStale` (an entry at least as high
as every remembered command). `OneEntry` is what makes it inductive: `find()`
returns the first entry of a session, and an older one in front of it would let a
command in again. The proof looks at the lists as the sets of their members
(`Apart`, `Entries`), and the three ways to accept a command have one lemma each
(`ActiveTakes`, `NewTakes`, `InsteadTakes`) with the same conclusion, `Takes`: the
session has an entry that covers the command and all it had accepted, the others
are old ones.

**ReliableCommands_proofs.** The properties of run `sessions` about commands, for
any number of clients, requests, restarts and places. `CommandInv` adds to
`TrackerInv` that a command number is used for one request (`OneRequest`), that
records and marks come from requests that were sent (`FromRequests`), and
`StartedIsOld`: a request that has been accepted is of the past (its epoch is
over or, for work without one, the server was started again), is remembered, or
its session was dropped. `MovesStartOnce` follows: an accepted transaction is of
this epoch and not stale, so it is new or its session was dropped.
`StaleMeansAccepted` needs that a session's mark is one of its own accepted
commands, and no client's command is below that while it is current.
`ReleaseIsFence` needs `Fenced`: acceptance of a release ends everything under way,
and afterwards everything before it is stale. `ServerAcceptsOnce` is the tracker's
theorem under the server's calls.

`OutcomesStand`, in the same module, is what a client relies on. To
`CommandInv` it adds `CacheHonest` (one record of a request, accepted, and done if
it is completed) and `ToldHonestly` (what a client was told is so, and a record
of its request that is under way all the same was open to be accepted again).
One record of a request is what makes an answer from the cache final: the lookup
takes the first one.

**UpxReplay_proofs.** `SnapshotsOnlyAdvance` and `LatestIsAlwaysTaken`, for any
number of peers, any range of the numbers and any delay of at most half of it.
The invariant `ReplayInv`: a peer has one entry, and it holds the newest snapshot
applied, modulo the range. The arithmetic is the lemma `NewerIsAhead`: the
half-range comparison of two numbers tells which of the snapshots is ahead, as
long as they are no further apart than that; it rests on division with
remainder only.

**UdpServer_proofs.** The types of the output and of the loop (`ServerTypesHold`)
and `TerminalStays`, from the invariant `ServerInv`. What makes the end of a
command final is `KeysInv`: a key has one record and one click command, the key of
the release that is owed is none of a click command's, no key is above the
highest accepted, and a command whose record is terminal has nothing left that
could end it again (`OpenKeys`). Every step that ends records ends open commands
only, and takes them out of the open ones (`RecordsEnd`); a new command's key is
above all the others (`AcceptedKeys`). There is one lemma for each action, so that
what is added to the loop can cite them.

The place of the record that makes room in the cache is the least of a set of
places. That a set of numbers has a least element is proved (`Least`) from the
library's theorem about well-founded relations.

**Release_proofs.** `RestReleased`, the property `RestMeansReleased`, for any
number of packets, failures, lost events and changes of the endpoint. The
invariant follows the masks along three places: what the loop believes held, what
the last queued command asks for (`Target`), and what the host sees. `ReleaseInv`
says that a release has still to be enqueued, or `Target` is no more than the loop
holds and either a queued RELEASE_ALL will put the host right or the host sees
what has been written last and no cancelled command's report is on its way
(`HostClean`). A clear in the middle of a write breaks the last part, and this is
why `begin_reset()` must owe a release before anything else happens;
`RELEASE_ALL` is what is never passed over (`SkipsRest`), and the report of a
queued entry makes the host clean whatever was before (`FinishRests`). `WriterInv`
ties the report in the writer thread to the entry it belongs to, `ClicksInv` the
scheduled button to the phase of the front click.

**MoveServer_proofs.** Four properties of movement transactions, for any limits,
requests, packets, failures, lost events and changes of the endpoint; the
assumptions are `ServerLimits`, `OutputLimits` and `MoveInputs`. None of them is
inductive: each depends on where the transaction's report is, and it may be in the
queue, in the writer thread, told of but not fetched, or fetched but not handled.
The invariant `MoverInv` follows it through all four:

* `GuardedInv` and `WireInv`: a guarded report in the queue is the only one there,
  belongs to the last transaction, and this one waits for it (`Owned`; when it has
  ended, it is flagged uncertain); the same for the report in the writer thread.
* `ComingInv`: of the events the loop will be shown (`Coming`: its batch, the ones
  not fetched, the one not told), those of this transaction are for its endpoint
  and it waits for them, and none comes after the one that finishes it.
* `Underway`: what is waited for is in one of these places, as long as nothing was
  lost and the endpoint is the same.
* `SoleUse`, `TurnInv`: nothing else uses synthetic output meanwhile.

There is a lemma for each kind of change to the queue, the wire and the events
(`QueueKept`, `WireKept`, `ComingKept`), one for what a function of the mover
leaves alone (`StageChange`, `AdvanceGoes`, `StopEnds`), and one per action.

**MoveLedger_proofs.** `LedgerIsHonest` and `NeverTooFar`. `AccountInv` adds to
`MoverInv`:

* `LedgerInv`: the residual of a transaction that waits for nothing is what the
  host has been moved; while it waits, the motion of the events to come makes up
  the difference (`Totals`). Only the events the loop will still handle count
  (`Seen`): after an overflow it handles those there are and then resets, and the
  difference matters only if the finishing event is among them, because otherwise
  the transaction ends uncertain.
* `ReachInv`: the host is between the start and what was asked, a report in the
  writer thread stays within, and the queued report's rest leads exactly to the
  end of the way (`Heads`).
* `FullInv`: after an overflow no event is added before the loop has taken the
  others, so `Seen` is a prefix of what the writer thread made.

The sum over a sequence of events would need induction. `Totals` asks for a function
of running sums instead, which each step extends, shortens or shifts
(`TotalsAppend`, `TotalsPrefix`, `TotalsTail`); only `TotalsQuiet`, that events
without motion change no sum, needs a least element (`Least`).

The same module proves `PressReleased`. Two invariants carry it:

* `FlagsInv`: the flags and the stage agree (a press to be released in `Hold` and
  `Release`, none before, a released one after), and whatever is around of the
  transaction, in the queue, the writer thread or the events, is of the stage that
  waits for it. Each action has a lemma: a tick enters a stage that has nothing
  around, an accepted report is of the stage it is made for, and an event that
  finishes a stage is the last of it.
* `TargetInv`: when the press is over (its release has been accepted, or the
  transaction has ended), the masks the queue leads to schedule nothing, or a
  release is owed, or the reset is the loop's next call. A transaction that ends
  anywhere between its press and its release does so with a reset; an accepted
  release is the last entry of the queue, and when it has been written its masks
  are the ones in force.

And `CompletedHasHappened`: `CompletedHappened` in every state of the first layout
(`OneLayout`), whatever is cancelled, fails, is lost or is written late in it.

* `HostInv`: unless a release is owed or queued, the host shows exactly the physical
  buttons of the last report and the masks in force, and no report of a command that
  has been cleared is in the writer thread. This is where one layout is needed: after
  a change the host may show buttons the mixer has forgotten.
* `ClickInv`: a transaction in `Hold` or before its release has its button in the
  masks in force, its press is in the writer thread as an edge (the button is in the
  report and not on the host) unless the report is marked blocked, and its release as
  the opposite edge. That the button does not come back by the physical mouse in
  between is `ButtonInv`: until activity is noticed every report shows the buttons
  received when the transaction was taken.
* `DoneInv`: once the event that ends the return is on its way the host is where it
  started (`Heads`), and an active transaction is not uncertain; so completing, by
  that event or by a delay with nothing left to return, tells the truth.

**Model-checked only.** Liveness under fairness is beyond the proof system used
here: `QueueDrains`, `PhysicalDrains`, `ReleaseCompletes`, `CommandsEnd`,
`SilenceReleases`, `TransactionEnds`. `ClicksHappened` and
`CompletedHappened` are false over several layouts (finding `server_release`): a
layout change drops a release, a new transaction is taken as if it had been written,
and its press is no edge, because the host still shows the button. The second is
proved within one layout, the first is checked within one.

## 5. What could come next

A proof of `ClicksHappened` within one layout, along the lines of `CompletedHasHappened`:
the facts about the host's buttons are the same, the click's own transactions replace the
mover's. A module for the descriptor parser's bit arithmetic. The composition of
`ReliableCommands` with `UdpServer`, instead of work that ends at any time, is too large
for TLC even at one click.

## 6. Not modelled

* Pure I/O: libusb, raw-gadget, capture files; start-up, options, signals.
* Byte encodings and parsing (`click_protocol.h`, `move_protocol.h`, the parser in
  `mouse_protocol.h`), statistics, the wording of replies.
* Telemetry and UPQ1: they read the state and change nothing the rest reads.
* More than one mouse endpoint at a time, the threads of other endpoints and the
  global `please_stop_eps`; the delivery of SIGUSR1 to a thread that is about to
  block. Both are listed as hazards: the code has them, nothing in the repository
  says otherwise, and a model would only restate them.
* The second motion axis, wheel and pan (they follow the same rules as the one
  modelled); wrap-around of 64-bit counters.
* Clocks: each time limit may have passed whenever it is looked at, except that
  lists in the order of their stamps lose their first entries first.

## 7. Running

    tlc -workers 2 -config mixer_motion.cfg MCMouseMixer
    tlc -workers 2 -config mixer_refines.cfg MCMouseMixer
    tlc -workers 2 -config server_rest.cfg MCUdpServer
    tlc -workers 2 -config mover_ledger.cfg MCMoveServer
    tlc -workers 2 -config sessions.cfg MCSessions
    tlapm MoveLedger_proofs.tla

`PROJECT.json` lists the module, configuration and properties of every run, the
mutants, and the source lines each definition stands for.
