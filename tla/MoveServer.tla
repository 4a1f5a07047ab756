------------------------------ MODULE MoveServer ------------------------------
(***************************************************************************)
(* Movement transactions: MoveExecutor of move_executor.h in the server    *)
(* loop that drives it.  A transaction moves out, settles, may wait for    *)
(* its client, may click, and returns by what was written; it is the only  *)
(* owner of synthetic output while it is active, and physical activity,    *)
(* another endpoint, a failed write or its deadline end it.                *)
(*                                                                         *)
(* The loop is UdpServer's: each of its actions is taken with what it does *)
(* to the mover.  Clicks and text commands, refused while a transaction is *)
(* active and refusing one while they are under way, are left out.         *)
(***************************************************************************)
EXTENDS UdpServer

CONSTANTS
  Requests   \* transactions: distance on one axis, button, midpoint wait

NoButton == 0

ASSUME MoveInputs ==
  Requests \subseteq [dx : Int, button : {NoButton, ClickButton}, wait : BOOLEAN]

VARIABLES
  mover,     \* request_, ack_ and flags of MoveExecutor
  ticked,    \* mover.tick() has been called in this turn of the loop
  disturbed, \* the endpoint's activity is not activity_ any more
  received,  \* the physical buttons last received, while undisturbed
  landed     \* history: what the host has seen of the transaction

moverVars == <<mover, ticked, disturbed, received, landed>>
moveVars == <<vars, moverVars>>

Idle == [status |-> "Invalid", stage |-> "Idle", key |-> NoKey, generation |-> 0,
         button |-> NoButton, dx |-> 0, wait |-> FALSE, out |-> 0, back |-> 0,
         uncertain |-> FALSE, pressed |-> FALSE, released |-> FALSE,
         pending |-> FALSE, continued |-> FALSE, cancelled |-> FALSE]
NothingLanded == [net |-> 0, press |-> FALSE, release |-> FALSE]

Transactions == Forced \ {"RELEASE_ALL"}
Active == mover.status = "Active"
Residual(m) == m.out + m.back

-----------------------------------------------------------------------------
(* MoveExecutor, as functions of its state.                                *)

Enter(m, stage) == [m EXCEPT !.stage = stage]

(* Mutant: a report still to be written is not told of.                    *)
StopCertain(m, reason) ==
  IF m.status # "Active" THEN m
  ELSE [m EXCEPT !.status = reason, !.stage = "Done", !.pending = FALSE]

(* Mutant: an ended transaction is stopped again.                          *)
StopAgain(m, reason) ==
  [m EXCEPT !.status = reason, !.stage = "Done", !.pending = FALSE,
            !.uncertain = @ \/ m.pending]

(* stop()                                                                  *)
StopMover(m, reason) ==
  IF m.status # "Active" THEN m
  ELSE [m EXCEPT !.status = reason, !.stage = "Done", !.pending = FALSE,
                 !.uncertain = @ \/ m.pending]

Finished(m) ==
  [m EXCEPT !.status = IF m.cancelled THEN "Cancelled" ELSE "Completed", !.stage = "Done"]

(* Mutant: a press that was hidden counts.                                 *)
AdvanceBlind(m, e) ==
  CASE e.kind = "TRANSACTION_OUT" -> Enter(m, "Settle")
    [] e.kind = "TRANSACTION_PRESS" -> [Enter(m, "Hold") EXCEPT !.pressed = TRUE]
    [] e.kind = "TRANSACTION_RELEASE" -> [Enter(m, "Delay") EXCEPT !.released = TRUE]
    [] e.kind = "TRANSACTION_RETURN" -> Finished(m)

(* The rest of event() once a stage's report has been written in full.     *)
Advance(m, e) ==
  CASE e.kind = "TRANSACTION_OUT" -> Enter(m, "Settle")
    [] e.kind = "TRANSACTION_PRESS" ->
         IF e.blocked THEN StopMover(m, "ButtonActive")
         ELSE [Enter(m, "Hold") EXCEPT !.pressed = TRUE]
    [] e.kind = "TRANSACTION_RELEASE" -> [Enter(m, "Delay") EXCEPT !.released = TRUE]
    [] e.kind = "TRANSACTION_RETURN" -> Finished(m)

Credited(m, e) ==
  [m EXCEPT !.out = IF e.kind = "TRANSACTION_OUT" THEN @ + e.motion ELSE @,
            !.back = IF e.kind = "TRANSACTION_RETURN" THEN @ + e.motion ELSE @]

IsFor(e, m) == e.key[1] = m.key /\ e.generation = m.generation

(* Mutant: a stage ends with its first report.                             *)
OnEventUnfinished(m, e) ==
  IF m.status # "Active" \/ ~IsFor(e, m) THEN m
  ELSE IF ~e.success THEN StopMover(m, "WriterFailed")
  ELSE IF e.kind \notin Transactions THEN m
  ELSE Advance([Credited(m, e) EXCEPT !.pending = FALSE], e)

(* event()                                                                 *)
OnEvent(m, e) ==
  IF m.status # "Active" \/ ~IsFor(e, m) THEN m
  ELSE IF ~e.success THEN StopMover(m, "WriterFailed")
  ELSE IF e.kind \notin Transactions THEN m
  ELSE IF ~e.finished THEN Credited(m, e)
  ELSE Advance([Credited(m, e) EXCEPT !.pending = FALSE], e)

(* tick(): a cancelled transaction releases its press, then returns.       *)
Diverted(m) ==
  IF ~m.cancelled \/ m.stage = "Return" THEN m
  ELSE IF m.pressed /\ ~m.released THEN [m EXCEPT !.stage = "Release"]
  ELSE Enter(m, "Delay")

(* The report of a stage that has one.                                     *)
MoverReport(m) ==
  CASE m.stage = "Out" -> Report("TRANSACTION_OUT", m.key, 0, {}, {}, m.button, m.dx, FALSE)
    [] m.stage = "Press" ->
         Report("TRANSACTION_PRESS", m.key, 0, {}, {m.button}, m.button, 0, FALSE)
    [] m.stage = "Release" -> Report("TRANSACTION_RELEASE", m.key, 0, {}, {}, m.button, 0, FALSE)
    [] m.stage = "Return" ->
         Report("TRANSACTION_RETURN", m.key, 0, {}, {}, m.button, -Residual(m), FALSE)

WantsReport(m) == m.stage \in {"Press", "Release", "Return"} \/ (m.stage = "Out" /\ m.dx # 0)

(* The stages that only wait, and where they lead.                         *)
ActionStage(m) == IF m.button # NoButton THEN "Press" ELSE "Delay"

Waited(m) ==
  CASE m.stage = "Out" -> Enter(m, "Settle")
    [] m.stage = "Settle" -> Enter(m, IF m.wait THEN "Waiting" ELSE ActionStage(m))
    [] m.stage = "Waiting" ->
         IF m.continued THEN Enter(m, ActionStage(m))
         ELSE [Enter(m, "Delay") EXCEPT !.cancelled = TRUE]
    [] m.stage = "Hold" -> Enter(m, "Release")
    [] m.stage = "Delay" ->
         IF Residual(m) = 0 THEN Finished(m) ELSE Enter(m, "Return")

-----------------------------------------------------------------------------
(* mover.tick() in the loop, between the watchdog and scheduler_tick().    *)

MoverTurn == pc = "release" /\ ~ticked /\ Active
KeepServer == UNCHANGED <<leaseVars, workVars, latest, releaseVars, loopVars, packets, clicked>>

(* After the tick scheduler_tick() makes no call when there is neither a   *)
(* release nor a click.                                                    *)
Tocked ==
  IF releasePending \/ work # <<>> THEN ticked' = TRUE /\ UNCHANGED pc
  ELSE pc' = "receive" /\ UNCHANGED ticked

(* Why a tick ends the transaction: another endpoint, physical activity,   *)
(* the deadline, which may have passed at any tick.                        *)
EndpointGone == ~ready \/ generation # mover.generation
Over == EndpointGone \/ disturbed
WhyOver == IF EndpointGone THEN "EndpointChanged"
           ELSE IF disturbed THEN "Interrupted" ELSE "Timeout"

(* Mutant: the deadline is not looked at.                                  *)
TickOverOnlyGone ==
  /\ MoverTurn /\ Over
  /\ mover' = StopMover(mover, WhyOver)
  /\ pc' = "moverReset"
  /\ UNCHANGED <<outputVars, ticked, disturbed, received, landed>> /\ KeepServer

TickOver ==
  /\ MoverTurn
  /\ mover' = StopMover(mover, WhyOver)
  /\ pc' = "moverReset"
  /\ UNCHANGED <<outputVars, ticked, disturbed, received, landed>> /\ KeepServer

(* Mutant: what tick() returns is ignored.                                 *)
ResetMoverIgnored ==
  /\ pc = "moverReset"
  /\ pc' = "release" /\ ticked' = TRUE
  /\ UNCHANGED <<outputVars, leaseVars, workVars, latest, releaseVars, tracked, batch, asked,
                 seen, packets, clicked, mover, disturbed, received, landed>>

(* tick() has asked for the release: begin_reset().                        *)
ResetMover ==
  /\ pc = "moverReset"
  /\ BeginReset(FALSE, NoKey, records)
  /\ pc' = "release" /\ ticked' = TRUE
  /\ UNCHANGED <<leaseVars, latest, batch, asked, seen, packets, clicked,
                 mover, disturbed, received, landed>>

(* A report is under way, or the time of the stage has not come.           *)
MayWait(m) ==
  /\ ~m.cancelled
  /\ m.stage \in {"Settle", "Hold", "Delay"} \/ (m.stage = "Waiting" /\ ~m.continued)
TickNothing ==
  /\ MoverTurn /\ ~Over
  /\ \/ mover.pending /\ UNCHANGED mover
     \/ ~mover.pending /\ MayWait(Diverted(mover)) /\ mover' = Diverted(mover)
  /\ Tocked
  /\ UNCHANGED <<outputVars, disturbed, received, landed>> /\ KeepServer

TickStage ==
  /\ MoverTurn /\ ~Over /\ ~mover.pending
  /\ ~WantsReport(Diverted(mover))
  /\ mover' = Waited(Diverted(mover))
  /\ Tocked
  /\ UNCHANGED <<outputVars, disturbed, received, landed>> /\ KeepServer

TickWants ==
  /\ MoverTurn /\ ~Over /\ ~mover.pending
  /\ WantsReport(Diverted(mover))
  /\ mover' = Diverted(mover)
  /\ pc' = "moverReport"
  /\ UNCHANGED <<outputVars, ticked, disturbed, received, landed>> /\ KeepServer

(* enqueue_report() takes a guarded report for the activity and generation *)
(* of the transaction only.                                                *)
Unguarded == disturbed \/ generation # mover.generation

(* Mutant: the transaction forgets that a report is under way.             *)
EnqueueMoverAgain ==
  /\ pc = "moverReport"
  /\ \/ ~Unguarded /\ Accept(MoverReport(mover)) /\ Tocked /\ UNCHANGED mover
     \/ ~Unguarded /\ Refuse("QueueFull") /\ Tocked /\ UNCHANGED mover
     \/ /\ Unguarded \/ ~ready \/ Refuse("Unsupported")
        /\ mover' = StopMover(mover, "EndpointChanged")
        /\ pc' = "moverReset" /\ UNCHANGED <<outputVars, ticked>>
  /\ UNCHANGED <<disturbed, received, landed>> /\ KeepServer

EnqueueMover ==
  /\ pc = "moverReport"
  /\ \/ /\ ~Unguarded /\ Accept(MoverReport(mover))
        /\ mover' = [mover EXCEPT !.pending = TRUE] /\ Tocked
     \/ ~Unguarded /\ Refuse("QueueFull") /\ Tocked /\ UNCHANGED mover
     \/ /\ Unguarded \/ ~ready \/ Refuse("Unsupported")
        /\ mover' = StopMover(mover, "EndpointChanged")
        /\ pc' = "moverReset" /\ UNCHANGED <<outputVars, ticked>>
  /\ UNCHANGED <<disturbed, received, landed>> /\ KeepServer

-----------------------------------------------------------------------------
(* Packets.                                                                *)

(* Mutant: a transaction may start while a release is owed.                *)
SoleOwnerUnreleased ==
  /\ ~Active /\ work = <<>> /\ queue = <<>> /\ ~stale
  /\ persistentButtons \cup scheduledButtons = {} /\ applied = NoMasks

(* Nothing else uses synthetic output, and no report waits to be written.  *)
SoleOwner ==
  /\ ~Active /\ work = <<>> /\ ~releasePending /\ queue = <<>> /\ ~stale
  /\ persistentButtons \cup scheduledButtons = {} /\ applied = NoMasks

(* The physical buttons last received: those of the report in the writer   *)
(* thread, otherwise any: the last report may have failed, or it has been  *)
(* stamped by its reading thread and is not queued yet.  One stamped while *)
(* a report is written is met by an Execute that comes after that write.   *)
LastReceived(down) ==
  wire # <<>> /\ Written.carries /\ Written.generation = generation => down = Written.buttons

(* UPM1 Execute                                                            *)
ReceiveExecute(peer, key, r) ==
  /\ Receive(peer) /\ ~Cached(key) /\ ~Stale(key)
  /\ ready /\ SoleOwner
  /\ \E down \in SUBSET PhysicalButtons :
       /\ LastReceived(down)
       /\ IF r.button = NoButton THEN down = {} ELSE r.button \notin down
       /\ received' = down
  /\ mover' = [Idle EXCEPT !.status = "Active", !.stage = "Out", !.key = key,
                           !.generation = generation, !.dx = r.dx, !.button = r.button,
                           !.wait = r.wait]
  /\ disturbed' = FALSE /\ landed' = NothingLanded
  /\ latest' = key
  /\ Renew(peer) /\ tracked' = generation
  /\ Done
  /\ UNCHANGED <<outputVars, workVars, releaseVars, batch, asked, seen, ticked, clicked>>

(* The same request again, to continue, to cancel or only to ask; also the *)
(* heartbeat of UPX1 without buttons or motion.                            *)
ReceiveControl(peer, operation) ==
  /\ Receive(peer) /\ mover.key # NoKey
  /\ mover' = [mover EXCEPT
                 !.continued = @ \/ (operation = "Continue" /\ Active /\ mover.stage = "Waiting"),
                 !.cancelled = @ \/ (operation = "Cancel" /\ Active)]
  /\ Renew(peer)
  /\ Done
  /\ UNCHANGED <<outputVars, workVars, latest, releaseVars, loopVars, ticked, disturbed,
                 received, landed, clicked>>

MovePacket ==
  \E peer \in Peers :
    \/ \E key \in Keys, r \in Requests : ReceiveExecute(peer, key, r)
    \/ \E operation \in {"Continue", "Cancel", "Query"} : ReceiveControl(peer, operation)

-----------------------------------------------------------------------------
(* The loop's other steps, with what they do to the mover.                 *)

KeepMover == UNCHANGED <<disturbed, received, landed, clicked>>

(* begin_reset() stops it, and so does the end of the loop.                *)
CancelMover == mover' = StopMover(mover, "Cancelled") /\ UNCHANGED ticked /\ KeepMover

LoopStops == (ResetChanged \/ ResetLost \/ (Watchdog /\ Silent)) /\ CancelMover

AskedToStop ==
  /\ Stop \/ \E peer \in Peers, key \in Keys : ReceiveReleaseAll(peer, key)
  /\ CancelMover

(* process_writer_events() shows it every event first.                     *)
MoverFails ==
  /\ HandleFailure
  /\ mover' = StopMover(OnEvent(mover, Event), "Cancelled")
  /\ UNCHANGED ticked /\ KeepMover

MoverProgresses ==
  /\ HandleReleased \/ HandleOther
  /\ mover' = OnEvent(mover, Event)
  /\ UNCHANGED ticked /\ KeepMover

(* scheduler_tick() comes after the mover's.                               *)
Unmoved ==
  /\ \/ Top \/ Resnapshot \/ FetchEvents \/ FetchOverflow \/ TickIdle \/ Timeout
     \/ EnqueueHold \/ LastRelease
     \/ Watchdog /\ ~Silent
     \/ TickRelease /\ (ticked \/ ~Active)
  /\ ticked' = FALSE
  /\ UNCHANGED mover /\ KeepMover

(* A hold is dropped while a transaction is active.                        *)
MoverHold ==
  /\ ~Active
  /\ \E peer \in Peers, next \in Holds, moves \in Moving : ReceiveHold(peer, next, moves, FALSE)
  /\ UNCHANGED <<mover, ticked>> /\ KeepMover

-----------------------------------------------------------------------------
(* Time, the physical mouse and the writer thread.                         *)

MoverLapse == Lapse /\ UNCHANGED moverVars

(* register_mouse_report() of a report that moves or changes buttons.      *)
PhysicalArrives ==
  /\ Active /\ ~disturbed /\ ready
  /\ disturbed' = TRUE /\ received' = {}
  /\ UNCHANGED <<vars, mover, ticked, landed>>

IsForeign(report) == report.kind = "NONE" /\ ~report.carries

(* take_mouse_report() leaves a guarded report whose activity has passed.  *)
GuardHolds ==
  wire' # wire /\ wire'[1].kind \in Transactions => ~disturbed

(* Until activity is noticed physical reports show the buttons received.   *)
SameButtons ==
  wire' # wire /\ wire'[1].carries /\ wire'[1].generation = generation /\ ~disturbed
    => wire'[1].buttons = received

(* Reports of another report id, which only keep the writer busy, are left *)
(* out.                                                                    *)
WriterTakesGuarded ==
  /\ WriterTakes /\ (wire' # wire => ~IsForeign(wire'[1])) /\ GuardHolds /\ SameButtons
  /\ UNCHANGED <<serverVars, clicked, moverVars>>

(* What the host sees of the transaction's report.                         *)
Land(success) ==
  landed' = IF ~success \/ Written.kind \notin Transactions \/ Written.key[1] # mover.key
            THEN landed
            ELSE [net |-> landed.net + Written.motion,
                  press |-> landed.press \/
                    (Written.kind = "TRANSACTION_PRESS" /\ mover.button \in host' \ host),
                  release |-> landed.release \/
                    (Written.kind = "TRANSACTION_RELEASE" /\ mover.button \in host \ host')]

WriterLands ==
  /\ \E success \in BOOLEAN : Finish(success) /\ Land(success)
  /\ UNCHANGED <<serverVars, clicked, mover, ticked, disturbed, received>>

EndpointActs ==
  /\ \/ Tell \/ BecomeReady \/ Discard
     \/ (generation = 0 \/ Spent < PacketLimit) /\ Reset
  /\ UNCHANGED <<serverVars, clicked, moverVars>>

-----------------------------------------------------------------------------
MoveInit ==
  /\ Init
  /\ mover = Idle /\ ticked = FALSE /\ disturbed = TRUE /\ received = {}
  /\ landed = NothingLanded

(* The loop's own steps, without packets.                                  *)
MoveLoop ==
  \/ TickOver \/ ResetMover \/ TickNothing \/ TickStage \/ TickWants
  \/ EnqueueMover \/ MoverFails \/ MoverProgresses \/ LoopStops
  \/ Unmoved

MoveNext ==
  \/ MoveLoop \/ AskedToStop \/ MovePacket \/ MoverHold
  \/ MoverLapse \/ PhysicalArrives
  \/ WriterTakesGuarded \/ WriterLands \/ EndpointActs

MoveSpec == MoveInit /\ [][MoveNext]_moveVars

-----------------------------------------------------------------------------
(* Properties.                                                             *)

Stages == {"Idle", "Out", "Settle", "Waiting", "Press", "Hold", "Release", "Delay",
           "Return", "Done"}

(* The mover's fields have their types, and an active transaction is the   *)
(* sole owner of synthetic output: no click, hold or release beside it.    *)
MoveTypeOK ==
  /\ TypeOK
  /\ mover.stage \in Stages /\ mover.key \in Keys \cup {NoKey}
  /\ mover.generation \in 0 .. generation
  /\ Active =>
       /\ ~releasePending /\ work = <<>> /\ persistentButtons \cup scheduledButtons = {}
       /\ \A j \in DOMAIN queue : queue[j].kind \in Transactions

(* What the client is told of a transaction that has ended is what the     *)
(* host was moved, unless it is flagged uncertain: USAGE.md, 'residual is  *)
(* outward plus return'.                                                   *)
LedgerHonest ==
  ~Active /\ mover.key # NoKey /\ ~mover.uncertain => Residual(mover) = landed.net

(* The host is never further out than asked, nor back beyond the start,    *)
(* whatever was lost, stopped or written late.                             *)
NeverOvershoots ==
  landed.net \in IF mover.dx >= 0 THEN 0 .. mover.dx ELSE mover.dx .. 0

(* The flags and the status completed are about what the host has seen:    *)
(* a press and a release of a button that was up, and the way back.        *)
CompletedHappened ==
  /\ mover.pressed => landed.press
  /\ mover.released => landed.release
  /\ mover.status = "Completed" =>
       /\ landed.net = 0 /\ ~mover.uncertain
       /\ mover.button # NoButton => landed.press /\ landed.release

(* A transaction that waits for its report has one: it is queued, being    *)
(* written or told of, or the loop will learn that it is gone.             *)
OwnReport(kind, key) == kind \in Transactions /\ key[1] = mover.key
Answers(e) == ~e.success \/ (e.finished /\ OwnReport(e.kind, e.key))
PendingIsUnderway ==
  Active /\ mover.pending =>
    \/ \E j \in DOMAIN queue : OwnReport(queue[j].kind, queue[j].key)
    \/ \E e \in {told[j] : j \in DOMAIN told} \cup {events[j] : j \in DOMAIN events}
               \cup {batch[j] : j \in DOMAIN batch} : Answers(e)
    \/ overflow \/ pc = "lost"
    \/ generation # mover.generation

(* What is told of an ended transaction stays: late events, repeated       *)
(* packets and resets change nothing of it.                                *)
OutcomeIsFinal ==
  [][~Active /\ mover.key # NoKey => mover' = mover \/ mover'.key # mover.key]_moveVars

(* USAGE.md says that Cancel 'releases any synthetic press': once all is   *)
(* written and told and no release is owed, a cancelled transaction leaves *)
(* none.                                                                   *)
MoveAtRest ==
  /\ pc = "receive" /\ ~releasePending /\ tracked = generation
  /\ queue = <<>> /\ wire = <<>> /\ told = <<>> /\ events = <<>> /\ ~overflow
CancelReleasesPress ==
  ~Active /\ mover.cancelled /\ MoveAtRest => applied.scheduled = {}

(* What does hold: a press the client is told of is released however the   *)
(* transaction ends, by its own release or by the reset's.                 *)
PressIsReleased ==
  ~Active /\ mover.pressed /\ MoveAtRest => applied.scheduled = {}

(* A guarded report whose activity has passed is never taken and blocks    *)
(* the queue: one that is queued belongs to the transaction that waits for *)
(* it, or the reset that clears it is the loop's next call.                *)
GuardedIsOwned ==
  \A j \in DOMAIN queue :
    queue[j].kind \in Transactions =>
      \/ Active /\ mover.pending /\ OwnReport(queue[j].kind, queue[j].key)
      \/ pc \in {"moverReset", "stopping"}

(* The loop goes round, and of the ticks of an active transaction one      *)
(* finds the deadline passed.  Nothing is asked of the writer thread.      *)
MoveFairness == WF_moveVars(MoveLoop) /\ SF_moveVars(TickOver)
MoveFairSpec == MoveSpec /\ MoveFairness

(* A transaction ends, at its deadline if nothing ends it before.          *)
TransactionEnds == [](Active => <>(~Active \/ Stopped))
=============================================================================
