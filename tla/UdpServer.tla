------------------------------ MODULE UdpServer ------------------------------
(***************************************************************************)
(* UdpServer::server_loop() of udp_server.cpp on top of the mixer: leases, *)
(* holds, click commands and their records, and the release obligation.    *)
(*                                                                         *)
(* The loop is one thread; what it shares with the endpoint's threads it   *)
(* reaches through the functions of mouse_mixer.h, each under a lock of    *)
(* its own.  Every such call is a step, together with the loop's local     *)
(* work up to the next call, and pc says which call is next: between two   *)
(* of them the output (SyntheticOutput) may do anything it can.            *)
(*                                                                         *)
(* Packets are those of one client session with increasing command         *)
(* numbers, from any of Peers, duplicated at will, and the text commands.  *)
(* No movement transaction is among them, so the mover is idle throughout  *)
(* and its calls do nothing.  Timeouts are choices: the lease lapses, a    *)
(* click's delay passes.                                                   *)
(***************************************************************************)
EXTENDS SyntheticOutput, FiniteSets

CONSTANTS
  Peers,        \* UDP addresses
  ClickButton,  \* the button of every click
  Holds,        \* the button sets a peer may ask to be held
  Moving,       \* whether a hold packet may carry motion
  Counts,       \* clicks per command
  CommandLimit, \* bound: command numbers a client uses
  ClickLimit,   \* MAX_CLICK_COMMANDS
  RecordLimit,  \* MAX_CACHE_RECORDS
  PacketLimit   \* bound: packets that change something, and changes of the endpoint

ASSUME ServerLimits ==
  /\ CommandLimit \in Nat /\ PacketLimit \in Nat
  /\ ClickLimit \in Nat \ {0} /\ RecordLimit \in Nat \ {0}
  /\ Counts \subseteq Nat \ {0} /\ Moving \subseteq BOOLEAN

VARIABLES
  pc,          \* the next call of the loop
  tracked,     \* tracked_generation, 0 at first
  persistentButtons, scheduledButtons,
  owner,       \* the peer that holds the lease, or NoPeer
  lapsed,      \* 250 ms have gone since its last packet
  work,        \* the click commands under way
  records,     \* the command cache
  latest,      \* the highest command number accepted (session_tracker.h)
  releasePending, releaseInflight, releaseKey,
  batch,       \* writer events taken and not yet handled
  asked,       \* a hold request whose report has still to be enqueued
  seen,        \* the snapshot's generation, used after the call
  packets,     \* history: packets received
  clicked      \* history: clicks of a command the host has seen, press to release

releaseVars == <<releasePending, releaseInflight, releaseKey>>
leaseVars == <<owner, lapsed>>
workVars == <<persistentButtons, scheduledButtons, work, records>>
loopVars == <<tracked, batch, asked, seen>>
serverVars == <<pc, leaseVars, workVars, latest, releaseVars, loopVars, packets>>
vars == <<outputVars, serverVars, clicked>>

NoPeer == "no peer"
NoKey == 0        \* the key of text commands and of resets nobody asked for
Keys == 1 .. CommandLimit
NoRequest == [peer |-> NoPeer, next |-> {}, moves |-> FALSE, text |-> FALSE]

-----------------------------------------------------------------------------
(* Commands for the mixer.  A report is known by its command's key and the *)
(* number of the click.                                                    *)
Report(kind, key, index, persistent, scheduled, button, motion, supersedes) ==
  [kind |-> kind, key |-> <<key, index>>, persistent |-> persistent,
   scheduled |-> scheduled, button |-> button, x |-> motion, latest |-> supersedes]

ReleaseReport == Report("RELEASE_ALL", releaseKey, 0, {}, {}, 0, 0, FALSE)

PressReport(click) ==
  Report("CLICK_PRESS", click.key, click.index, persistentButtons,
         scheduledButtons \cup {click.button}, click.button, 0, FALSE)

EdgeReport(click) ==
  Report("CLICK_RELEASE", click.key, click.index, persistentButtons,
         scheduledButtons \ {click.button}, click.button, 0, FALSE)

(* A hold that changes nothing is a movement; only a packet's may be       *)
(* superseded.                                                             *)
HoldReport(r) ==
  Report(IF r.next # persistentButtons THEN "PERSISTENT" ELSE "MOVEMENT", NoKey, 0,
         r.next, scheduledButtons, 0, IF r.moves THEN 1 ELSE 0,
         ~r.text /\ r.next = persistentButtons)

-----------------------------------------------------------------------------
(* The command cache.                                                      *)

Record(key, kind, count) ==
  [key |-> key, kind |-> kind, count |-> count, completed |-> 0,
   status |-> "accepted", terminal |-> FALSE]

Cached(key) == \E j \in DOMAIN records : records[j].key = key

(* terminal(): the records of these keys end with this status.             *)
Ended(recs, keys, status) ==
  [j \in DOMAIN recs |-> IF recs[j].key \in keys
                         THEN [recs[j] EXCEPT !.status = status, !.terminal = TRUE]
                         ELSE recs[j]]

(* remove_old_cache(): the oldest terminal record makes room.              *)
Terminals == {j \in DOMAIN records : records[j].terminal}
Room == Len(records) < RecordLimit \/ Terminals # {}
Trimmed ==
  IF Len(records) < RecordLimit THEN records
  ELSE LET j == CHOOSE i \in Terminals : \A o \in Terminals : i <= o
       IN SubSeq(records, 1, j - 1) \o SubSeq(records, j + 1, Len(records))

(* sessions.stale()                                                        *)
Stale(key) == key <= latest

-----------------------------------------------------------------------------
(* Resets.                                                                 *)

(* Mutant: cancelled clicks keep their records open.                       *)
NoWorkKeys == {}

WorkKeys == {work[j].key : j \in DOMAIN work} \ {NoKey}

(* begin_reset() with the records recs: clicks and holds go, the mixer is  *)
(* cleared and a release is owed, under the key of the command that asked  *)
(* for it.                                                                 *)
BeginReset(attach, key, recs) ==
  /\ LET superseded == IF attach /\ releaseKey # key THEN {releaseKey} \ {NoKey} ELSE {}
     IN records' = Ended(recs, superseded \cup WorkKeys, "cancelled")
  /\ work' = <<>>
  /\ persistentButtons' = {} /\ scheduledButtons' = {}
  /\ Clear
  /\ tracked' = generation
  /\ releaseInflight' = FALSE /\ releasePending' = TRUE
  /\ releaseKey' = IF attach THEN key ELSE releaseKey

LoseOwner == owner' = NoPeer /\ lapsed' = FALSE
Renew(peer) == owner' = peer /\ lapsed' = FALSE

(* Mutant: a click that has ended stays in the queue.                      *)
FinishFrontStays(status) ==
  /\ work' = work
  /\ scheduledButtons' = {}
  /\ records' = Ended(records, {Head(work).key} \ {NoKey}, status)

(* finish_front()                                                          *)
FinishFront(status) ==
  /\ work' = Tail(work)
  /\ scheduledButtons' = {}
  /\ records' = Ended(records, {Head(work).key} \ {NoKey}, status)

-----------------------------------------------------------------------------
(* The top of the loop.                                                    *)

(* endpoint_snapshot(): the first endpoint is tracked, and another         *)
(* generation is noticed.                                                  *)
Top ==
  /\ pc = "top"
  /\ tracked' = IF tracked = 0 /\ ready THEN generation ELSE tracked
  /\ pc' = IF tracked \notin {0, generation} THEN "changed" ELSE "events"
  /\ UNCHANGED <<outputVars, leaseVars, workVars, latest, releaseVars, batch, asked,
                 seen, packets>>

(* The generation has changed: begin_reset() and another snapshot.         *)
ResetChanged ==
  /\ pc = "changed"
  /\ BeginReset(FALSE, NoKey, records) /\ LoseOwner
  /\ pc' = "snapshot"
  /\ UNCHANGED <<latest, batch, asked, seen, packets>>

Resnapshot ==
  /\ pc = "snapshot"
  /\ tracked' = generation
  /\ pc' = "events"
  /\ UNCHANGED <<outputVars, leaseVars, workVars, latest, releaseVars, batch, asked,
                 seen, packets>>

(* process_writer_events() takes them all, then handles them one by one.   *)
FetchEvents ==
  /\ pc = "events"
  /\ TakeEvents
  /\ batch' = events
  /\ pc' = IF events = <<>> THEN "overflow" ELSE "handle"
  /\ UNCHANGED <<leaseVars, workVars, latest, releaseVars, tracked, asked, seen, packets>>

AfterEvent == batch' = Tail(batch) /\ pc' = IF Len(batch) = 1 THEN "overflow" ELSE "handle"

Event == Head(batch)

(* Mutant: the release need not be the one that has been enqueued.         *)
IsReleaseLate ==
  /\ Event.kind = "RELEASE_ALL"
  /\ Event.key[1] = releaseKey

IsRelease ==
  /\ Event.kind = "RELEASE_ALL" /\ releaseInflight
  /\ Event.key[1] = releaseKey

IsOfClick == work # <<>> /\ Event.key = <<Head(work).key, Head(work).index>>
IsPress == IsOfClick /\ Event.kind = "CLICK_PRESS" /\ Head(work).phase = "PressInflight"
IsEdge == IsOfClick /\ Event.kind = "CLICK_RELEASE" /\ Head(work).phase = "ReleaseInflight"

(* A write failed.                                                         *)
HandleFailure ==
  /\ pc = "handle" /\ ~Event.success
  /\ BeginReset(FALSE, NoKey, records) /\ LoseOwner
  /\ AfterEvent
  /\ UNCHANGED <<latest, asked, seen, packets>>

(* The final release has been written.                                     *)
HandleReleased ==
  /\ pc = "handle" /\ Event.success /\ IsRelease
  /\ releaseInflight' = FALSE /\ releasePending' = FALSE /\ releaseKey' = NoKey
  /\ records' = Ended(records, {releaseKey} \ {NoKey}, "completed")
  /\ AfterEvent
  /\ UNCHANGED <<outputVars, leaseVars, persistentButtons, scheduledButtons, work,
                 latest, tracked, asked, seen, packets>>

(* A press has been written: its delay runs, unless the button was already *)
(* visible.                                                                *)
HandlePressed ==
  /\ pc = "handle" /\ Event.success /\ ~IsRelease /\ IsPress
  /\ work' = [work EXCEPT ![1].blocked = Event.blocked, ![1].due = Event.blocked,
                          ![1].phase = IF Event.blocked THEN "AwaitRelease" ELSE "Holding"]
  /\ AfterEvent
  /\ UNCHANGED <<outputVars, leaseVars, persistentButtons, scheduledButtons, records,
                 latest, releaseVars, tracked, asked, seen, packets>>

(* Mutant: a click of a button that was down all the time is counted.      *)
HiddenEdgeIgnored == FALSE

(* The release edge left the button visible: no click.                     *)
HiddenEdge == Head(work).blocked \/ Head(work).button \in Event.final

Counted(recs, key) ==
  [j \in DOMAIN recs |-> IF recs[j].key = key
                         THEN [recs[j] EXCEPT !.completed = Head(work).index + 1]
                         ELSE recs[j]]

(* A release edge has been written: the click is done, and so may be the   *)
(* command.                                                                *)
HandleClicked ==
  /\ pc = "handle" /\ Event.success /\ ~IsRelease /\ IsEdge
  /\ \/ HiddenEdge /\ FinishFront("button_active")
     \/ /\ ~HiddenEdge /\ Head(work).index + 1 >= Head(work).count
        /\ work' = Tail(work)
        /\ scheduledButtons' = {}
        /\ records' = Ended(Counted(records, Head(work).key),
                            {Head(work).key} \ {NoKey}, "completed")
     \/ /\ ~HiddenEdge /\ Head(work).index + 1 < Head(work).count
        /\ work' = [work EXCEPT ![1].index = @ + 1, ![1].phase = "AwaitPress",
                                ![1].blocked = FALSE, ![1].due = FALSE]
        /\ records' = Counted(records, Head(work).key)
        /\ UNCHANGED scheduledButtons
  /\ AfterEvent
  /\ UNCHANGED <<outputVars, leaseVars, persistentButtons, latest, releaseVars, tracked,
                 asked, seen, packets>>

HandleOther ==
  /\ pc = "handle" /\ Event.success /\ ~IsRelease /\ ~IsPress /\ ~IsEdge
  /\ AfterEvent
  /\ UNCHANGED <<outputVars, leaseVars, workVars, latest, releaseVars, tracked, asked,
                 seen, packets>>

(* Mutant: the loss of events is ignored.                                  *)
FetchOverflowIgnored ==
  /\ pc = "overflow"
  /\ TakeOverflow
  /\ pc' = "watchdog"
  /\ UNCHANGED <<leaseVars, workVars, latest, releaseVars, loopVars, packets>>

FetchOverflow ==
  /\ pc = "overflow"
  /\ TakeOverflow
  /\ pc' = IF overflow THEN "lost" ELSE "watchdog"
  /\ UNCHANGED <<leaseVars, workVars, latest, releaseVars, loopVars, packets>>

(* Events have been lost.                                                  *)
ResetLost ==
  /\ pc = "lost"
  /\ BeginReset(FALSE, NoKey, records) /\ LoseOwner
  /\ pc' = "watchdog"
  /\ UNCHANGED <<latest, batch, asked, seen, packets>>

(* Mutant: only an owner with clicks under way is watched.                 *)
SilentClicker == owner # NoPeer /\ lapsed /\ work # <<>>

(* The owner has been silent for 250 ms.                                   *)
Silent == owner # NoPeer /\ lapsed

Watchdog ==
  /\ pc = "watchdog"
  /\ pc' = "release"
  /\ IF Silent
     THEN BeginReset(FALSE, NoKey, records) /\ LoseOwner
     ELSE UNCHANGED <<outputVars, leaseVars, workVars, releaseVars, tracked>>
  /\ UNCHANGED <<latest, batch, asked, seen, packets>>

-----------------------------------------------------------------------------
(* scheduler_tick()                                                        *)

(* The release is enqueued, or tried again at the next tick.               *)
TickRelease ==
  /\ pc = "release"
  /\ pc' = "click"
  /\ \/ ~(releasePending /\ ~releaseInflight) /\ UNCHANGED <<outputVars, releaseInflight>>
     \/ /\ releasePending /\ ~releaseInflight
        /\ \/ Accept(ReleaseReport) /\ releaseInflight' = TRUE
           \/ \E why \in {"NotReady", "QueueFull"} : Refuse(why) /\ UNCHANGED releaseInflight
  /\ UNCHANGED <<leaseVars, workVars, latest, releasePending, releaseKey, loopVars, packets>>

(* A click that has something to do now.                                   *)
Ticking(phases) ==
  /\ pc = "click"
  /\ work # <<>> /\ ~releasePending
  /\ Head(work).due /\ Head(work).phase \in phases

TickIdle ==
  /\ pc = "click"
  /\ ~Ticking({"AwaitPress", "Holding", "AwaitRelease"})
  /\ pc' = "receive"
  /\ UNCHANGED <<outputVars, leaseVars, workVars, latest, releaseVars, loopVars, packets>>

(* endpoint_snapshot() before a press: the endpoint has changed, or the    *)
(* button is down, or the press may go.                                    *)
TickSnapshot ==
  /\ Ticking({"AwaitPress"})
  /\ \E down \in SUBSET PhysicalButtons :
       \/ /\ ~ready \/ generation # tracked
          /\ pc' = "unfit" /\ UNCHANGED workVars
       \/ /\ ready /\ generation = tracked
          /\ Head(work).button \in down \cup persistentButtons \cup scheduledButtons
          /\ FinishFront("button_active") /\ pc' = "receive"
          /\ UNCHANGED persistentButtons
       \/ /\ ready /\ generation = tracked
          /\ Head(work).button \notin down \cup persistentButtons \cup scheduledButtons
          /\ pc' = "press" /\ UNCHANGED workVars
  /\ UNCHANGED <<outputVars, leaseVars, latest, releaseVars, loopVars, packets>>

(* begin_reset() because the endpoint or its layout does not fit.          *)
ResetUnfit ==
  /\ pc = "unfit"
  /\ BeginReset(FALSE, NoKey, records)
  /\ pc' = "receive"
  /\ UNCHANGED <<leaseVars, latest, batch, asked, seen, packets>>

TickPress ==
  /\ pc = "press"
  /\ \/ /\ Accept(PressReport(Head(work)))
        /\ scheduledButtons' = scheduledButtons \cup {Head(work).button}
        /\ work' = [work EXCEPT ![1].phase = "PressInflight"]
        /\ pc' = "receive"
     \/ /\ \E why \in Refusals :
             Refuse(why) /\ pc' = IF why = "Unsupported" THEN "unfit" ELSE "receive"
        /\ UNCHANGED <<scheduledButtons, work>>
  /\ UNCHANGED <<leaseVars, persistentButtons, records, latest, releaseVars, loopVars, packets>>

TickEdge ==
  /\ Ticking({"Holding", "AwaitRelease"})
  /\ \/ /\ Accept(EdgeReport(Head(work)))
        /\ scheduledButtons' = scheduledButtons \ {Head(work).button}
        /\ work' = [work EXCEPT ![1].phase = "ReleaseInflight"]
        /\ pc' = "receive"
     \/ /\ Refuse("Unsupported") /\ pc' = "unfit"
        /\ UNCHANGED <<scheduledButtons, work>>
     \/ /\ \E why \in {"NotReady", "QueueFull"} : Refuse(why)
        /\ work' = [work EXCEPT ![1].phase = "AwaitRelease"]
        /\ pc' = "receive"
        /\ UNCHANGED scheduledButtons
  /\ UNCHANGED <<leaseVars, persistentButtons, records, latest, releaseVars, loopVars, packets>>

-----------------------------------------------------------------------------
(* Packets.  One that is refused changes nothing and is left out.          *)

Timeout ==
  /\ pc = "receive"
  /\ pc' = "top"
  /\ UNCHANGED <<outputVars, leaseVars, workVars, latest, releaseVars, loopVars, packets>>

(* What the bound counts: packets, and endpoints after the first.          *)
Spent == packets + (IF generation = 0 THEN 0 ELSE generation - 1)

(* A packet of a peer that does not collide with the owner.                *)
Receive(peer) ==
  /\ pc = "receive"
  /\ Spent < PacketLimit /\ packets' = packets + 1
  /\ owner \in {NoPeer, peer}
Done == pc' = "top"

Click(key, count) ==
  [key |-> key, button |-> ClickButton, count |-> count, index |-> 0,
   phase |-> "AwaitPress", due |-> TRUE, blocked |-> FALSE]

(* The snapshot shows neither the physical nor the held button.            *)
ButtonFree ==
  /\ ClickButton \notin persistentButtons
  /\ \E down \in SUBSET PhysicalButtons : ClickButton \notin down

(* Mutant: one more than the limit.                                        *)
WorkRoomOneMore == Len(work) <= ClickLimit

WorkRoom == Len(work) < ClickLimit

(* UPC1 Schedule                                                           *)
ReceiveSchedule(peer, key, count) ==
  /\ Receive(peer) /\ ~Cached(key) /\ ~Stale(key)
  /\ ready /\ ButtonFree
  /\ WorkRoom /\ Room
  /\ records' = Append(Trimmed, Record(key, "schedule", count))
  /\ work' = Append(work, Click(key, count))
  /\ latest' = key
  /\ Renew(peer) /\ tracked' = generation
  /\ Done
  /\ UNCHANGED <<outputVars, persistentButtons, scheduledButtons, releaseVars, batch,
                 asked, seen>>

(* UPC1 ReleaseAll                                                         *)
ReceiveReleaseAll(peer, key) ==
  /\ Receive(peer) /\ ~Cached(key) /\ ~Stale(key)
  /\ Room
  /\ BeginReset(TRUE, key, Append(Trimmed, Record(key, "release", 0)))
  /\ latest' = key
  /\ Renew(peer)
  /\ Done
  /\ UNCHANGED <<batch, asked, seen>>

(* A UPC1 packet again, or a UPX1 packet without motion or transition:     *)
(* only the lease is renewed.                                              *)
ReceiveAgain(peer, key) ==
  /\ Receive(peer) /\ Cached(key)
  /\ Renew(peer)
  /\ Done
  /\ UNCHANGED <<outputVars, workVars, latest, releaseVars, loopVars>>

ReceiveKeepalive(peer) ==
  /\ Receive(peer)
  /\ ready
  /\ Renew(peer) /\ tracked' = generation
  /\ Done
  /\ UNCHANGED <<outputVars, workVars, latest, releaseVars, batch, asked, seen>>

(* A UPX1 packet with motion or a transition, or a text command for motion *)
(* or buttons: endpoint_snapshot(), then enqueue_report().                 *)
ReceiveHold(peer, next, moves, text) ==
  /\ Receive(peer)
  /\ ready
  /\ text \/ moves \/ next # persistentButtons
  /\ asked' = [peer |-> peer, next |-> next, moves |-> moves, text |-> text]
  /\ seen' = generation
  /\ pc' = "hold"
  /\ UNCHANGED <<outputVars, leaseVars, workVars, latest, releaseVars, tracked, batch>>

EnqueueHold ==
  /\ pc = "hold"
  /\ Done
  /\ \/ /\ Accept(HoldReport(asked))
        /\ persistentButtons' = asked.next
        /\ Renew(asked.peer) /\ tracked' = seen
     \/ /\ \E why \in Refusals : Refuse(why)
        /\ UNCHANGED <<persistentButtons, leaseVars, tracked>>
  /\ asked' = NoRequest /\ seen' = 0
  /\ UNCHANGED <<scheduledButtons, work, records, latest, releaseVars, batch, packets>>

(* +release                                                                *)
ReceiveTextRelease(peer) ==
  /\ Receive(peer)
  /\ BeginReset(FALSE, NoKey, records)
  /\ Renew(peer)
  /\ Done
  /\ UNCHANGED <<latest, batch, asked, seen>>

(* +click                                                                  *)
ReceiveTextClick(peer) ==
  /\ Receive(peer)
  /\ ready /\ ButtonFree
  /\ WorkRoom
  /\ work' = Append(work, Click(NoKey, 1))
  /\ Renew(peer) /\ tracked' = generation
  /\ Done
  /\ UNCHANGED <<outputVars, persistentButtons, scheduledButtons, records, latest,
                 releaseVars, batch, asked, seen>>

-----------------------------------------------------------------------------
(* The end of the loop: work is cancelled, the mixer cleared, and one      *)
(* release enqueued.                                                       *)
Stop ==
  /\ pc = "top"
  /\ pc' = "stopping"
  /\ records' = Ended(records, WorkKeys, "cancelled")
  /\ work' = <<>> /\ persistentButtons' = {} /\ scheduledButtons' = {}
  /\ Clear
  /\ UNCHANGED <<leaseVars, latest, releaseVars, loopVars, packets>>

LastRelease ==
  /\ pc = "stopping"
  /\ pc' = "stopped"
  /\ \/ Accept(Report("RELEASE_ALL", NoKey, 0, {}, {}, 0, 0, FALSE))
     \/ \E why \in {"NotReady", "QueueFull"} : Refuse(why)
  /\ UNCHANGED <<leaseVars, workVars, latest, releaseVars, loopVars, packets>>

-----------------------------------------------------------------------------
(* Time passes at any moment; it tells at the step that looks at the clock. *)
Lapse ==
  /\ pc = "watchdog" /\ owner # NoPeer /\ ~lapsed
  /\ lapsed' = TRUE
  /\ UNCHANGED <<outputVars, pc, owner, workVars, latest, releaseVars, loopVars, packets,
                 clicked>>

DelayPasses ==
  /\ pc = "click" /\ work # <<>> /\ ~Head(work).due
  /\ work' = [work EXCEPT ![1].due = TRUE]
  /\ UNCHANGED <<outputVars, pc, leaseVars, persistentButtons, scheduledButtons, records,
                 latest, releaseVars, loopVars, packets, clicked>>

(* The host sees a click of a command: a press of a button that was up,    *)
(* then a release edge that leaves it up.                                  *)
HostCounts ==
  LET report == Written
      key == report.key[1]
      pressed == /\ report.kind = "CLICK_PRESS"
                 /\ report.button \notin host /\ report.button \in host'
      released == /\ report.kind = "CLICK_RELEASE"
                  /\ report.button \in host /\ report.button \notin host'
  IN clicked' = IF report.kind \notin {"CLICK_PRESS", "CLICK_RELEASE"} \/ key = NoKey
                THEN clicked
                ELSE IF pressed THEN [clicked EXCEPT ![key].down = TRUE]
                ELSE IF released /\ clicked[key].down
                THEN [clicked EXCEPT ![key] = [down |-> FALSE, count |-> @.count + 1]]
                ELSE clicked

OutputActs ==
  /\ \/ WriterTakes /\ UNCHANGED clicked
     \/ WriterFinishes /\ HostCounts
     \/ Tell /\ UNCHANGED clicked
     \/ BecomeReady /\ UNCHANGED clicked
     \/ Discard /\ UNCHANGED clicked
     \/ (generation = 0 \/ Spent < PacketLimit) /\ Reset /\ UNCHANGED clicked
  /\ UNCHANGED serverVars

ReceivePacket ==
  \E peer \in Peers :
    \/ \E key \in Keys :
         \/ \E count \in Counts : ReceiveSchedule(peer, key, count)
         \/ ReceiveReleaseAll(peer, key)
         \/ ReceiveAgain(peer, key)
    \/ \E next \in Holds, moves \in Moving, text \in BOOLEAN :
         ReceiveHold(peer, next, moves, text)
    \/ ReceiveKeepalive(peer)
    \/ ReceiveTextRelease(peer)
    \/ ReceiveTextClick(peer)

(* The loop's own steps: it goes round without any packet.                 *)
LoopStep ==
  \/ Top \/ ResetChanged \/ Resnapshot
  \/ FetchEvents \/ HandleFailure \/ HandleReleased \/ HandlePressed \/ HandleClicked
  \/ HandleOther
  \/ FetchOverflow \/ ResetLost \/ Watchdog
  \/ TickRelease \/ TickIdle \/ TickSnapshot \/ ResetUnfit \/ TickPress \/ TickEdge
  \/ Timeout \/ EnqueueHold
  \/ LastRelease

ServerStep == (LoopStep \/ ReceivePacket \/ Stop) /\ UNCHANGED clicked

Init ==
  /\ OutputInit
  /\ pc = "top" /\ tracked = 0
  /\ persistentButtons = {} /\ scheduledButtons = {}
  /\ owner = NoPeer /\ lapsed = FALSE
  /\ work = <<>> /\ records = <<>> /\ latest = 0
  /\ releasePending = FALSE /\ releaseInflight = FALSE /\ releaseKey = NoKey
  /\ batch = <<>> /\ asked = NoRequest /\ seen = 0 /\ packets = 0
  /\ clicked = [key \in Keys |-> [down |-> FALSE, count |-> 0]]

Next == ServerStep \/ OutputActs \/ Lapse \/ DelayPasses

Spec == Init /\ [][Next]_vars

-----------------------------------------------------------------------------
(* Properties.                                                             *)

Entry(e) ==
  /\ e.kind \in Reported \cup {"MOVEMENT", "PERSISTENT"}
  /\ e.left \in Int /\ e.committed \in BOOLEAN

Phases == {"AwaitPress", "PressInflight", "Holding", "AwaitRelease", "ReleaseInflight"}

(* Counters, queues and the cache stay within their limits, the front      *)
(* command is in the writer thread only while it is queued, and the loop   *)
(* tracks a generation there has been.                                     *)
TypeOK ==
  /\ generation \in 0 .. ResetLimit /\ ready \in BOOLEAN /\ held \in BOOLEAN
  /\ Len(queue) <= QueueLimit /\ \A j \in DOMAIN queue : Entry(queue[j])
  /\ Len(wire) <= 1 /\ Len(told) <= 1 /\ Len(events) <= EventLimit
  /\ held => wire # <<>> /\ queue # <<>>
  /\ tracked \in 0 .. generation /\ owner \in Peers \cup {NoPeer}
  /\ Len(work) <= ClickLimit /\ \A j \in DOMAIN work : work[j].phase \in Phases
  /\ Len(records) <= RecordLimit /\ latest \in 0 .. CommandLimit
  /\ releaseKey \in {NoKey} \cup Keys

(* The loop has nothing to do and the output nothing to tell it; a report  *)
(* of the layout the loop knows of has been written.                       *)
AtRest ==
  /\ fresh /\ tracked = generation
  /\ pc = "receive" /\ work = <<>> /\ persistentButtons = {} /\ ~releasePending
  /\ queue = <<>> /\ wire = <<>> /\ told = <<>> /\ events = <<>> /\ ~overflow

(* The obligation of begin_reset(): when no peer holds a button, no click  *)
(* is under way and no release is owed, the host sees the physical buttons *)
(* and nothing else, whatever was cancelled, orphaned in the writer thread,*)
(* failed or lost on the way.                                              *)
RestMeansReleased == AtRest => host = physical

(* USAGE.md promises that completed counts "include only pairs whose       *)
(* reports both completed in the USB writer": the host has seen that many  *)
(* clicks of the command.                                                  *)
ClicksHappened ==
  \A j \in DOMAIN records : records[j].completed <= clicked[records[j].key].count

(* A command's terminal status is its last: a delayed packet or event does *)
(* not change what the client has been told.                               *)
TerminalIsFinal ==
  [][\A i \in DOMAIN records, j \in DOMAIN records' :
       records[i].terminal /\ records'[j].key = records[i].key
         => records'[j] = records[i]]_vars

(* What the threads are relied on for: the loop goes round, time passes,   *)
(* there is an endpoint and it has a report in the end, its writer thread  *)
(* takes the front command again and again (mixer_drain shows that the     *)
(* mixer does so), and from some time on writes succeed: each one that     *)
(* fails starts a reset.                                                   *)
Serve ==
  /\ \E k \in 0 .. Len(queue), giveUp, carries \in BOOLEAN, buttons \in SUBSET PhysicalButtons :
       StartEntry(k, giveUp, carries, buttons)
  /\ UNCHANGED <<serverVars, clicked>>
TakeLastStale ==
  /\ stale
  /\ Discard \/ \E k \in 0 .. Len(queue), giveUp \in BOOLEAN, g \in 1 .. generation,
                   buttons \in SUBSET PhysicalButtons : StartPhysical(k, giveUp, g, buttons)
  /\ ~stale'
  /\ UNCHANGED <<serverVars, clicked>>
Skip ==
  /\ \E k \in 1 .. Len(queue), giveUp \in BOOLEAN : PassOver(k, giveUp)
  /\ UNCHANGED <<serverVars, clicked>>

Fairness ==
  /\ WF_vars(LoopStep /\ UNCHANGED clicked)
  /\ SF_vars(DelayPasses) /\ SF_vars(Lapse)
  /\ WF_vars(generation = 0 /\ Reset /\ UNCHANGED <<serverVars, clicked>>)
  /\ WF_vars(BecomeReady /\ UNCHANGED <<serverVars, clicked>>)
  /\ SF_vars(Serve \/ Skip \/ TakeLastStale)
  /\ WF_vars(WriterFinishes /\ HostCounts /\ UNCHANGED serverVars)
  /\ <>[][~Finish(FALSE)]_vars
  /\ WF_vars(Tell /\ UNCHANGED <<serverVars, clicked>>)
FairSpec == Spec /\ Fairness

Stopped == pc \in {"stopping", "stopped"}

(* "Release is an obligation, not a one-shot enqueue": one that is owed is *)
(* met, unless the server is stopped before.                               *)
ReleaseCompletes ==
  [](releasePending => <>(~releasePending \/ Stopped))

(* A click command or ReleaseAll that has been accepted comes to an end.   *)
Open(key) == \E j \in DOMAIN records : records[j].key = key /\ ~records[j].terminal
CommandsEnd ==
  \A key \in Keys : [](Open(key) => <>(~Open(key) \/ Stopped))

(* Once all peers are silent the host sees no synthetic button any more.   *)
SilenceReleases == <>[](host = physical \/ Stopped)
=============================================================================
