------------------------------ MODULE MouseMixer ------------------------------
(***************************************************************************)
(* The mixer of mouse_mixer.cpp for one mouse endpoint, together with the  *)
(* threads that call it: the endpoint's reader and writer threads and the  *)
(* ep0 thread of proxy.cpp, any client of enqueue_report and               *)
(* clear_synthetic_state (the UDP thread), and the USB host that receives  *)
(* what the writer thread writes.                                          *)
(*                                                                         *)
(* Every function of mouse_mixer.cpp runs under registry_mutex, so one     *)
(* call is one step; the steps between two calls of one thread are where   *)
(* the other threads get in.  The writer takes a report (one step), is in  *)
(* usb_raw_ep_write (any number of steps of the others), reports the       *)
(* completion (one step) and, after registry_mutex is released, appends    *)
(* the writer event under event_mutex (one more step).                     *)
(*                                                                         *)
(* One motion axis stands for x, y, wheel and pan; a button mask is a set  *)
(* of buttons; the 25 ms deadline of a latest-only movement is a choice    *)
(* made when the queue is next looked at.                                  *)
(***************************************************************************)
EXTENDS Integers, Sequences, FiniteSets

CONSTANTS
  Buttons,          \* buttons of the learned report layout, numbered from 1
  BootButtons,      \* buttons of the 3-byte boot layout
  FieldMin,         \* logical minimum of the motion field
  FieldMax,         \* logical maximum of the motion field
  MaxParts,         \* reports split_mouse_command may produce (32)
  MaxSynthetic,     \* MAX_SYNTHETIC_ITEMS (8)
  MaxEvents,        \* MAX_WRITER_EVENTS (32)
  MaxFifo,          \* reports in an endpoint's data_queue (32)
  Programs,         \* "proxy" (proxy.cpp) and "replay" (usb_replay.cpp)
  Commands,         \* what the clients of enqueue_report may ask for
  PhysicalReports,  \* what the physical mouse may send
  MaxItems,         \* bound: synthetic items per endpoint registration
  MaxPhysical,      \* bound: physical reports per endpoint registration
  MaxGenerations    \* bound: endpoint generations

NoItem == 0      \* Endpoint::inflight=false, or no synthetic_item_id
NoGuard == -1    \* expected_activity==UINT64_MAX
NoButton == 0    \* click_button==0

TransactionKinds == {"TRANSACTION_OUT", "TRANSACTION_PRESS",
                     "TRANSACTION_RELEASE", "TRANSACTION_RETURN"}
Kinds == {"MOVEMENT", "PERSISTENT", "CLICK_PRESS", "CLICK_RELEASE",
          "RELEASE_ALL"} \cup TransactionKinds

(* Kinds whose report must be written even if it changes no mask.          *)
ForcedKinds == {"RELEASE_ALL"} \cup TransactionKinds
PressKinds == {"CLICK_PRESS", "TRANSACTION_PRESS"}
(* Kinds whose successful completion is told to the UDP thread.            *)
EventKinds == {"CLICK_PRESS", "CLICK_RELEASE"} \cup ForcedKinds

Layouts == {"none", "report", "boot"}

Command == [x : Int, persistent : SUBSET Buttons, scheduled : SUBSET Buttons,
            kind : Kinds, latest : BOOLEAN, key : Nat,
            button : {NoButton} \cup Buttons]

ASSUME ButtonsAssumption ==
  /\ Buttons \subseteq Nat \ {NoButton}
  /\ BootButtons \subseteq Buttons
ASSUME FieldAssumption ==
  /\ FieldMin \in Int /\ FieldMax \in Int
  /\ FieldMin <= 0 /\ 0 <= FieldMax /\ FieldMin < FieldMax
ASSUME LimitsAssumption ==
  /\ MaxParts \in Nat \ {0} /\ MaxSynthetic \in Nat \ {0}
  /\ MaxEvents \in Nat \ {0} /\ MaxFifo \in Nat \ {0}
  /\ Programs \subseteq {"proxy", "replay"}
(* Every caller of enqueue_report() that asks for a latest-only report     *)
(* (udp_server.cpp, handle_upx_input) asks for a movement.                 *)
ASSUME InputsAssumption ==
  /\ Commands \subseteq Command
  /\ \A c \in Commands : c.latest => c.kind = "MOVEMENT"
  /\ PhysicalReports \subseteq [match : BOOLEAN, buttons : SUBSET Buttons, x : Int]
ASSUME BoundsAssumption ==
  /\ MaxItems \in Nat /\ MaxPhysical \in Nat /\ MaxGenerations \in Nat

VARIABLES
  program,          \* the executable the mixer is linked into
  phase,            \* where terminate_eps/process_eps have got to
  boot,             \* boot_protocol[interface]
  reportLayout,     \* report_descriptors[interface]
  layout,           \* descriptors[interface], the layout in force
  nextGeneration,   \* next_generation
  generation,       \* Endpoint::generation
  instance,         \* next_endpoint_instance, Endpoint::instance
  selected,         \* selected==address
  latestKnown,      \* !Endpoint::latest.empty()
  physicalBarrier, activity, physicalButtons,
  templateKnown,    \* !Endpoint::submitted_template.empty()
  submittedPhysical,
  persistent, scheduled,  \* the masks of the last committed synthetic report
  credits,          \* physical_successes_since_standalone
  synthetic,        \* the queue of synthetic items
  nextItem, inflight,
  fifo,             \* thread_info.data_queue
  stamped,          \* the report the reader has stamped and not yet pushed
  writer,           \* the writer thread
  io,               \* the report the writer thread is writing
  pendingEvent,     \* the event made under registry_mutex, not yet appended
  events, overflow, \* writer_events, writer_overflow
  hostButtons,      \* the buttons the USB host sees pressed
  hostPhysical,     \* the physical part of the last mouse report it received
  hostMotion,       \* the synthetic motion it received, by item
  commanded         \* the motion each accepted item was to deliver

layoutVars == <<program, boot, reportLayout, layout>>
endpointVars == <<phase, nextGeneration, generation, instance>>
physicalVars == <<selected, latestKnown, physicalBarrier, activity, physicalButtons>>
writtenVars == <<templateKnown, submittedPhysical, persistent, scheduled, credits>>
queueVars == <<synthetic, nextItem, inflight>>
writerVars == <<writer, io, pendingEvent>>
eventVars == <<events, overflow>>
hostVars == <<hostButtons, hostPhysical, hostMotion>>

vars == <<layoutVars, endpointVars, physicalVars, writtenVars, queueVars,
          fifo, stamped, writerVars, eventVars, hostVars, commanded>>

-----------------------------------------------------------------------------
(* The data the threads exchange.                                          *)

Report == [match : BOOLEAN, generation : Nat, buttons : SUBSET Buttons, x : Int,
           overtaken : Nat]   \* history: standalone reports written before it

Item == [id : Nat \ {NoItem}, x : Int, persistent : SUBSET Buttons,
         scheduled : SUBSET Buttons, kind : Kinds, latest : BOOLEAN, key : Nat,
         button : {NoButton} \cup Buttons, guard : Nat \cup {NoGuard},
         barrier : Nat, committed : BOOLEAN]

Io == [physical : BOOLEAN, match : BOOLEAN, generation : Nat, instance : Nat,
       physicalButtons : SUBSET Buttons, item : Nat, x : Int,
       persistent : SUBSET Buttons, scheduled : SUBSET Buttons,
       kind : Kinds \cup {"NONE"}, key : Nat, button : {NoButton} \cup Buttons,
       blocked : BOOLEAN, competing : BOOLEAN, final : SUBSET Buttons,
       shown : SUBSET Buttons]

WriterEvent == [key : Nat, generation : Nat, kind : Kinds \cup {"NONE"},
                button : {NoButton} \cup Buttons, blocked : BOOLEAN,
                final : SUBSET Buttons, success : BOOLEAN, x : Int,
                finished : BOOLEAN]

NoIo == [physical |-> FALSE, match |-> FALSE, generation |-> 0, instance |-> 0,
         physicalButtons |-> {}, item |-> NoItem, x |-> 0, persistent |-> {},
         scheduled |-> {}, kind |-> "NONE", key |-> 0, button |-> NoButton,
         blocked |-> FALSE, competing |-> FALSE, final |-> {}, shown |-> {}]

(* The endpoint is in the registry.                                        *)
Registered == phase \in {"up", "draining"}

(* endpoint_snapshot().ready                                               *)
Ready == Registered /\ selected /\ latestKnown

(* endpoint_snapshot().generation and clear_synthetic_state().generation.  *)
SnapshotGeneration == IF Ready THEN generation ELSE nextGeneration
ClearedGeneration == IF Registered /\ selected THEN generation ELSE nextGeneration

Supported == IF layout = "boot" THEN BootButtons ELSE Buttons

Min2(a, b) == IF a < b THEN a ELSE b
-----------------------------------------------------------------------------
(* Fitting motion into the report field.                                   *)

(* split_mouse_command() does not return the empty vector.                 *)
Encodable(x, mask) ==
  /\ mask \subseteq Supported
  /\ x <= MaxParts * FieldMax
  /\ x >= MaxParts * FieldMin

(* The motion of the first report split_mouse_command() makes of x.        *)
Part(x) == IF x > FieldMax THEN FieldMax ELSE IF x < FieldMin THEN FieldMin ELSE x

(* motion_fits()                                                           *)
MotionFits(physical, x) ==
  x = 0 \/ (FieldMin <= physical + x /\ physical + x <= FieldMax)

(* Mutant: forced reports are skipped when they change no mask.            *)
NeedsButtonsUnforced(item) ==
  ~item.committed /\ (item.persistent # persistent \/ item.scheduled # scheduled)

(* A report with this item's masks has still to be written.                *)
NeedsButtons(item) ==
  /\ ~item.committed
  /\ \/ item.persistent # persistent
     \/ item.scheduled # scheduled
     \/ item.kind \in ForcedKinds

(* The longest prefix of q whose elements all satisfy Drop has k elements. *)
FrontCut(q, Drop(_), k) ==
  /\ k \in 0 .. Len(q)
  /\ \A j \in 1 .. k : Drop(q[j])
  /\ k < Len(q) => ~Drop(q[k + 1])

(* The longest suffix of q whose elements all satisfy Drop follows k.      *)
BackCut(q, Drop(_), k) ==
  /\ k \in 0 .. Len(q)
  /\ \A j \in k + 1 .. Len(q) : Drop(q[j])
  /\ k > 0 => ~Drop(q[k])

(* Mutant: items are popped from the wrong end.                            *)
RestFromBack(q, k) == SubSeq(q, 1, Len(q) - k)

(* q after k calls of pop_front().                                         *)
Rest(q, k) == SubSeq(q, k + 1, Len(q))

(* Mutants: the queue, or the inflight mark, survives a reset.             *)
DropMarkOnly == inflight' = NoItem /\ UNCHANGED synthetic
DropQueueOnly == synthetic' = <<>> /\ UNCHANGED inflight

(* The synthetic queue and the mark of the item being written are dropped. *)
DropSynthetic == synthetic' = <<>> /\ inflight' = NoItem

-----------------------------------------------------------------------------
(* Clients: the UDP thread.                                                *)

(* The conditions under which enqueue_report() does not return NotReady.   *)
Accepts(expectedActivity, expectedGeneration) ==
  /\ Ready
  /\ expectedGeneration \in {0, generation}
  /\ expectedActivity \in {NoGuard, activity}

(* Mutant: a movement whose report is being written may be replaced.       *)
SupersededInflight(c, item) ==
  /\ c.latest
  /\ item.latest /\ item.kind = "MOVEMENT"
  /\ item.persistent = c.persistent
  /\ item.barrier = physicalBarrier

(* A queued movement that a newer latest-only command replaces.            *)
Superseded(c, item) ==
  /\ c.latest
  /\ item.id # inflight
  /\ item.latest /\ item.kind = "MOVEMENT"
  /\ item.persistent = c.persistent
  /\ item.barrier = physicalBarrier

NewItem(c, expectedActivity) ==
  [id |-> nextItem, x |-> c.x, persistent |-> c.persistent,
   scheduled |-> c.scheduled, kind |-> c.kind, latest |-> c.latest,
   key |-> c.key, button |-> c.button, guard |-> expectedActivity,
   barrier |-> physicalBarrier, committed |-> FALSE]

(* Mutant: room is looked for before superseded movements are removed.     *)
NoRoomBefore(k) == Len(synthetic) >= MaxSynthetic

(* There is no room for the command when k items are left.                 *)
NoRoom(k) == k >= MaxSynthetic

(* enqueue_report() returns Ok.                                            *)
EnqueueOk(c, expectedActivity, expectedGeneration) ==
  /\ nextItem <= MaxItems
  /\ Accepts(expectedActivity, expectedGeneration)
  /\ Encodable(c.x, c.persistent \cup c.scheduled)
  /\ \E k \in 0 .. Len(synthetic) :
       /\ BackCut(synthetic, LAMBDA item : Superseded(c, item), k)
       /\ ~NoRoom(k)
       /\ synthetic' = Append(SubSeq(synthetic, 1, k), NewItem(c, expectedActivity))
  /\ nextItem' = nextItem + 1
  /\ commanded' = [commanded EXCEPT ![nextItem] = c.x]
  /\ UNCHANGED <<layoutVars, endpointVars, physicalVars, writtenVars, inflight,
                 fifo, stamped, writerVars, eventVars, hostVars>>

(* enqueue_report() returns QueueFull; it has already removed what the     *)
(* command would have superseded.                                          *)
EnqueueQueueFull(c, expectedActivity, expectedGeneration) ==
  /\ Accepts(expectedActivity, expectedGeneration)
  /\ Encodable(c.x, c.persistent \cup c.scheduled)
  /\ \E k \in 0 .. Len(synthetic) :
       /\ BackCut(synthetic, LAMBDA item : Superseded(c, item), k)
       /\ NoRoom(k)
       /\ synthetic' = SubSeq(synthetic, 1, k)
  /\ UNCHANGED <<layoutVars, endpointVars, physicalVars, writtenVars, nextItem,
                 inflight, fifo, stamped, writerVars, eventVars, hostVars, commanded>>

(* clear_synthetic_state(): the queue and the inflight mark go; the masks  *)
(* stay, and so does a report that is being written.                       *)
ClearSynthetic ==
  /\ IF Registered /\ selected
     THEN DropSynthetic
     ELSE UNCHANGED <<synthetic, inflight>>
  /\ UNCHANGED <<layoutVars, endpointVars, physicalVars, writtenVars, nextItem,
                 fifo, stamped, writerVars, eventVars, hostVars, commanded>>

(* take_writer_events() and take_writer_overflow()                         *)
TakeWriterEvents ==
  /\ events' = <<>>
  /\ UNCHANGED <<layoutVars, endpointVars, physicalVars, writtenVars, queueVars,
                 fifo, stamped, writerVars, overflow, hostVars, commanded>>

TakeWriterOverflow ==
  /\ overflow' = FALSE
  /\ UNCHANGED <<layoutVars, endpointVars, physicalVars, writtenVars, queueVars,
                 fifo, stamped, writerVars, events, hostVars, commanded>>

-----------------------------------------------------------------------------
(* The reader thread, ep_loop_read().                                      *)

(* A report arrives and queue_physical_mouse_report() stamps it.  The      *)
(* thread has seen room in the queue first, and is its only producer.      *)
ReadPhysical(r) ==
  /\ program = "proxy"
  /\ Registered
  /\ stamped = <<>> /\ Len(fifo) < MaxFifo
  /\ physicalBarrier < MaxPhysical
  /\ r.match => layout # "none" /\ r.buttons \subseteq Supported
  /\ physicalBarrier' = physicalBarrier + 1
  /\ stamped' = <<[match |-> r.match, generation |-> generation,
                   buttons |-> r.buttons, x |-> r.x, overtaken |-> 0]>>
  /\ IF r.match
     THEN /\ latestKnown' = TRUE /\ selected' = TRUE
          /\ activity' = IF r.x # 0 \/ physicalButtons # r.buttons
                         THEN activity + 1 ELSE activity
          /\ physicalButtons' = r.buttons
     ELSE UNCHANGED <<latestKnown, selected, activity, physicalButtons>>
  /\ UNCHANGED <<layoutVars, endpointVars, writtenVars, queueVars, fifo,
                 writerVars, eventVars, hostVars, commanded>>

PushPhysical ==
  /\ Registered
  /\ stamped # <<>> /\ Len(fifo) < MaxFifo
  /\ fifo' = Append(fifo, Head(stamped))
  /\ stamped' = <<>>
  /\ UNCHANGED <<layoutVars, endpointVars, physicalVars, writtenVars, queueVars,
                 writerVars, eventVars, hostVars, commanded>>

(* seed_mouse_report(), called by usb_replay.cpp before it starts the      *)
(* writer thread of the endpoint it has just registered.                   *)
SeedMouseReport ==
  /\ program = "replay"
  /\ phase = "up" /\ layout # "none" /\ ~latestKnown
  /\ nextItem = 1 /\ writer = "idle"
  /\ latestKnown' = TRUE /\ templateKnown' = TRUE /\ selected' = TRUE
  /\ physicalButtons' = {} /\ submittedPhysical' = {}
  /\ UNCHANGED <<layoutVars, endpointVars, physicalBarrier, activity, persistent,
                 scheduled, credits, queueVars, fifo, stamped, writerVars,
                 eventVars, hostVars, commanded>>
-----------------------------------------------------------------------------
(* The writer thread, ep_loop_write(): take, write, report, append.        *)

(* The deadline of a latest-only item has passed; deadlines grow with ids, *)
(* so one cutoff stands for the clock.                                     *)
Expired(item, cutoff) == item.latest /\ item.id <= cutoff
MotionLeft(item, cutoff) == IF Expired(item, cutoff) THEN 0 ELSE item.x

(* expire_front() removes the first k items at this cutoff.                *)
ExpireCut(cutoff, k) ==
  FrontCut(synthetic,
           LAMBDA item : MotionLeft(item, cutoff) = 0 /\ ~NeedsButtons(item), k)

(* The queue it leaves: an expired front item that still has masks to      *)
(* write keeps its place without its motion.                               *)
AfterExpiry(cutoff, k) ==
  IF k < Len(synthetic) /\ Expired(synthetic[k + 1], cutoff)
  THEN Rest([synthetic EXCEPT ![k + 1].x = 0], k)
  ELSE Rest(synthetic, k)

(* The front item may be written: its activity guard, if any, still holds. *)
HaveSynthetic(q) == q # <<>> /\ Head(q).guard \in {NoGuard, activity}

(* A queued physical report was stamped under the layout in force.         *)
Compatible(r) == r.match /\ r.generation = generation

FusionMotion(item) == IF item.kind \in TransactionKinds THEN Part(item.x) ELSE item.x

Fuses(item, r) == Compatible(r) /\ MotionFits(r.x, FusionMotion(item))
ButtonsOnly(item, r) == Compatible(r) /\ NeedsButtons(item)

(* A standalone synthetic report goes before the one physical report that  *)
(* is waiting.                                                             *)
Competes(q) ==
  /\ HaveSynthetic(q)
  /\ Len(fifo) = 1
  /\ ~Fuses(Head(q), Head(fifo)) /\ ~ButtonsOnly(Head(q), Head(fifo))
  /\ templateKnown /\ credits >= 3

PreviouslyVisible == submittedPhysical \cup persistent \cup scheduled

(* describe_synthetic(): the report in report carries motion x of item.    *)
Describe(report, item, x, competing) ==
  [report EXCEPT !.generation = generation, !.instance = instance,
                 !.item = item.id, !.x = x, !.persistent = item.persistent,
                 !.scheduled = item.scheduled, !.kind = item.kind,
                 !.key = item.key, !.button = item.button,
                 !.competing = competing,
                 !.blocked = /\ item.kind \in PressKinds
                             /\ item.button \in PreviouslyVisible]

(* The report r as it leaves the queue, with the masks it will show.       *)
PhysicalIo(r, masks) ==
  [NoIo EXCEPT !.physical = TRUE, !.match = r.match, !.generation = r.generation,
               !.instance = instance, !.physicalButtons = r.buttons,
               !.final = IF Compatible(r) THEN r.buttons \cup masks ELSE {},
               !.shown = IF Compatible(r) THEN (r.buttons \cup masks) \cap Supported
                                          ELSE r.buttons]

(* Mutant: the physical buttons last read, not those last written.         *)
StandaloneIoUnsent(item) ==
  LET buttons == physicalButtons \cup item.persistent \cup item.scheduled
  IN [NoIo EXCEPT !.final = buttons, !.shown = buttons \cap Supported]

(* A report made for a synthetic item alone: relative fields zero, the     *)
(* physical buttons the host was last sent.                                *)
StandaloneIo(item) ==
  LET buttons == submittedPhysical \cup item.persistent \cup item.scheduled
  IN [NoIo EXCEPT !.final = buttons, !.shown = buttons \cap Supported]

CanTake == writer = "idle" /\ Registered /\ inflight = NoItem

(* The endpoint state take_mouse_report() leaves when it returns true.     *)
Taken(q, report) ==
  /\ synthetic' = q
  /\ io' = report
  /\ inflight' = report.item
  /\ writer' = "writing"
  /\ UNCHANGED <<layoutVars, endpointVars, physicalVars, writtenVars, nextItem,
                 stamped, pendingEvent, eventVars, hostVars, commanded>>

(* It returns a physical report, alone or with the front item on it.       *)
TakePhysical(cutoff, k) ==
  /\ CanTake /\ fifo # <<>>
  /\ ExpireCut(cutoff, k)
  /\ LET q == AfterExpiry(cutoff, k)
         r == Head(fifo)
         overlay == /\ HaveSynthetic(q)
                    /\ Fuses(Head(q), r) \/ ButtonsOnly(Head(q), r)
     IN /\ ~Competes(q)
        /\ \/ /\ overlay
              /\ Taken(q, Describe(PhysicalIo(r, Head(q).persistent \cup Head(q).scheduled),
                                   Head(q),
                                   IF Fuses(Head(q), r) THEN FusionMotion(Head(q)) ELSE 0,
                                   FALSE))
           \/ /\ ~overlay
              /\ Taken(q, PhysicalIo(r, persistent \cup scheduled))
  /\ fifo' = Tail(fifo)

(* It returns a report for the front item alone.                           *)
TakeStandalone(cutoff, k) ==
  /\ CanTake
  /\ ExpireCut(cutoff, k)
  /\ LET q == AfterExpiry(cutoff, k)
     IN /\ HaveSynthetic(q)
        /\ fifo = <<>> \/ Competes(q)
        /\ Encodable(Head(q).x, Head(q).persistent \cup Head(q).scheduled)
        /\ Taken(q, Describe(StandaloneIo(Head(q)), Head(q), Part(Head(q).x), Competes(q)))
  /\ UNCHANGED fifo

(* It returns false: nothing to write, or a front item that cannot be.     *)
TakeNothing(cutoff, k) ==
  /\ CanTake
  /\ ExpireCut(cutoff, k)
  /\ LET q == AfterExpiry(cutoff, k)
     IN /\ fifo = <<>> \/ Competes(q)
        /\ HaveSynthetic(q) =>
             ~Encodable(Head(q).x, Head(q).persistent \cup Head(q).scheduled)
        /\ synthetic' = q
  /\ UNCHANGED <<layoutVars, endpointVars, physicalVars, writtenVars, nextItem,
                 inflight, fifo, stamped, writerVars, eventVars, hostVars, commanded>>

(* The completed write is of the front item, as it was taken.              *)
Finished(item) == item.x = 0 /\ item.committed

(* notify_mouse_report_written(): an endpoint that is gone or registered   *)
(* again ignores the completion.                                           *)
Known == Registered /\ io.instance = instance
CurrentLayout == io.generation = generation
(* Mutant: a late completion is credited to whatever is in front.          *)
OfAnyFront == CurrentLayout /\ io.item # NoItem /\ synthetic # <<>>

OfFront ==
  /\ CurrentLayout /\ io.item # NoItem /\ inflight = io.item
  /\ synthetic # <<>> /\ Head(synthetic).id = io.item

(* The front item after its report has been written.                       *)
CommittedFront == [Head(synthetic) EXCEPT !.committed = TRUE, !.x = @ - io.x]

(* Mutant: only a success clears the inflight mark.                        *)
MarkKeptOnFailure(success) == IF success THEN NoItem ELSE inflight

MarkAfter(success) == NoItem

CommitQueue(success) ==
  IF ~OfFront THEN UNCHANGED <<synthetic, inflight, persistent, scheduled>>
  ELSE /\ inflight' = MarkAfter(success)
       /\ IF success
          THEN /\ persistent' = io.persistent /\ scheduled' = io.scheduled
               /\ LET q == [synthetic EXCEPT ![1] = CommittedFront]
                  IN \E k \in 0 .. Len(q) : FrontCut(q, Finished, k) /\ synthetic' = Rest(q, k)
          ELSE UNCHANGED <<synthetic, persistent, scheduled>>

(* Mutants: the credits are not capped at three, or not spent.             *)
CreditsUncapped == IF io.physical THEN credits + 1 ELSE IF io.competing THEN 0 ELSE credits
CreditsUnspent == IF io.physical THEN Min2(3, credits + 1) ELSE credits

(* Physical reports written since a standalone report went before one.     *)
CreditsAfter ==
  IF io.physical THEN Min2(3, credits + 1) ELSE IF io.competing THEN 0 ELSE credits

CommitPhysical(success) ==
  /\ credits' = IF success THEN CreditsAfter ELSE credits
  /\ submittedPhysical' = IF success /\ io.physical /\ io.match
                          THEN io.physicalButtons ELSE submittedPhysical
  /\ templateKnown' = (templateKnown \/ (success /\ io.match /\ CurrentLayout))

CompletionEvent(success) ==
  [key |-> io.key, generation |-> io.generation, kind |-> io.kind,
   button |-> io.button, blocked |-> io.blocked, final |-> io.final,
   success |-> success, x |-> io.x,
   finished |-> success /\ OfFront /\ Finished(CommittedFront)]

(* What the USB host receives: any report but one of another report id     *)
(* shows its buttons, and a written item's motion moves the pointer.       *)
HostReceives ==
  /\ hostButtons' = IF io.physical /\ ~io.match THEN hostButtons ELSE io.shown
  /\ hostPhysical' = IF io.physical /\ io.match THEN io.physicalButtons ELSE hostPhysical
  /\ hostMotion' = IF io.item = NoItem THEN hostMotion
                   ELSE [hostMotion EXCEPT ![io.item] = @ + io.x]
  /\ fifo' = IF io.competing /\ fifo # <<>>
             THEN [fifo EXCEPT ![1].overtaken = @ + 1] ELSE fifo

(* usb_raw_ep_write() returns and the completion is reported.  After       *)
(* ESHUTDOWN or EINTR the thread ends, after EXDEV or a short write it     *)
(* goes on.                                                                *)
Complete(success, exits) ==
  /\ writer = "writing"
  /\ IF Known
     THEN /\ CommitPhysical(success) /\ CommitQueue(success)
          /\ pendingEvent' = IF CurrentLayout /\ (io.kind \in EventKinds \/ ~success)
                             THEN <<CompletionEvent(success)>> ELSE <<>>
     ELSE /\ pendingEvent' = <<>>
          /\ UNCHANGED <<writtenVars, synthetic, inflight>>
  /\ IF success THEN HostReceives ELSE UNCHANGED <<hostVars, fifo>>
  /\ writer' = IF exits THEN "exiting" ELSE "reporting"
  /\ io' = NoIo
  /\ UNCHANGED <<layoutVars, endpointVars, physicalVars, nextItem, stamped,
                 eventVars, commanded>>

WriteSucceeds == Complete(TRUE, FALSE)
WriteFails == Complete(FALSE, FALSE)
WriteFailsAndEnds == Complete(FALSE, TRUE)

(* The event is appended, or lost and the loss noted.                      *)
AppendEvent ==
  /\ writer \in {"reporting", "exiting"}
  /\ IF pendingEvent = <<>> THEN UNCHANGED eventVars
     ELSE IF Len(events) >= MaxEvents
          THEN overflow' = TRUE /\ UNCHANGED events
          ELSE events' = events \o pendingEvent /\ UNCHANGED overflow
  /\ pendingEvent' = <<>>
  /\ writer' = IF writer = "exiting" THEN "exited" ELSE "idle"
  /\ UNCHANGED <<layoutVars, endpointVars, physicalVars, writtenVars, queueVars,
                 fifo, stamped, io, hostVars, commanded>>

-----------------------------------------------------------------------------
(* The ep0 thread.                                                         *)

(* invalidate_interface()                                                  *)
Invalidate ==
  /\ nextGeneration < MaxGenerations
  /\ latestKnown' = FALSE /\ templateKnown' = FALSE
  /\ DropSynthetic
  /\ persistent' = {} /\ scheduled' = {}
  /\ nextGeneration' = nextGeneration + 1
  /\ generation' = nextGeneration + 1
  /\ UNCHANGED <<phase, instance, selected, physicalBarrier, activity, physicalButtons,
                 submittedPhysical, credits, nextItem, fifo, stamped, writerVars,
                 eventVars, hostVars, commanded>>

LayoutOf(b, learned) == IF b THEN "boot" ELSE learned

(* HID SET_PROTOCOL from the host.                                         *)
SetProtocol(b) ==
  /\ phase = "up" /\ program = "proxy"
  /\ boot' = b /\ layout' = LayoutOf(b, reportLayout)
  /\ UNCHANGED <<program, reportLayout>>
  /\ Invalidate

(* The host reads the report descriptor again.                             *)
LearnDescriptor(learned) ==
  /\ phase = "up" /\ program = "proxy"
  /\ reportLayout' = learned
  /\ UNCHANGED <<program, boot>>
  /\ IF boot
     THEN UNCHANGED <<layout, endpointVars, physicalVars, writtenVars, queueVars,
                      fifo, stamped, writerVars, eventVars, hostVars, commanded>>
     ELSE layout' = learned /\ Invalidate

(* terminate_eps(): please_stop_eps is set.                                *)
BeginTerminate ==
  /\ phase = "up"
  /\ nextGeneration < MaxGenerations
  /\ phase' = "draining"
  /\ UNCHANGED <<layoutVars, nextGeneration, generation, instance, physicalVars,
                 writtenVars, queueVars, fifo, stamped, writerVars, eventVars,
                 hostVars, commanded>>

(* The fields a new Endpoint starts with.                                  *)
FreshEndpoint ==
  /\ selected' = FALSE /\ latestKnown' = FALSE
  /\ physicalBarrier' = 0 /\ activity' = 0 /\ physicalButtons' = {}
  /\ templateKnown' = FALSE /\ submittedPhysical' = {}
  /\ persistent' = {} /\ scheduled' = {} /\ credits' = 0
  /\ DropSynthetic /\ nextItem' = 1

(* unregister_mouse_endpoint()                                             *)
Unregister ==
  /\ phase = "draining"
  /\ phase' = "stopping"
  /\ nextGeneration' = nextGeneration + 1
  /\ FreshEndpoint
  /\ UNCHANGED <<layoutVars, generation, instance, fifo, stamped, writerVars,
                 eventVars, hostVars, commanded>>

(* The loop condition of the writer thread.                                *)
WriterStops ==
  /\ phase \in {"draining", "stopping"} /\ writer = "idle"
  /\ writer' = "exited"
  /\ UNCHANGED <<layoutVars, endpointVars, physicalVars, writtenVars, queueVars,
                 fifo, stamped, io, pendingEvent, eventVars, hostVars, commanded>>

(* Both threads have been joined and the data queue is deleted.            *)
Join ==
  /\ phase = "stopping" /\ writer = "exited"
  /\ phase' = "down"
  /\ fifo' = <<>> /\ stamped' = <<>>
  /\ UNCHANGED <<layoutVars, nextGeneration, generation, instance, physicalVars,
                 writtenVars, queueVars, writerVars, eventVars, hostVars, commanded>>

(* process_eps(): learn_mouse_descriptor() and set_mouse_protocol() while  *)
(* the interface has no endpoint, register_mouse_endpoint(), new threads.  *)
(* The host takes the endpoint for a new device.                           *)
Register(learned, b) ==
  /\ phase = "down"
  /\ nextGeneration < MaxGenerations
  /\ reportLayout' = learned /\ boot' = b /\ layout' = LayoutOf(b, learned)
  /\ phase' = "up"
  /\ nextGeneration' = nextGeneration + 1
  /\ generation' = nextGeneration + 1
  /\ instance' = instance + 1
  /\ writer' = "idle"
  /\ hostButtons' = {} /\ hostPhysical' = {}
  /\ hostMotion' = [id \in 1 .. MaxItems |-> 0]
  /\ commanded' = [id \in 1 .. MaxItems |-> 0]
  /\ UNCHANGED <<program, physicalVars, writtenVars, queueVars, fifo, stamped, io,
                 pendingEvent, eventVars>>

-----------------------------------------------------------------------------
Init ==
  /\ program \in Programs
  /\ phase = "down" /\ boot = FALSE /\ reportLayout = "none" /\ layout = "none"
  /\ nextGeneration = 0 /\ generation = 0 /\ instance = 0
  /\ selected = FALSE /\ latestKnown = FALSE
  /\ physicalBarrier = 0 /\ activity = 0 /\ physicalButtons = {}
  /\ templateKnown = FALSE /\ submittedPhysical = {}
  /\ persistent = {} /\ scheduled = {} /\ credits = 0
  /\ synthetic = <<>> /\ inflight = NoItem /\ nextItem = 1
  /\ fifo = <<>> /\ stamped = <<>>
  /\ writer = "exited" /\ io = NoIo /\ pendingEvent = <<>>
  /\ events = <<>> /\ overflow = FALSE
  /\ hostButtons = {} /\ hostPhysical = {}
  /\ hostMotion = [id \in 1 .. MaxItems |-> 0]
  /\ commanded = [id \in 1 .. MaxItems |-> 0]

(* A caller of enqueue_report() passes an activity and a generation it has *)
(* read at some earlier time, or none.                                     *)
ClientStep ==
  \/ \E c \in Commands, a \in {NoGuard} \cup 0 .. activity, g \in 0 .. generation :
       /\ c.kind \in TransactionKinds <=> a # NoGuard
       /\ EnqueueOk(c, a, g) \/ EnqueueQueueFull(c, a, g)
  \/ ClearSynthetic
  \/ TakeWriterEvents
  \/ TakeWriterOverflow

ReaderStep == (\E r \in PhysicalReports : ReadPhysical(r)) \/ PushPhysical

TakeReport(cutoff, k) ==
  TakePhysical(cutoff, k) \/ TakeStandalone(cutoff, k) \/ TakeNothing(cutoff, k)

Take == \E cutoff \in 0 .. nextItem - 1 : \E k \in 0 .. Len(synthetic) : TakeReport(cutoff, k)

WriterStep ==
  Take \/ WriteSucceeds \/ WriteFails \/ WriteFailsAndEnds \/ AppendEvent \/ WriterStops

ControlStep ==
  \/ \E b \in BOOLEAN : SetProtocol(b)
  \/ \E learned \in {"none", "report"} : LearnDescriptor(learned)
  \/ \E learned \in {"none", "report"}, b \in BOOLEAN : Register(learned, b)
  \/ SeedMouseReport
  \/ BeginTerminate
  \/ Unregister
  \/ Join

Next == ClientStep \/ ReaderStep \/ WriterStep \/ ControlStep

Spec == Init /\ [][Next]_vars

-----------------------------------------------------------------------------
(* Properties.                                                             *)

TypeOK ==
  /\ program \in Programs
  /\ phase \in {"up", "draining", "stopping", "down"}
  /\ boot \in BOOLEAN /\ reportLayout \in {"none", "report"} /\ layout \in Layouts
  /\ nextGeneration \in Nat /\ generation \in Nat /\ instance \in Nat
  /\ selected \in BOOLEAN /\ latestKnown \in BOOLEAN
  /\ physicalBarrier \in Nat /\ activity \in Nat
  /\ physicalButtons \in SUBSET Buttons
  /\ templateKnown \in BOOLEAN /\ submittedPhysical \in SUBSET Buttons
  /\ persistent \in SUBSET Buttons /\ scheduled \in SUBSET Buttons
  /\ credits \in 0 .. 3
  /\ synthetic \in Seq(Item) /\ nextItem \in Nat \ {NoItem} /\ inflight \in Nat
  /\ fifo \in Seq(Report) /\ stamped \in Seq(Report)
  /\ writer \in {"idle", "writing", "reporting", "exiting", "exited"}
  /\ io \in Io /\ pendingEvent \in Seq(WriterEvent)
  /\ events \in Seq(WriterEvent) /\ overflow \in BOOLEAN
  /\ hostButtons \in SUBSET Buttons /\ hostPhysical \in SUBSET Buttons
  /\ hostMotion \in [1 .. MaxItems -> Int]
  /\ commanded \in [1 .. MaxItems -> Int]

(* The mixer refuses to hand out a report while an item is inflight, so an *)
(* inflight mark that nobody is going to clear would silence the endpoint  *)
(* for good.  Whenever it is set, the writer thread is writing exactly     *)
(* that item, as the front of the queue, in this generation.               *)
InflightHeld ==
  inflight # NoItem =>
    /\ Registered /\ writer = "writing"
    /\ io.item = inflight
    /\ io.generation = generation /\ io.instance = instance
    /\ synthetic # <<>> /\ Head(synthetic).id = inflight

(* The queue is in the order of acceptance, whatever was superseded or     *)
(* expired in between, and only the front item can be half written.        *)
QueueOrder ==
  /\ \A i, j \in DOMAIN synthetic : i < j => synthetic[i].id < synthetic[j].id
  /\ \A j \in DOMAIN synthetic :
       /\ synthetic[j].id < nextItem
       /\ synthetic[j].committed => j = 1 /\ synthetic[j].x # 0

(* take_mouse_report() returns false for ever on a front item it cannot    *)
(* encode.  What enqueue_report() accepted stays encodable, although the   *)
(* host may change the layout and a part of the motion is taken off.       *)
AcceptedStaysEncodable ==
  \A j \in DOMAIN synthetic :
    /\ latestKnown
    /\ Encodable(synthetic[j].x, synthetic[j].persistent \cup synthetic[j].scheduled)

Between(a, b, c) == (a <= b /\ b <= c) \/ (c <= b /\ b <= a)

(* Whatever is cleared, expired, failed and written again, the host is     *)
(* never sent more of an accepted motion than was commanded, and what is   *)
(* left of a queued item is exactly what the host has not been sent        *)
(* (nothing, once a latest-only movement has expired).                     *)
MotionLedger ==
  /\ \A id \in 1 .. MaxItems : Between(0, hostMotion[id], commanded[id])
  /\ \A j \in DOMAIN synthetic :
       LET item == synthetic[j]
       IN \/ item.x = commanded[item.id] - hostMotion[item.id]
          \/ item.latest /\ item.x = 0

(* A report made for synthetic items alone shows the physical buttons as   *)
(* the host was last sent them: it neither releases a button the user      *)
(* holds nor presses one whose physical report is still queued.            *)
StandaloneKeepsPhysical ==
  writer = "writing" /\ ~io.physical /\ Registered /\ CurrentLayout =>
    io.shown = (hostPhysical \cup io.persistent \cup io.scheduled) \cap Supported

(* Of the standalone reports that may go before a waiting physical report  *)
(* at most one is written before it.                                       *)
OvertakenOnce == \A j \in DOMAIN fifo : fifo[j].overtaken <= 1

(* The comment in clear_synthetic_state(): the masks "describe the last    *)
(* successful USB write".                                                  *)
MasksDescribeLastWrite ==
  writer = "idle" /\ Ready =>
    hostButtons = (hostPhysical \cup persistent \cup scheduled) \cap Supported

(* An enqueue_report() that answers QueueFull has not thrown away queued   *)
(* movements it was going to supersede.                                    *)
RefusalKeepsQueue ==
  [][(\E c \in Commands : \E a \in {NoGuard} \cup 0 .. activity :
        EnqueueQueueFull(c, a, 0)) => UNCHANGED synthetic]_vars

(* The item has been written, in full, or would change nothing.            *)
Settled(item) ==
  /\ item.latest \/ hostMotion'[item.id] = commanded[item.id]
  /\ \/ item.persistent = persistent' /\ item.scheduled = scheduled'
     \/ item.committed
  /\ item.kind \in ForcedKinds => hostButtons' = io.shown /\ io.item = item.id

(* The writer thread takes an item off the queue only when its motion has  *)
(* reached the host, its masks are the applied ones and, if it is a forced *)
(* report such as the final release, its own report has been written.      *)
WriterLeavesNothingUndone ==
  [][WriterStep /\ Registered =>
       \A j \in DOMAIN synthetic :
         (\A i \in DOMAIN synthetic' : synthetic'[i].id # synthetic[j].id)
           => Settled(synthetic[j])]_vars

(* The endpoint threads: the reader pushes what it has stamped, the writer *)
(* takes what there is and appends events; a write that is tried again and *)
(* again succeeds in the end.                                              *)
Fairness ==
  /\ WF_vars(PushPhysical)
  /\ WF_vars(Take)
  /\ WF_vars(WriteSucceeds \/ WriteFails \/ WriteFailsAndEnds)
  /\ SF_vars(WriteSucceeds)
  /\ WF_vars(AppendEvent)

FairSpec == Spec /\ Fairness

(* A queued item whose activity guard has not been broken is written or    *)
(* dropped with the queue, unless the writer thread has gone.  The         *)
(* physical mouse of the model falls silent in the end: reports that never *)
(* leave fewer than two in the data queue and have no room for the motion  *)
(* would hold the item up, for it competes only with a single one.         *)
GuardBroken == synthetic # <<>> /\ Head(synthetic).guard \notin {NoGuard, activity}
QueueDrains ==
  [](synthetic # <<>> => <>(synthetic = <<>> \/ GuardBroken \/ writer = "exited"))

(* A physical report that has been stamped reaches the host or the end of  *)
(* the writer thread, whatever is queued synthetically.                    *)
PhysicalDrains ==
  [](stamped # <<>> \/ fifo # <<>> =>
       <>((stamped = <<>> /\ fifo = <<>>) \/ writer = "exited"))
=============================================================================
