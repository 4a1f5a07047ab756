--------------------------- MODULE SyntheticOutput ---------------------------
(***************************************************************************)
(* What the mixer promises to the threads that use it, without how it does *)
(* it: one queue of accepted commands, one report at a time in the writer  *)
(* thread, the masks last applied, the buttons the USB host sees, and the  *)
(* completion events.  Which physical report a command is merged with,     *)
(* what competes with what, which layout is in force, when a movement is   *)
(* too old and who starts and stops the endpoint's threads are left open.  *)
(* MouseMixer implements this module (see MixerRefinement), and the UDP    *)
(* server is modelled on top of it (see UdpServer).                        *)
(***************************************************************************)
EXTENDS Integers, Sequences

CONSTANTS
  PhysicalButtons,  \* the buttons the physical mouse may press
  NullKey,          \* the key of a report that is no command's
  QueueLimit,       \* MAX_SYNTHETIC_ITEMS
  EventLimit,       \* MAX_WRITER_EVENTS
  ResetLimit        \* bound: generations

ASSUME OutputLimits ==
  QueueLimit \in Nat \ {0} /\ EventLimit \in Nat \ {0} /\ ResetLimit \in Nat

VARIABLES
  generation,  \* endpoint_snapshot().generation
  ready,       \* endpoint_snapshot().ready
  queue,       \* the accepted commands, oldest first
  stale,       \* reports read under an earlier generation are still to be written
  held,        \* the report in the writer thread is the front command's
  wire,        \* the report in the writer thread, if any
  fresh,       \* a mouse report of this generation has been written
  applied,     \* the masks of the last committed synthetic report
  physical,    \* the physical buttons of the last report written
  host,        \* the buttons the USB host sees pressed
  told,        \* the event that is about to be appended, if any
  events, overflow

outputVars ==
  <<generation, ready, stale, queue, held, wire, fresh, applied, physical, host, told,
    events, overflow>>

Forced == {"RELEASE_ALL", "TRANSACTION_OUT", "TRANSACTION_PRESS",
           "TRANSACTION_RELEASE", "TRANSACTION_RETURN"}
Reported == {"CLICK_PRESS", "CLICK_RELEASE"} \cup Forced
Presses == {"CLICK_PRESS", "TRANSACTION_PRESS"}

Masks(entry) == [persistent |-> entry.persistent, scheduled |-> entry.scheduled]
ButtonsOf(masks) == masks.persistent \cup masks.scheduled
NoMasks == [persistent |-> {}, scheduled |-> {}]

(* A command in the queue, with the motion that is left of it.             *)
Queued(c) == [kind |-> c.kind, key |-> c.key, button |-> c.button,
              persistent |-> c.persistent, scheduled |-> c.scheduled,
              latest |-> c.latest, left |-> c.x, committed |-> FALSE]

(* The writer thread passes over an entry with nothing left to write; the  *)
(* motion of a latest-only movement may be given up.                       *)
HasMasksToWrite(entry) ==
  ~entry.committed /\ (Masks(entry) # applied \/ entry.kind \in Forced)
Empty(entry) == entry.left = 0 /\ ~HasMasksToWrite(entry)
GivenUp(entry) == [entry EXCEPT !.left = 0]

-----------------------------------------------------------------------------
(* The callers of mouse_mixer.h.                                           *)

(* A latest-only movement at the end of the queue, not the one that is     *)
(* being written, may be replaced by a newer one.                          *)
Replaceable(c, k) ==
  /\ c.latest
  /\ held => k > 0
  /\ \A j \in k + 1 .. Len(queue) : queue[j].latest /\ queue[j].kind = "MOVEMENT"

(* enqueue_report() returns Ok.                                            *)
Accept(c) ==
  /\ ready
  /\ \E k \in 0 .. Len(queue) :
       /\ k = Len(queue) \/ Replaceable(c, k)
       /\ k < QueueLimit
       /\ queue' = Append(SubSeq(queue, 1, k), Queued(c))
  /\ UNCHANGED <<generation, ready, stale, held, wire, fresh, applied, physical, host, told,
                 events, overflow>>

(* enqueue_report() does not return Ok: there is no endpoint to write to,  *)
(* no room, or the layout cannot carry the command.                        *)
Refusals == {"NotReady", "QueueFull", "Unsupported"}
Refuse(why) ==
  /\ why = "NotReady" => ~ready
  /\ why = "QueueFull" => Len(queue) >= QueueLimit
  /\ why = "Unsupported" => ready
  /\ UNCHANGED outputVars

(* clear_synthetic_state()                                                 *)
Clear ==
  /\ queue' = <<>> /\ held' = FALSE
  /\ UNCHANGED <<generation, ready, stale, wire, fresh, applied, physical, host, told,
                 events, overflow>>

(* take_writer_events() and take_writer_overflow()                         *)
TakeEvents ==
  /\ events' = <<>>
  /\ UNCHANGED <<generation, ready, stale, queue, held, wire, fresh, applied, physical, host,
                 told, overflow>>

TakeOverflow ==
  /\ overflow' = FALSE
  /\ UNCHANGED <<generation, ready, stale, queue, held, wire, fresh, applied, physical, host,
                 told, events>>

-----------------------------------------------------------------------------
(* The writer thread.                                                      *)

WriterFree == wire = <<>> /\ told = <<>>

(* The first k entries have nothing to write, some because their motion is *)
(* given up, and the next one has.                                         *)
Skippable(k) ==
  /\ \A j \in 1 .. k : Empty(queue[j]) \/ (queue[j].latest /\ Empty(GivenUp(queue[j])))
  /\ k < Len(queue) => ~Empty(queue[k + 1])

(* What is left of the queue; the motion of the new front entry may be     *)
(* given up too.                                                           *)
AfterSkip(k, giveUp) ==
  LET rest == SubSeq(queue, k + 1, Len(queue))
  IN IF giveUp THEN [rest EXCEPT ![1] = GivenUp(@)] ELSE rest

MayGiveUp(k) == k < Len(queue) /\ queue[k + 1].latest /\ HasMasksToWrite(queue[k + 1])

Skips(k, giveUp) ==
  /\ WriterFree /\ ~held
  /\ Skippable(k)
  /\ giveUp => MayGiveUp(k)
  /\ queue' = AfterSkip(k, giveUp)

(* Part of an entry's motion.                                              *)
Moves(entry) == IF entry.left >= 0 THEN 0 .. entry.left ELSE entry.left .. 0

(* The report of an entry: with a physical report's buttons, or with those *)
(* the host was last sent.                                                 *)
EntryReport(entry, motion, carries, buttons) ==
  [generation |-> generation, kind |-> entry.kind, key |-> entry.key,
   button |-> entry.button, masks |-> Masks(entry), motion |-> motion,
   carries |-> carries, buttons |-> IF carries THEN buttons ELSE {},
   blocked |-> /\ entry.kind \in Presses
               /\ entry.button \in physical \cup ButtonsOf(applied),
   shown |-> buttons \cup ButtonsOf(Masks(entry))]

(* A physical report of this or an earlier generation, the applied masks   *)
(* are shown in this one's only.                                           *)
PhysicalReport(g, buttons) ==
  [generation |-> g, kind |-> "NONE", key |-> NullKey, button |-> 0, masks |-> NoMasks,
   motion |-> 0, carries |-> TRUE, buttons |-> buttons, blocked |-> FALSE,
   shown |-> IF g = generation THEN buttons \cup ButtonsOf(applied) ELSE buttons]

(* A report of another report id says nothing of buttons.                  *)
ForeignReport(g) ==
  [generation |-> g, kind |-> "NONE", key |-> NullKey, button |-> 0, masks |-> NoMasks,
   motion |-> 0, carries |-> FALSE, buttons |-> {}, blocked |-> FALSE, shown |-> {}]

(* The writer thread finds nothing it can write.                           *)
PassOver(k, giveUp) ==
  /\ Skips(k, giveUp)
  /\ UNCHANGED <<generation, ready, stale, held, wire, fresh, applied, physical, host, told,
                 events, overflow>>

Start(report) ==
  /\ wire' = <<report>>
  /\ UNCHANGED <<generation, ready, fresh, applied, physical, host, told, events, overflow>>

(* A report made for a command alone shows the physical buttons last       *)
(* written, until a report of this layout has been written perhaps not     *)
(* all of them: the layout need not have them.                             *)
Remembered(buttons) == buttons = physical \/ (~fresh /\ buttons \subseteq physical)

StartEntry(k, giveUp, carries, buttons) ==
  /\ k < Len(queue) /\ ~stale
  /\ Skips(k, giveUp)
  /\ carries \/ Remembered(buttons)
  /\ LET entry == Head(AfterSkip(k, giveUp))
     IN \E motion \in Moves(entry) : Start(EntryReport(entry, motion, carries, buttons))
  /\ held' = TRUE /\ UNCHANGED stale

(* Reports leave in the order they were read in: those of an earlier       *)
(* generation first.                                                       *)
InOrder(g) == IF g = generation THEN ~stale /\ UNCHANGED stale ELSE stale /\ stale' \in BOOLEAN

StartPhysical(k, giveUp, g, buttons) ==
  /\ Skips(k, giveUp)
  /\ InOrder(g) /\ Start(PhysicalReport(g, buttons))
  /\ UNCHANGED held

StartForeign(k, giveUp, g) ==
  /\ Skips(k, giveUp)
  /\ InOrder(g) /\ Start(ForeignReport(g))
  /\ UNCHANGED held

Written == wire[1]

(* The front entry after its report has been written.                      *)
Rewritten == [Head(queue) EXCEPT !.committed = TRUE, !.left = @ - Written.motion]

(* What the report was to show, had the layout all the buttons.            *)
FinalButtons ==
  (IF Written.carries THEN Written.buttons ELSE physical) \cup ButtonsOf(Written.masks)

(* The event of a completion, none if the generation has changed.          *)
EventOf(success) ==
  [key |-> Written.key, generation |-> Written.generation, kind |-> Written.kind,
   button |-> Written.button, blocked |-> Written.blocked, success |-> success,
   final |-> IF Written.kind = "NONE" THEN {} ELSE FinalButtons,
   motion |-> Written.motion, finished |-> success /\ held /\ Rewritten.left = 0]

(* The host sees every report; the endpoint that is gone does not record   *)
(* the physical buttons it has shown.                                      *)
HostSees(success) ==
  /\ host' = IF success /\ (Written.carries \/ Written.kind # "NONE")
             THEN Written.shown ELSE host
  /\ IF success /\ Written.carries
     THEN \/ physical' = Written.buttons
          \/ Written.generation < generation /\ UNCHANGED physical
     ELSE UNCHANGED physical
  /\ fresh' = (fresh \/ (success /\ Written.carries /\ Written.generation = generation))

(* usb_raw_ep_write() has returned and the completion has been reported.   *)
(* Only the report of an entry that is still in the queue is credited.     *)
Finish(success) ==
  /\ wire # <<>>
  /\ wire' = <<>> /\ held' = FALSE
  /\ HostSees(success)
  /\ IF held /\ success
     THEN /\ applied' = Written.masks
          /\ queue' = IF Rewritten.left = 0 THEN Tail(queue)
                      ELSE [queue EXCEPT ![1] = Rewritten]
     ELSE UNCHANGED <<applied, queue>>
  /\ told' = IF Written.generation = generation /\ (Written.kind \in Reported \/ ~success)
             THEN <<EventOf(success)>> ELSE <<>>
  /\ UNCHANGED <<generation, ready, stale, events, overflow>>

(* The event is appended, or lost and the loss noted.                      *)
Tell ==
  /\ told # <<>>
  /\ told' = <<>>
  /\ IF Len(events) < EventLimit
     THEN events' = events \o told /\ UNCHANGED overflow
     ELSE overflow' = TRUE /\ UNCHANGED events
  /\ UNCHANGED <<generation, ready, stale, queue, held, wire, fresh, applied, physical, host>>

-----------------------------------------------------------------------------
(* The endpoint.                                                           *)

(* Its first report makes it ready.                                        *)
BecomeReady ==
  /\ ~ready /\ generation > 0
  /\ ready' = TRUE
  /\ UNCHANGED <<generation, stale, queue, held, wire, fresh, applied, physical, host, told,
                 events, overflow>>

(* The replay program makes it ready with a report of its own, which is    *)
(* not written.                                                            *)
Seed ==
  /\ ~ready /\ generation > 0
  /\ ready' = TRUE /\ fresh' = TRUE /\ physical' = {}
  /\ UNCHANGED <<generation, stale, queue, held, wire, applied, host, told, events, overflow>>

(* The endpoint's data queue is deleted with its threads.                  *)
Discard ==
  /\ stale /\ stale' = FALSE
  /\ UNCHANGED <<generation, ready, queue, held, wire, fresh, applied, physical, host, told,
                 events, overflow>>

(* The layout changes, or the endpoint goes, or another one comes that the *)
(* host takes for a new device: the queue and the masks are forgotten.     *)
Reset ==
  /\ generation < ResetLimit
  /\ generation' = generation + 1 /\ ready' = FALSE
  /\ stale' \in BOOLEAN /\ (stale' => generation > 0)
  /\ queue' = <<>> /\ held' = FALSE /\ fresh' = FALSE /\ applied' = NoMasks
  /\ physical' \in {physical, {}} /\ host' \in {host, {}}
  /\ UNCHANGED <<wire, told, events, overflow>>

-----------------------------------------------------------------------------
OutputInit ==
  /\ generation = 0 /\ ready = FALSE /\ stale = FALSE
  /\ queue = <<>> /\ held = FALSE /\ wire = <<>> /\ fresh = FALSE
  /\ applied = NoMasks /\ physical = {} /\ host = {}
  /\ told = <<>> /\ events = <<>> /\ overflow = FALSE

WriterTakes ==
  \E k \in 0 .. Len(queue), giveUp \in BOOLEAN :
    \/ PassOver(k, giveUp)
    \/ \E carries \in BOOLEAN, buttons \in SUBSET PhysicalButtons :
         StartEntry(k, giveUp, carries, buttons)
    \/ \E g \in 1 .. generation, buttons \in SUBSET PhysicalButtons :
         StartPhysical(k, giveUp, g, buttons)
    \/ \E g \in 1 .. generation : StartForeign(k, giveUp, g)

WriterFinishes == \E success \in BOOLEAN : Finish(success)

(* Any commands, in any order, from any number of threads.                 *)
CallerStep(commands) ==
  (\E c \in commands : Accept(c)) \/ Clear \/ TakeEvents \/ TakeOverflow

OutputStep == WriterTakes \/ WriterFinishes \/ Tell \/ BecomeReady \/ Discard \/ Reset
=============================================================================
