---------------------------- MODULE Release_proofs ----------------------------
(***************************************************************************)
(* Proof that the release obligation of the server loop leaves the host    *)
(* with the physical buttons only: RestMeansReleased, for all values of    *)
(* the constants.                                                          *)
(*                                                                         *)
(* The argument: either a release has still to be enqueued, or the masks   *)
(* the queue leads to are no more than the loop believes held, and what    *)
(* the host sees is the physical buttons and the masks in force, unless a  *)
(* queued release will make it so.                                         *)
(***************************************************************************)
EXTENDS UdpServer_proofs

-----------------------------------------------------------------------------
(* What the writer thread holds, and what the host sees by it.             *)

Current == wire # <<>> /\ Written.generation = generation

(* A report of a command that is not in the queue any more.                *)
Orphan == Current /\ ~held /\ Written.kind # "NONE"

(* The front command's report is one of its own; a physical report shows   *)
(* the masks in force.                                                     *)
HeldReport ==
  held =>
    /\ Written.generation = generation
    /\ Written.kind = queue[1].kind /\ Written.key = queue[1].key
    /\ Written.masks = Masks(queue[1]) /\ Written.motion \in Moves(queue[1])
    /\ Written.carries => Written.shown = Written.buttons \cup ButtonsOf(Masks(queue[1]))
    /\ ~Written.carries /\ fresh => Written.shown = physical \cup ButtonsOf(Masks(queue[1]))
PhysicalShown ==
  Current /\ Written.kind = "NONE" /\ Written.carries
    => Written.shown = Written.buttons \cup ButtonsOf(applied)

(* Reports of an earlier generation come first.                            *)
GenerationsInOrder ==
  /\ wire # <<>> => Written.generation <= generation
  /\ Current => ~stale
  /\ fresh => ~stale /\ (wire # <<>> => Current)

(* Entries: only the front one may have been written in part.              *)
EntriesInv ==
  \A j \in DOMAIN queue :
    /\ queue[j].committed => j = 1 /\ Masks(queue[j]) = applied
    /\ queue[j].kind = "RELEASE_ALL" =>
         /\ ~queue[j].committed /\ ~queue[j].latest /\ queue[j].left = 0
         /\ Masks(queue[j]) = NoMasks

WriterInv == HeldReport /\ PhysicalShown /\ GenerationsInOrder /\ EntriesInv

(* The masks in force when the queue has been written.                     *)
Target == IF queue = <<>> THEN applied ELSE Masks(queue[Len(queue)])
TargetHeld ==
  Target.persistent \subseteq persistentButtons /\ Target.scheduled \subseteq scheduledButtons

ReleaseQueued == \E j \in DOMAIN queue : queue[j].kind = "RELEASE_ALL"
HostClean == ~Orphan /\ (fresh => host = physical \cup ButtonsOf(applied))

(* The button of a click is scheduled from its press to its release edge,  *)
(* and only the front click is under way.                                  *)
ClicksInv ==
  /\ \A j \in DOMAIN work : j # 1 => work[j].phase = "AwaitPress"
  /\ scheduledButtons # {} =>
       /\ work # <<>> /\ work[1].phase \notin {"AwaitPress", "ReleaseInflight"}
       /\ scheduledButtons = {ClickButton}

(* No release has to be enqueued: then what the host sees is what the      *)
(* queue leads to, or a release is on the way.                             *)
ReleaseInv ==
  \/ pc \in {"stopping", "stopped"}
  \/ releasePending /\ ~releaseInflight
  \/ TargetHeld /\ (ReleaseQueued \/ HostClean)

RestInv == WriterInv /\ ClicksInv /\ ReleaseInv

-----------------------------------------------------------------------------
(* The output's steps.                                                     *)

WriterSees == <<generation, stale, queue, held, wire, fresh, applied, physical>>

LEMMA WriterKept ==
  ASSUME WriterInv, UNCHANGED WriterSees
  PROVE  WriterInv' /\ Target' = Target /\ ReleaseQueued' = ReleaseQueued
         /\ (UNCHANGED host => HostClean' = HostClean)
<1>1. /\ generation' = generation /\ stale' = stale /\ queue' = queue /\ held' = held
      /\ wire' = wire /\ fresh' = fresh /\ applied' = applied /\ physical' = physical
  BY DEF WriterSees
<1>2. Written' = Written /\ Current' = Current
  BY <1>1 DEF Written, Current
<1>3. HeldReport' /\ PhysicalShown' /\ GenerationsInOrder' /\ EntriesInv'
  BY <1>1, <1>2 DEF WriterInv, HeldReport, PhysicalShown, GenerationsInOrder, EntriesInv
<1>4. Target' = Target /\ ReleaseQueued' = ReleaseQueued
  BY <1>1 DEF Target, ReleaseQueued
<1>5. UNCHANGED host => HostClean' = HostClean
  BY <1>1, <1>2 DEF HostClean, Orphan
<1> QED
  BY <1>3, <1>4, <1>5 DEF WriterInv

(* A release asks for no buttons and has no motion.                        *)
PlainRelease(c) ==
  c.kind = "RELEASE_ALL" => ~c.latest /\ c.x = 0 /\ c.persistent = {} /\ c.scheduled = {}

LEMMA AcceptRests ==
  ASSUME OutputTypes, WriterInv, NEW c \in CommandSet, PlainRelease(c), Accept(c)
  PROVE  /\ WriterInv' /\ Target' = [persistent |-> c.persistent, scheduled |-> c.scheduled]
         /\ ReleaseQueued => ReleaseQueued'
         /\ c.kind = "RELEASE_ALL" => ReleaseQueued'
         /\ HostClean => HostClean'
<1>1. PICK k \in 0 .. Len(queue) :
        /\ k = Len(queue) \/ Replaceable(c, k)
        /\ queue' = Append(SubSeq(queue, 1, k), Queued(c))
  BY DEF Accept
<1> DEFINE kept == SubSeq(queue, 1, k)
           e == Queued(c)
<1>2. queue \in Seq(EntrySet) /\ DOMAIN queue = 1 .. Len(queue) /\ Len(queue) \in Nat
  BY DEF OutputTypes, QueueTypes
<1>3. kept \in Seq(EntrySet) /\ Len(kept) = k /\ \A j \in 1 .. k : kept[j] = queue[j]
  BY <1>2
<1>4. e \in EntrySet
  BY DEF Queued, CommandSet, EntrySet
<1>5. /\ e.kind = c.kind /\ ~e.committed /\ e.latest = c.latest /\ e.left = c.x
      /\ Masks(e) = [persistent |-> c.persistent, scheduled |-> c.scheduled]
  BY DEF Queued, Masks
<1>6. queue' = Append(kept, e)
  BY <1>1
<1> HIDE DEF kept, e
<1>7. /\ Len(queue') = k + 1 /\ DOMAIN queue' = 1 .. k + 1 /\ queue' # <<>>
      /\ queue'[k + 1] = e /\ \A j \in 1 .. k : queue'[j] = queue[j]
  BY <1>3, <1>4, <1>6, AppendProperties, LenProperties
<1>8. \A j \in 1 .. k : j \in DOMAIN queue
  BY <1>2
<1>17. k \in Nat /\ k <= Len(queue) /\ (queue # <<>> => Len(queue) > 0)
  BY <1>2
<1>18. \/ k = Len(queue)
       \/ (held => k > 0) /\ \A j \in k + 1 .. Len(queue) : queue[j].kind = "MOVEMENT"
  BY <1>1 DEF Replaceable
<1>9. /\ UNCHANGED <<generation, stale, held, wire, fresh, applied, physical, host>>
      /\ Written' = Written /\ Current' = Current
  BY DEF Accept, Written, Current
<1>10. HeldReport'
  <2>1. CASE held
    <3>0. Len(queue) > 0
      BY <1>17, <2>1 DEF OutputTypes, HeldIsFront
    <3>1. 0 < k
      BY <1>17, <1>18, <2>1, <3>0
    <3>2. queue'[1] = queue[1]
      BY <1>7, <3>1
    <3> QED
      BY <1>9, <2>1, <3>2 DEF WriterInv, HeldReport
  <2> QED
    BY <1>9, <2>1 DEF HeldReport
<1>11. PhysicalShown' /\ GenerationsInOrder'
  BY <1>9 DEF WriterInv, PhysicalShown, GenerationsInOrder
<1>12. EntriesInv'
  <2> SUFFICES ASSUME NEW j \in 1 .. k + 1
               PROVE  /\ queue'[j].committed => j = 1 /\ Masks(queue'[j]) = applied'
                      /\ queue'[j].kind = "RELEASE_ALL" =>
                           /\ ~queue'[j].committed /\ ~queue'[j].latest /\ queue'[j].left = 0
                           /\ Masks(queue'[j]) = NoMasks
    BY <1>7 DEF EntriesInv
  <2>1. CASE j \in 1 .. k
    BY <1>7, <1>8, <1>9, <2>1 DEF WriterInv, EntriesInv
  <2>2. CASE j = k + 1
    <3>1. queue'[j] = e
      BY <1>7, <2>2
    <3>2. c.kind = "RELEASE_ALL" => Masks(e) = NoMasks
      BY <1>5 DEF PlainRelease, NoMasks
    <3> QED
      BY <1>5, <3>1, <3>2 DEF PlainRelease
  <2> QED
    BY <2>1, <2>2
<1>13. Target' = [persistent |-> c.persistent, scheduled |-> c.scheduled]
  BY <1>5, <1>7 DEF Target
<1>14. ReleaseQueued => ReleaseQueued'
  <2> SUFFICES ASSUME NEW j \in DOMAIN queue, queue[j].kind = "RELEASE_ALL" PROVE ReleaseQueued'
    BY DEF ReleaseQueued
  <2>1. j \in 1 .. k
    <3>1. CASE k = Len(queue)
      BY <1>2, <3>1
    <3>2. CASE \A i \in k + 1 .. Len(queue) : queue[i].kind = "MOVEMENT"
      BY <1>2, <1>17, <3>2
    <3> QED
      BY <1>18, <3>1, <3>2
  <2> QED
    BY <1>7, <2>1 DEF ReleaseQueued
<1>15. c.kind = "RELEASE_ALL" => ReleaseQueued'
  BY <1>5, <1>7 DEF ReleaseQueued
<1>16. HostClean => HostClean'
  BY <1>9 DEF HostClean, Orphan
<1> QED
  BY <1>10, <1>11, <1>12, <1>13, <1>14, <1>15, <1>16 DEF WriterInv

LEMMA ClearRests ==
  ASSUME WriterInv, Clear
  PROVE  WriterInv'
<1>1. /\ queue' = <<>> /\ held' = FALSE
      /\ UNCHANGED <<generation, stale, wire, fresh, applied, physical>>
      /\ Written' = Written /\ Current' = Current
  BY DEF Clear, Written, Current
<1>2. DOMAIN queue' = {}
  BY <1>1
<1> QED
  BY <1>1, <1>2 DEF WriterInv, HeldReport, PhysicalShown, GenerationsInOrder, EntriesInv

(* What a take leaves of the queue, place by place.                        *)
LEMMA SkippedPlaces ==
  ASSUME OutputTypes, NEW k \in 0 .. Len(queue), NEW giveUp \in BOOLEAN, Skips(k, giveUp)
  PROVE  /\ DOMAIN queue' = 1 .. Len(queue) - k /\ DOMAIN queue = 1 .. Len(queue)
         /\ Len(queue) \in Nat /\ Len(queue') = Len(queue) - k
         /\ \A j \in DOMAIN queue' :
              /\ k + j \in DOMAIN queue /\ queue[k + j] \in EntrySet
              /\ queue'[j] = IF giveUp /\ j = 1 THEN GivenUp(queue[k + j]) ELSE queue[k + j]
<1>1. queue \in Seq(EntrySet) /\ DOMAIN queue = 1 .. Len(queue) /\ Len(queue) \in Nat
  BY DEF OutputTypes, QueueTypes
<1> DEFINE rest == SubSeq(queue, k + 1, Len(queue))
<1>2. queue' = IF giveUp THEN [rest EXCEPT ![1] = GivenUp(rest[1])] ELSE rest
  BY DEF Skips, AfterSkip
<1>3. queue' \in Seq(EntrySet) /\ Len(queue') = Len(queue) - k
  BY SkipsTyped
<1>4. giveUp => k < Len(queue)
  BY DEF Skips, MayGiveUp
<1>5. rest \in Seq(EntrySet) /\ Len(rest) = Len(queue) - k
      /\ \A j \in 1 .. Len(queue) - k : rest[j] = queue[k + j]
  BY <1>1, SuffixElements
<1> HIDE DEF rest
<1>6. DOMAIN queue' = 1 .. Len(queue) - k /\ DOMAIN rest = 1 .. Len(queue) - k
  BY <1>3, <1>5, LenProperties
<1>7. \A j \in 1 .. Len(queue) - k : k + j \in DOMAIN queue /\ queue[k + j] \in EntrySet
  BY <1>1
<1>8. \A j \in 1 .. Len(queue) - k :
        queue'[j] = IF giveUp /\ j = 1 THEN GivenUp(rest[j]) ELSE rest[j]
  BY <1>2, <1>6
<1> QED
  BY <1>1, <1>3, <1>5, <1>6, <1>7, <1>8

LEMMA GivenUpKeeps ==
  ASSUME NEW e \in EntrySet
  PROVE  /\ GivenUp(e).kind = e.kind /\ GivenUp(e).committed = e.committed
         /\ GivenUp(e).latest = e.latest /\ GivenUp(e).left = 0 /\ Masks(GivenUp(e)) = Masks(e)
  BY DEF EntrySet, GivenUp, Masks

(* What is passed over changes nothing: its masks are in force already,    *)
(* and a release is never passed over.                                     *)
LEMMA SkipsRest ==
  ASSUME OutputTypes, EntriesInv, NEW k \in 0 .. Len(queue), NEW giveUp \in BOOLEAN,
         Skips(k, giveUp), applied' = applied
  PROVE  EntriesInv' /\ Target' = Target /\ (ReleaseQueued => ReleaseQueued')
<1>1. /\ DOMAIN queue' = 1 .. Len(queue) - k /\ DOMAIN queue = 1 .. Len(queue)
      /\ Len(queue) \in Nat /\ Len(queue') = Len(queue) - k
      /\ \A j \in DOMAIN queue' :
           /\ k + j \in DOMAIN queue /\ queue[k + j] \in EntrySet
           /\ queue'[j] = IF giveUp /\ j = 1 THEN GivenUp(queue[k + j]) ELSE queue[k + j]
  BY SkippedPlaces
<1>2. \A j \in DOMAIN queue' :
        /\ queue'[j].kind = queue[k + j].kind /\ queue'[j].committed = queue[k + j].committed
        /\ queue'[j].latest = queue[k + j].latest /\ queue'[j].left \in {0, queue[k + j].left}
        /\ Masks(queue'[j]) = Masks(queue[k + j])
  BY <1>1, GivenUpKeeps
<1>3. \A j \in 1 .. k : Empty(queue[j]) \/ (queue[j].latest /\ Empty(GivenUp(queue[j])))
  BY DEF Skips, Skippable
<1>4. \A j \in 1 .. k : j \in DOMAIN queue /\ queue[j] \in EntrySet
  BY <1>1 DEF OutputTypes, QueueTypes
<1>5. \A j \in 1 .. k :
        queue[j].committed \/ (Masks(queue[j]) = applied /\ queue[j].kind \notin Forced)
  <2> SUFFICES ASSUME NEW j \in 1 .. k
               PROVE queue[j].committed \/ (Masks(queue[j]) = applied /\ queue[j].kind \notin Forced)
    OBVIOUS
  <2>1. CASE Empty(queue[j])
    BY <2>1 DEF Empty, HasMasksToWrite
  <2>2. CASE Empty(GivenUp(queue[j]))
    BY <1>4, <2>2, GivenUpKeeps DEF Empty, HasMasksToWrite
  <2> QED
    BY <1>3, <2>1, <2>2
<1>6. EntriesInv'
  <2> SUFFICES ASSUME NEW j \in DOMAIN queue'
               PROVE  /\ queue'[j].committed => j = 1 /\ Masks(queue'[j]) = applied
                      /\ queue'[j].kind = "RELEASE_ALL" =>
                           /\ ~queue'[j].committed /\ ~queue'[j].latest /\ queue'[j].left = 0
                           /\ Masks(queue'[j]) = NoMasks
    BY DEF EntriesInv
  <2>1. j \in 1 .. Len(queue) - k /\ (k + j = 1 => j = 1)
    BY <1>1
  <2>2. /\ queue[k + j].committed => k + j = 1 /\ Masks(queue[k + j]) = applied
        /\ queue[k + j].kind = "RELEASE_ALL" =>
             /\ ~queue[k + j].committed /\ ~queue[k + j].latest /\ queue[k + j].left = 0
             /\ Masks(queue[k + j]) = NoMasks
    BY <1>1 DEF EntriesInv
  <2>3. queue'[j].committed => j = 1 /\ Masks(queue'[j]) = applied
    BY <1>2, <2>1, <2>2, Zenon
  <2>4. ASSUME queue'[j].kind = "RELEASE_ALL"
        PROVE  /\ ~queue'[j].committed /\ ~queue'[j].latest /\ queue'[j].left = 0
               /\ Masks(queue'[j]) = NoMasks
    BY <1>2, <2>2, <2>4
  <2> QED
    BY <2>3, <2>4
<1>7. Target' = Target
  <2>1. CASE k = Len(queue)
    <3>1. queue' \in Seq(EntrySet)
      BY SkipsTyped
    <3>5. Len(queue') = 0
      BY <1>1, <2>1
    <3>2. queue' = <<>>
      BY <3>1, <3>5
    <3>3. queue # <<>> => Len(queue) \in 1 .. k /\ Len(queue) \in DOMAIN queue
      BY <1>1, <2>1 DEF OutputTypes, QueueTypes
    <3>4. queue # <<>> => Masks(queue[Len(queue)]) = applied
      BY <1>5, <3>3 DEF EntriesInv
    <3> QED
      BY <3>2, <3>4 DEF Target
  <2>2. CASE k < Len(queue)
    <3>1. queue # <<>> /\ queue' # <<>>
      BY <1>1, <2>2, SkipsTyped
    <3>2. Len(queue') \in DOMAIN queue' /\ k + Len(queue') = Len(queue)
      BY <1>1, <2>2
    <3>3. Masks(queue'[Len(queue')]) = Masks(queue[Len(queue)])
      BY <1>2, <3>2
    <3> QED
      BY <3>1, <3>3 DEF Target
  <2> QED
    BY <1>1, <2>1, <2>2
<1>8. ReleaseQueued => ReleaseQueued'
  <2> SUFFICES ASSUME NEW j \in DOMAIN queue, queue[j].kind = "RELEASE_ALL" PROVE ReleaseQueued'
    BY DEF ReleaseQueued
  <2>1. j \notin 1 .. k
    BY <1>5 DEF EntriesInv, Forced
  <2>2. j - k \in DOMAIN queue' /\ k + (j - k) = j
    BY <1>1, <2>1
  <2> QED
    BY <1>2, <2>2 DEF ReleaseQueued
<1> QED
  BY <1>6, <1>7, <1>8

(* The writer thread begins a report of a generation, its own or an        *)
(* earlier one.                                                            *)
LEMMA StartRests ==
  ASSUME OutputTypes, WriterInv, NEW k \in 0 .. Len(queue), NEW giveUp \in BOOLEAN,
         Skips(k, giveUp), NEW report \in WireSet, Start(report), HeldReport', held' \/ ~Orphan',
         report.generation <= generation, report.generation = generation => ~stale /\ ~stale',
         report.generation # generation => stale,
         report.kind = "NONE" /\ report.carries /\ report.generation = generation
           => report.shown = report.buttons \cup ButtonsOf(applied)
  PROVE  /\ WriterInv' /\ Target' = Target /\ (ReleaseQueued => ReleaseQueued')
         /\ HostClean => HostClean'
<1>1. /\ wire' = <<report>>
      /\ UNCHANGED <<generation, fresh, applied, physical, host>>
  BY DEF Start
<1>2. Written' = report /\ wire' # <<>>
  BY <1>1 DEF Written
<1>3. Current' <=> report.generation = generation
  BY <1>1, <1>2 DEF Current
<1>4. PhysicalShown'
  BY <1>1, <1>2, <1>3 DEF PhysicalShown
<1>5. GenerationsInOrder'
  <2>1. wire' # <<>> => Written'.generation <= generation'
    BY <1>1, <1>2
  <2>2. Current' => ~stale'
    BY <1>3, Zenon
  <2>3. ASSUME fresh' PROVE ~stale' /\ Current'
    <3>1. ~stale
      BY <1>1, <2>3 DEF WriterInv, GenerationsInOrder
    <3>2. report.generation = generation
      BY <3>1, Zenon
    <3> QED
      BY <1>3, <3>2
  <2> QED
    BY <2>1, <2>2, <2>3, Zenon DEF GenerationsInOrder
<1>6. EntriesInv' /\ Target' = Target /\ (ReleaseQueued => ReleaseQueued')
  BY <1>1, SkipsRest DEF WriterInv
<1>7. ~Orphan'
  BY DEF Orphan
<1>8. HostClean => HostClean'
  BY <1>1, <1>7 DEF HostClean
<1> QED
  BY <1>4, <1>5, <1>6, <1>8 DEF WriterInv

LEMMA TakeRests ==
  ASSUME OutputTypes, WriterInv, WriterTakes
  PROVE  /\ WriterInv' /\ Target' = Target /\ (ReleaseQueued => ReleaseQueued')
         /\ HostClean => HostClean'
<1>1. PICK k \in 0 .. Len(queue), giveUp \in BOOLEAN :
        \/ PassOver(k, giveUp)
        \/ \E carries \in BOOLEAN, buttons \in SUBSET PhysicalButtons :
             StartEntry(k, giveUp, carries, buttons)
        \/ \E g \in 1 .. generation, buttons \in SUBSET PhysicalButtons :
             StartPhysical(k, giveUp, g, buttons)
        \/ \E g \in 1 .. generation : StartForeign(k, giveUp, g)
  BY DEF WriterTakes
<1>2. CASE PassOver(k, giveUp)
  <2>1. /\ Skips(k, giveUp) /\ ~held /\ wire = <<>>
        /\ UNCHANGED <<generation, stale, held, wire, fresh, applied, physical, host>>
    BY <1>2 DEF PassOver, Skips, WriterFree
  <2>2. EntriesInv' /\ Target' = Target /\ (ReleaseQueued => ReleaseQueued')
    BY <2>1, SkipsRest DEF WriterInv
  <2>3. ~Current /\ ~Current' /\ Written' = Written
    BY <2>1 DEF Current, Written
  <2>4. HeldReport' /\ PhysicalShown'
    BY <2>1, <2>3, Zenon DEF HeldReport, PhysicalShown
  <2>5. GenerationsInOrder'
    BY <2>1, <2>3 DEF WriterInv, GenerationsInOrder
  <2>6. HostClean => HostClean'
    BY <2>1, <2>3 DEF HostClean, Orphan
  <2> QED
    BY <2>2, <2>4, <2>5, <2>6 DEF WriterInv
<1>3. ASSUME NEW carries \in BOOLEAN, NEW buttons \in SUBSET PhysicalButtons,
             StartEntry(k, giveUp, carries, buttons)
      PROVE  /\ WriterInv' /\ Target' = Target /\ (ReleaseQueued => ReleaseQueued')
             /\ HostClean => HostClean'
  <2>1. /\ Skips(k, giveUp) /\ k < Len(queue) /\ held' /\ stale' = stale /\ ~stale
        /\ ~carries /\ fresh => buttons = physical
    BY <1>3 DEF StartEntry, Remembered
  <2> DEFINE entry == Head(AfterSkip(k, giveUp))
  <2>2. entry \in EntrySet /\ queue'[1] = entry
    BY <2>1, SkipsTyped
  <2>3. PICK motion \in Moves(entry) : Start(EntryReport(entry, motion, carries, buttons))
    BY <1>3 DEF StartEntry
  <2> HIDE DEF entry
  <2> DEFINE report == EntryReport(entry, motion, carries, buttons)
  <2>4. report \in WireSet
    BY <2>2, <2>3, ReportsTyped
  <2>5. /\ report.generation = generation /\ report.kind = entry.kind /\ report.key = entry.key
        /\ report.masks = Masks(entry) /\ report.motion = motion /\ report.carries = carries
        /\ carries => report.buttons = buttons
        /\ report.shown = buttons \cup ButtonsOf(Masks(entry))
    BY DEF EntryReport
  <2>6. Start(report)
    BY <2>3
  <2> HIDE DEF report
  <2>7. Written' = report /\ physical' = physical /\ generation' = generation
    BY <2>6 DEF Start, Written
  <2>8. HeldReport'
    <3>1. fresh' = fresh
      BY <2>6, Zenon DEF Start
    <3>2. ASSUME ~carries, fresh PROVE report.shown = physical \cup ButtonsOf(Masks(entry))
      BY <2>1, <2>5, <3>2
    <3> QED
      BY <2>1, <2>2, <2>3, <2>5, <2>7, <3>1, <3>2 DEF HeldReport
  <2>9. entry.kind # "NONE"
    BY <2>2 DEF EntrySet, ReportKinds, Reported, Forced
  <2>10. generation <= generation
    BY OutputLimits DEF OutputTypes, GenerationType
  <2>11. ~stale'
    BY <2>1, Zenon
  <2> QED
    BY <2>1, <2>4, <2>5, <2>6, <2>8, <2>9, <2>10, <2>11, StartRests
<1>4. ASSUME NEW g \in 1 .. generation, NEW report \in WireSet, Skips(k, giveUp), InOrder(g),
             Start(report), held' = held, report.generation = g, report.kind = "NONE",
             report.carries /\ g = generation
               => report.shown = report.buttons \cup ButtonsOf(applied)
      PROVE  /\ WriterInv' /\ Target' = Target /\ (ReleaseQueued => ReleaseQueued')
             /\ HostClean => HostClean'
  <2>1. ~held'
    BY <1>4, Zenon DEF Skips
  <2>2. HeldReport'
    BY <2>1, Zenon DEF HeldReport
  <2>3. Written' = report
    BY <1>4 DEF Start, Written
  <2>4. ~Orphan'
    BY <1>4, <2>3 DEF Orphan
  <2>5. g <= generation
    BY OutputLimits DEF OutputTypes, GenerationType
  <2>6. (g = generation => ~stale /\ ~stale') /\ (g # generation => stale)
    BY <1>4, Zenon DEF InOrder
  <2> QED
    BY <1>4, <2>2, <2>4, <2>5, <2>6, StartRests
<1>5. \A g \in 1 .. generation : g \in Nat
  BY OutputLimits DEF OutputTypes, GenerationType
<1>6. ASSUME NEW g \in 1 .. generation, NEW buttons \in SUBSET PhysicalButtons,
             StartPhysical(k, giveUp, g, buttons)
      PROVE  /\ WriterInv' /\ Target' = Target /\ (ReleaseQueued => ReleaseQueued')
             /\ HostClean => HostClean'
  <2> DEFINE report == PhysicalReport(g, buttons)
  <2>1. report \in WireSet
    BY <1>5, ReportsTyped
  <2>2. /\ report.generation = g /\ report.kind = "NONE"
        /\ g = generation => report.shown = report.buttons \cup ButtonsOf(applied)
    BY DEF PhysicalReport
  <2>3. Skips(k, giveUp) /\ InOrder(g) /\ Start(report) /\ held' = held
    BY <1>6 DEF StartPhysical
  <2> HIDE DEF report
  <2> QED
    BY <1>4, <2>1, <2>2, <2>3
<1>7. ASSUME NEW g \in 1 .. generation, StartForeign(k, giveUp, g)
      PROVE  /\ WriterInv' /\ Target' = Target /\ (ReleaseQueued => ReleaseQueued')
             /\ HostClean => HostClean'
  <2> DEFINE report == ForeignReport(g)
  <2>1. report \in WireSet
    BY <1>5, ReportsTyped
  <2>2. report.generation = g /\ report.kind = "NONE" /\ ~report.carries
    BY DEF ForeignReport
  <2>3. Skips(k, giveUp) /\ InOrder(g) /\ Start(report) /\ held' = held
    BY <1>7 DEF StartForeign
  <2> HIDE DEF report
  <2> QED
    BY <1>4, <2>1, <2>2, <2>3
<1> QED
  BY <1>1, <1>2, <1>3, <1>6, <1>7

(* A report of the front command has been written: the command is gone, or *)
(* has been committed and waits with the motion that is left.              *)
LEMMA CreditRests ==
  ASSUME OutputTypes, WriterInv, held, wire # <<>>, applied' = Written.masks,
         queue' = IF Rewritten.left = 0 THEN Tail(queue) ELSE [queue EXCEPT ![1] = Rewritten]
  PROVE  EntriesInv' /\ Target' = Target
<1>1. queue # <<>> /\ queue \in Seq(EntrySet) /\ Written.masks = Masks(queue[1])
  BY DEF OutputTypes, HeldIsFront, QueueTypes, WriterInv, HeldReport
<1>2. /\ Rewritten \in EntrySet /\ Head(queue) = queue[1] /\ queue[1] \in EntrySet
      /\ Rewritten.left = queue[1].left - Written.motion
      /\ Rewritten = [queue[1] EXCEPT !.committed = TRUE,
                                      !.left = queue[1].left - Written.motion]
  BY <1>1, RewrittenTyped, TailElements
<1>3. /\ Rewritten.kind = queue[1].kind /\ Masks(Rewritten) = Masks(queue[1])
      /\ Rewritten.latest = queue[1].latest
  BY <1>2 DEF Masks, EntrySet
<1>4. applied' = Masks(queue[1])
  BY <1>1
<1>5. DOMAIN queue = 1 .. Len(queue) /\ Len(queue) \in Nat \ {0} /\ 1 \in DOMAIN queue
  BY <1>1
<1>6. CASE Rewritten.left = 0
  <2> DEFINE rest == Tail(queue)
  <2>1. /\ rest \in Seq(EntrySet) /\ Len(rest) = Len(queue) - 1
        /\ \A j \in DOMAIN rest : j \in Nat \ {0} /\ j + 1 \in DOMAIN queue /\ rest[j] = queue[j + 1]
    BY <1>1, TailElements
  <2>2. queue' = rest
    BY <1>6
  <2> HIDE DEF rest
  <2>3. EntriesInv'
    <3> SUFFICES ASSUME NEW j \in DOMAIN rest
                 PROVE  /\ ~rest[j].committed
                        /\ rest[j].kind = "RELEASE_ALL" =>
                             /\ ~rest[j].committed /\ ~rest[j].latest /\ rest[j].left = 0
                             /\ Masks(rest[j]) = NoMasks
      BY <2>2 DEF EntriesInv
    <3>1. j + 1 \in DOMAIN queue /\ j + 1 # 1 /\ rest[j] = queue[j + 1]
      BY <2>1
    <3> QED
      BY <3>1 DEF WriterInv, EntriesInv
  <2>4. CASE Len(queue) = 1
    <3>1. rest = <<>>
      BY <2>1, <2>4
    <3> QED
      BY <1>1, <1>4, <2>2, <2>3, <2>4, <3>1 DEF Target
  <2>5. CASE Len(queue) # 1
    <3>1. rest # <<>> /\ Len(rest) \in DOMAIN rest /\ Len(rest) + 1 = Len(queue)
      BY <1>5, <2>1, <2>5
    <3> QED
      BY <1>1, <2>1, <2>2, <2>3, <3>1 DEF Target
  <2> QED
    BY <2>4, <2>5
<1>7. CASE Rewritten.left # 0
  <2>1. queue' = [queue EXCEPT ![1] = Rewritten]
    BY <1>7
  <2> HIDE DEF Rewritten
  <2>2. /\ Len(queue') = Len(queue) /\ DOMAIN queue' = DOMAIN queue /\ queue' # <<>>
        /\ \A j \in DOMAIN queue : queue'[j] = IF j = 1 THEN Rewritten ELSE queue[j]
    BY <1>1, <1>2, <2>1, FirstEdited
  <2>3. EntriesInv'
    <3> SUFFICES ASSUME NEW j \in DOMAIN queue
                 PROVE  /\ queue'[j].committed => j = 1 /\ Masks(queue'[j]) = applied'
                        /\ queue'[j].kind = "RELEASE_ALL" =>
                             /\ ~queue'[j].committed /\ ~queue'[j].latest /\ queue'[j].left = 0
                             /\ Masks(queue'[j]) = NoMasks
      BY <2>2 DEF EntriesInv
    <3>1. CASE j = 1
      <4>1. Rewritten.kind # "RELEASE_ALL"
        <5> SUFFICES ASSUME queue[1].kind = "RELEASE_ALL" PROVE FALSE
          BY <1>3
        <5>1. queue[1].left = 0
          BY <1>5 DEF WriterInv, EntriesInv
        <5>2. Written.motion \in Moves(queue[1])
          BY DEF WriterInv, HeldReport
        <5>3. Written.motion = 0
          BY <5>1, <5>2 DEF Moves
        <5> QED
          BY <1>2, <1>7, <5>1, <5>3
      <4> QED
        BY <1>3, <1>4, <2>2, <3>1, <4>1
    <3>2. CASE j # 1
      BY <2>2, <3>2 DEF WriterInv, EntriesInv
    <3> QED
      BY <3>1, <3>2
  <2>4. Len(queue) \in DOMAIN queue
    BY <1>5
  <2>5. Masks(queue'[Len(queue)]) = Masks(queue[Len(queue)])
    BY <1>3, <2>2, <2>4
  <2> QED
    BY <1>1, <2>2, <2>3, <2>5 DEF Target
<1> QED
  BY <1>6, <1>7

(* What the host sees when a report has been written: the masks in force,  *)
(* unless the command it belonged to has been cancelled.                   *)
LEMMA FinishRests ==
  ASSUME OutputTypes, WriterInv, NEW success \in BOOLEAN, Finish(success)
  PROVE  /\ WriterInv' /\ Target' = Target
         /\ ReleaseQueued \/ HostClean => ReleaseQueued' \/ HostClean'
<1>1. /\ wire # <<>> /\ wire' = <<>> /\ held' = FALSE
      /\ HostSees(success)
      /\ UNCHANGED <<generation, stale>>
  BY DEF Finish
<1>2. Written \in WireSet
  BY <1>1 DEF OutputTypes, WireTypes, Written
<1> HIDE DEF Written
<1>3. ~Current' /\ ~Orphan' /\ HeldReport' /\ PhysicalShown'
  BY <1>1, Zenon DEF Current, Orphan, HeldReport, PhysicalShown
<1>4. fresh' => fresh \/ Current
  BY <1>1, Zenon DEF HostSees, Current
<1>5. GenerationsInOrder'
  <2>1. fresh' => ~stale
    BY <1>4, Zenon DEF WriterInv, GenerationsInOrder
  <2> QED
    BY <1>1, <1>3, <2>1, Zenon DEF GenerationsInOrder
<1>6. CASE held /\ success
  <2>1. /\ applied' = Written.masks
        /\ queue' = IF Rewritten.left = 0 THEN Tail(queue) ELSE [queue EXCEPT ![1] = Rewritten]
    BY <1>6 DEF Finish
  <2>2. EntriesInv' /\ Target' = Target
    BY <1>1, <1>6, <2>1, CreditRests
  <2>3. /\ Written.generation = generation /\ Written.masks = Masks(queue[1])
        /\ Written.kind = queue[1].kind
        /\ Written.carries => Written.shown = Written.buttons \cup ButtonsOf(Masks(queue[1]))
        /\ ~Written.carries /\ fresh => Written.shown = physical \cup ButtonsOf(Masks(queue[1]))
    BY <1>6 DEF WriterInv, HeldReport
  <2>4. Written.kind # "NONE"
    <3>1. queue[1] \in EntrySet
      BY <1>6, TailElements DEF OutputTypes, QueueTypes, HeldIsFront
    <3> QED
      BY <2>3, <3>1 DEF EntrySet, ReportKinds, Reported, Forced
  <2>5. ~(Written.generation < generation)
    BY <2>3, OutputLimits DEF OutputTypes, GenerationType
  <2>6. host' = Written.shown
    BY <1>1, <1>6, <2>4, Zenon DEF HostSees
  <2>7. physical' = IF Written.carries THEN Written.buttons ELSE physical
    <3>1. CASE Written.carries
      BY <1>1, <1>6, <2>5, <3>1 DEF HostSees
    <3>2. CASE ~Written.carries
      BY <1>1, <3>2 DEF HostSees
    <3> QED
      BY <3>1, <3>2
  <2>8. fresh' => host' = physical' \cup ButtonsOf(applied')
    <3>1. CASE Written.carries
      BY <2>1, <2>3, <2>6, <2>7, <3>1
    <3>2. CASE ~Written.carries
      <4>1. fresh' => fresh
        BY <1>1, <3>2, Zenon DEF HostSees
      <4> QED
        BY <2>1, <2>3, <2>6, <2>7, <3>2, <4>1
    <3> QED
      BY <3>1, <3>2
  <2> QED
    BY <1>3, <1>5, <2>2, <2>8 DEF WriterInv, HostClean
<1>7. CASE ~(held /\ success)
  <2>1. applied' = applied /\ queue' = queue
    BY <1>7 DEF Finish
  <2>2. EntriesInv' /\ Target' = Target /\ ReleaseQueued' = ReleaseQueued
    BY <2>1 DEF WriterInv, EntriesInv, Target, ReleaseQueued
  <2>3. ASSUME HostClean, fresh' PROVE host' = physical' \cup ButtonsOf(applied')
    <3>1. CASE ~success
      <4>1. host' = host /\ physical' = physical /\ fresh
        BY <1>1, <2>3, <3>1, Zenon DEF HostSees
      <4> QED
        BY <2>1, <2>3, <4>1 DEF HostClean
    <3>2. CASE success
      <4>1. ~held /\ ~Orphan
        BY <1>7, <2>3, <3>2, Zenon DEF HostClean
      <4>2. Current
        BY <1>4, <2>3, <1>1 DEF WriterInv, GenerationsInOrder
      <4>3. Written.kind = "NONE" /\ Written.generation = generation
        BY <4>1, <4>2, Zenon DEF Orphan, Current
      <4>4. CASE Written.carries
        <5>1. host' = Written.shown
          BY <1>1, <3>2, <4>4, Zenon DEF HostSees
        <5>2. ~(Written.generation < generation)
          BY <4>3, OutputLimits DEF OutputTypes, GenerationType
        <5>3. physical' = Written.buttons
          BY <1>1, <3>2, <4>4, <5>2 DEF HostSees
        <5>4. Written.shown = Written.buttons \cup ButtonsOf(applied)
          BY <4>2, <4>3, <4>4 DEF WriterInv, PhysicalShown
        <5> QED
          BY <2>1, <5>1, <5>3, <5>4
      <4>5. CASE ~Written.carries
        <5>1. host' = host /\ physical' = physical
          BY <1>1, <4>3, <4>5 DEF HostSees
        <5>2. fresh
          BY <1>1, <2>3, <4>5, Zenon DEF HostSees
        <5> QED
          BY <2>1, <2>3, <5>1, <5>2 DEF HostClean
      <4> QED
        BY <4>4, <4>5
    <3> QED
      BY <3>1, <3>2
  <2>4. HostClean => HostClean'
    BY <1>3, <2>3 DEF HostClean
  <2> QED
    BY <1>3, <1>5, <2>2, <2>4 DEF WriterInv
<1> QED
  BY <1>6, <1>7

LEMMA ResetRests ==
  ASSUME OutputTypes, WriterInv, Reset
  PROVE  WriterInv' /\ Target' = NoMasks /\ HostClean'
<1>1. /\ queue' = <<>> /\ held' = FALSE /\ fresh' = FALSE /\ applied' = NoMasks
      /\ wire' = wire /\ generation' = generation + 1 /\ DOMAIN queue' = {}
  BY DEF Reset
<1>2. generation \in Nat
  BY OutputLimits DEF OutputTypes, GenerationType
<1>3. ASSUME wire # <<>>
      PROVE  Written' = Written /\ Written.generation < generation'
  <2>1. Written' = Written /\ Written.generation <= generation
    BY <1>1, <1>3 DEF Written, WriterInv, GenerationsInOrder
  <2>2. Written.generation \in Nat
    <3>1. Written \in WireSet
      BY <1>3 DEF OutputTypes, WireTypes, Written
    <3> HIDE DEF Written
    <3> QED
      BY <3>1 DEF WireSet
  <2> QED
    BY <1>1, <1>2, <2>1, <2>2
<1>4. ~Current' /\ (wire' # <<>> => Written'.generation <= generation')
  <2>1. CASE wire = <<>>
    BY <1>1, <2>1 DEF Current
  <2>2. CASE wire # <<>>
    <3>1. /\ Written' = Written /\ Written.generation < generation'
          /\ Written.generation \in Int /\ generation' \in Int
      <4>1. Written \in WireSet
        BY <2>2 DEF OutputTypes, WireTypes, Written
      <4> HIDE DEF Written
      <4> QED
        BY <1>1, <1>2, <1>3, <2>2, <4>1 DEF WireSet
    <3>2. Written.generation # generation' /\ Written.generation <= generation'
      BY <3>1
    <3> QED
      BY <3>1, <3>2 DEF Current
  <2> QED
    BY <2>1, <2>2
<1> QED
  BY <1>1, <1>4 DEF WriterInv, HeldReport, PhysicalShown, GenerationsInOrder, EntriesInv, Target,
                    HostClean, Orphan

(* Nothing the output does by itself takes the host away from what the     *)
(* queue leads to.                                                         *)
LEMMA OutputRests ==
  ASSUME OutputTypes, WriterInv,
         WriterTakes \/ WriterFinishes \/ Tell \/ BecomeReady \/ Discard \/ Reset
  PROVE  /\ WriterInv' /\ Target' \in {Target, NoMasks}
         /\ ReleaseQueued \/ HostClean => ReleaseQueued' \/ HostClean'
<1>1. CASE WriterTakes
  BY <1>1, TakeRests
<1>2. CASE WriterFinishes
  BY <1>2, FinishRests DEF WriterFinishes
<1>3. CASE Tell \/ BecomeReady
  <2>1. UNCHANGED WriterSees /\ UNCHANGED host
    BY <1>3 DEF Tell, BecomeReady, WriterSees
  <2> QED
    BY <2>1, WriterKept
<1>4. CASE Discard
  <2>1. stale' = FALSE /\ UNCHANGED <<generation, queue, held, wire, fresh, applied, physical, host>>
    BY <1>4 DEF Discard
  <2>2. Written' = Written /\ Current' = Current
    BY <2>1 DEF Written, Current
  <2> QED
    BY <2>1, <2>2 DEF WriterInv, HeldReport, PhysicalShown, GenerationsInOrder, EntriesInv, Target,
                      ReleaseQueued, HostClean, Orphan
<1>5. CASE Reset
  BY <1>5, ResetRests
<1> QED
  BY <1>1, <1>2, <1>3, <1>4, <1>5

-----------------------------------------------------------------------------
(* The loop's steps.                                                       *)

Ending == pc \in {"stopping", "stopped"}
releaseSees == <<persistentButtons, scheduledButtons, releasePending, releaseInflight>>

(* A step that does not touch the queue and asks for no buttons.           *)
LEMMA QuietRests ==
  ASSUME WriterInv, ReleaseInv, UNCHANGED WriterSees, UNCHANGED host, UNCHANGED releaseSees,
         Ending => Ending'
  PROVE  WriterInv' /\ ReleaseInv'
<1>1. /\ WriterInv' /\ Target' = Target /\ ReleaseQueued' = ReleaseQueued
      /\ HostClean' = HostClean
  BY WriterKept
<1>2. TargetHeld' = TargetHeld
  BY <1>1 DEF TargetHeld, releaseSees
<1> QED
  BY <1>1, <1>2 DEF ReleaseInv, releaseSees, Ending

LEMMA OutputQuiet ==
  UNCHANGED outputVars \/ TakeEvents \/ TakeOverflow => UNCHANGED WriterSees /\ UNCHANGED host
  BY DEF outputVars, TakeEvents, TakeOverflow, WriterSees

LEMMA RefusedQuiet ==
  \A why \in Refusals : Refuse(why) => UNCHANGED WriterSees /\ UNCHANGED host
  BY DEF Refuse, outputVars, WriterSees

(* Steps of the loop that change neither buttons nor clicks.               *)
LEMMA QuietStepsRest ==
  ASSUME RestInv,
         \/ Top \/ Resnapshot \/ FetchEvents \/ FetchOverflow \/ HandleOther
         \/ (Watchdog /\ ~Silent) \/ TickIdle \/ Timeout \/ Lapse
         \/ \E peer \in Peers : ReceiveKeepalive(peer) \/ \E key \in Keys : ReceiveAgain(peer, key)
         \/ \E peer \in Peers, next \in Holds, moves \in Moving, text \in BOOLEAN :
              ReceiveHold(peer, next, moves, text)
  PROVE  RestInv'
<1>1. /\ UNCHANGED outputVars \/ TakeEvents \/ TakeOverflow
      /\ UNCHANGED releaseSees /\ work' = work /\ ~Ending
  BY DEF Top, Resnapshot, FetchEvents, FetchOverflow, HandleOther, Watchdog, TickIdle, Timeout,
         Lapse, ReceiveKeepalive, ReceiveAgain, ReceiveHold, Receive, workVars, releaseVars,
         releaseSees, Ending
<1>2. WriterInv' /\ ReleaseInv'
  BY <1>1, OutputQuiet, QuietRests DEF RestInv
<1>3. ClicksInv'
  BY <1>1 DEF RestInv, ClicksInv, releaseSees
<1> QED
  BY <1>2, <1>3 DEF RestInv

LEMMA NoClicksRest ==
  ASSUME work' = <<>>, scheduledButtons' = {}
  PROVE  ClicksInv'
<1>1. DOMAIN work' = {}
  OBVIOUS
<1> QED
  BY <1>1 DEF ClicksInv

(* begin_reset(): a release is owed, whatever the host sees.               *)
LEMMA ResetsRest ==
  ASSUME RestInv,
         \/ ResetChanged \/ ResetLost \/ (Watchdog /\ Silent) \/ ResetUnfit \/ HandleFailure
         \/ \E peer \in Peers : ReceiveTextRelease(peer) \/ \E key \in Keys : ReceiveReleaseAll(peer, key)
  PROVE  RestInv'
<1>1. \E attach, key, recs : BeginReset(attach, key, recs)
  BY DEF ResetChanged, ResetLost, Watchdog, ResetUnfit, HandleFailure, ReceiveTextRelease,
         ReceiveReleaseAll
<1>2. /\ work' = <<>> /\ scheduledButtons' = {} /\ Clear
      /\ releaseInflight' = FALSE /\ releasePending' = TRUE
  BY <1>1 DEF BeginReset
<1>3. WriterInv'
  BY <1>2, ClearRests DEF RestInv
<1>4. ReleaseInv'
  BY <1>2, Zenon DEF ReleaseInv
<1> QED
  BY <1>2, <1>3, <1>4, NoClicksRest DEF RestInv

LEMMA StopRests ==
  ASSUME ServerInv, RestInv, Stop \/ LastRelease
  PROVE  RestInv'
<1>1. Ending' /\ ReleaseInv'
  BY DEF Stop, LastRelease, Ending, ReleaseInv
<1>2. CASE Stop
  <2>1. work' = <<>> /\ scheduledButtons' = {} /\ Clear
    BY <1>2 DEF Stop
  <2> QED
    BY <1>1, <2>1, NoClicksRest, ClearRests DEF RestInv
<1>3. CASE LastRelease
  <2> DEFINE c == Report("RELEASE_ALL", NoKey, 0, {}, {}, 0, 0, FALSE)
  <2>1. c \in CommandSet /\ PlainRelease(c)
    BY ReportsAreCommands DEF ServerInv, Report, PlainRelease
  <2> HIDE DEF c
  <2>2. Accept(c) \/ UNCHANGED WriterSees
    BY <1>3, RefusedQuiet DEF LastRelease, c, Refusals
  <2>3. WriterInv'
    BY <2>1, <2>2, AcceptRests, WriterKept DEF RestInv, ServerInv, ServerTypes
  <2>4. ClicksInv'
    BY <1>3 DEF LastRelease, workVars, RestInv, ClicksInv
  <2> QED
    BY <1>1, <2>3, <2>4 DEF RestInv
<1> QED
  BY <1>2, <1>3

(* A command is accepted, and the loop holds what it asks for.             *)
LEMMA AcceptedRests ==
  ASSUME OutputTypes, WriterInv, ReleaseInv, NEW c \in CommandSet, PlainRelease(c), Accept(c),
         c.persistent = persistentButtons', c.scheduled = scheduledButtons',
         UNCHANGED <<releasePending, releaseInflight>>, ~Ending
  PROVE  WriterInv' /\ ReleaseInv'
<1>1. /\ WriterInv' /\ Target' = [persistent |-> c.persistent, scheduled |-> c.scheduled]
      /\ ReleaseQueued => ReleaseQueued'
      /\ HostClean => HostClean'
  BY AcceptRests
<1>2. TargetHeld'
  BY <1>1 DEF TargetHeld
<1>3. CASE releasePending /\ ~releaseInflight
  BY <1>1, <1>3, Zenon DEF ReleaseInv
<1>4. CASE ReleaseQueued \/ HostClean
  BY <1>1, <1>2, <1>4 DEF ReleaseInv
<1> QED
  BY <1>1, <1>3, <1>4 DEF ReleaseInv, Ending

LEMMA TickReleaseRests ==
  ASSUME ServerInv, RestInv, TickRelease
  PROVE  RestInv'
<1>1. ClicksInv'
  BY DEF TickRelease, workVars, RestInv, ClicksInv
<1>2. CASE Accept(ReleaseReport)
  <2>1. ReleaseReport \in CommandSet /\ PlainRelease(ReleaseReport)
        /\ ReleaseReport.kind = "RELEASE_ALL"
        /\ ReleaseReport.persistent = {} /\ ReleaseReport.scheduled = {}
    BY ReportsAreCommands DEF ServerInv, ReleaseReport, Report, PlainRelease
  <2> HIDE DEF ReleaseReport
  <2>2. /\ WriterInv' /\ Target' = [persistent |-> {}, scheduled |-> {}]
        /\ ReleaseQueued'
    BY <1>2, <2>1, AcceptRests DEF RestInv, ServerInv, ServerTypes
  <2>3. TargetHeld'
    BY <2>2 DEF TargetHeld
  <2> QED
    BY <1>1, <2>2, <2>3 DEF RestInv, ReleaseInv
<1>3. CASE UNCHANGED releaseInflight /\ UNCHANGED WriterSees /\ UNCHANGED host
  <2>1. UNCHANGED releaseSees /\ ~Ending
    BY <1>3 DEF TickRelease, workVars, releaseSees, Ending
  <2> QED
    BY <1>1, <1>3, <2>1, QuietRests DEF RestInv
<1> QED
  BY <1>2, <1>3, OutputQuiet, RefusedQuiet DEF TickRelease, Refusals

LEMMA EnqueueHoldRests ==
  ASSUME ServerInv, RestInv, EnqueueHold
  PROVE  RestInv'
<1>1. ClicksInv'
  BY DEF EnqueueHold, RestInv, ClicksInv
<1>2. UNCHANGED <<scheduledButtons, releasePending, releaseInflight>> /\ ~Ending
  BY DEF EnqueueHold, releaseVars, Ending
<1>3. CASE Accept(HoldReport(asked)) /\ persistentButtons' = asked.next
  <2>1. /\ HoldReport(asked) \in CommandSet /\ PlainRelease(HoldReport(asked))
        /\ HoldReport(asked).persistent = asked.next
        /\ HoldReport(asked).scheduled = scheduledButtons
    BY ReportsAreCommands DEF ServerInv, HoldReport, Report, PlainRelease
  <2> HIDE DEF HoldReport
  <2> QED
    BY <1>1, <1>2, <1>3, <2>1, AcceptedRests DEF RestInv, ServerInv, ServerTypes
<1>4. CASE persistentButtons' = persistentButtons /\ UNCHANGED WriterSees /\ UNCHANGED host
  BY <1>1, <1>2, <1>4, QuietRests DEF RestInv, releaseSees
<1> QED
  BY <1>3, <1>4, RefusedQuiet DEF EnqueueHold

-----------------------------------------------------------------------------
(* Clicks.                                                                 *)

(* The front click alone changes.                                          *)
LEMMA FrontRests ==
  ASSUME ServerTypes, ClicksInv, work # <<>>, NEW c \in ClickSet, work' = [work EXCEPT ![1] = c],
         scheduledButtons' # {} =>
           scheduledButtons' = {ClickButton} /\ c.phase \notin {"AwaitPress", "ReleaseInflight"}
  PROVE  ClicksInv'
<1>1. work \in Seq(ClickSet)
  BY DEF ServerTypes, WorkTypes
<1>2. /\ DOMAIN work' = DOMAIN work /\ work' # <<>> /\ 1 \in DOMAIN work
      /\ \A j \in DOMAIN work : work'[j] = IF j = 1 THEN c ELSE work[j]
  BY <1>1, FirstEdited
<1> QED
  BY <1>2 DEF ClicksInv

LEMMA DelayRests ==
  ASSUME ServerInv, RestInv, DelayPasses
  PROVE  RestInv'
<1>1. /\ work # <<>> /\ work' = [work EXCEPT ![1].due = TRUE] /\ pc' = pc
      /\ UNCHANGED outputVars /\ UNCHANGED releaseSees
  BY DEF DelayPasses, releaseVars, releaseSees
<1> DEFINE c == [work[1] EXCEPT !.due = TRUE]
<1>2. work[1] \in ClickSet
  BY <1>1, FrontClick DEF ServerInv
<1>3. c \in ClickSet /\ c.phase = work[1].phase
  BY <1>2 DEF ClickSet
<1>4. work' = [work EXCEPT ![1] = c]
  BY <1>1
<1> HIDE DEF c
<1>5. ClicksInv'
  <2>1. scheduledButtons' # {} =>
          scheduledButtons' = {ClickButton} /\ c.phase \notin {"AwaitPress", "ReleaseInflight"}
    BY <1>1, <1>3 DEF RestInv, ClicksInv, releaseSees
  <2> QED
    BY <1>1, <1>3, <1>4, <2>1, FrontRests DEF RestInv, ServerInv
<1> QED
  BY <1>1, <1>5, OutputQuiet, QuietRests DEF RestInv, Ending

LEMMA HandlePressedRests ==
  ASSUME ServerInv, RestInv, HandlePressed
  PROVE  RestInv'
<1> DEFINE phase == IF Event.blocked THEN "AwaitRelease" ELSE "Holding"
           c == [work[1] EXCEPT !.blocked = Event.blocked, !.due = Event.blocked, !.phase = phase]
<1>1. /\ pc = "handle" /\ work # <<>> /\ work[1].phase = "PressInflight"
      /\ work' = [work EXCEPT ![1].blocked = Event.blocked, ![1].due = Event.blocked,
                              ![1].phase = phase]
      /\ UNCHANGED outputVars /\ UNCHANGED releaseSees /\ ~Ending
  BY FrontClick DEF HandlePressed, IsPress, IsOfClick, releaseVars, releaseSees, Ending, ServerInv
<1>2. work[1] \in ClickSet /\ 1 \in DOMAIN work
  BY <1>1, FrontClick DEF ServerInv
<1>3. Event.blocked \in BOOLEAN
  <2>1. Event \in EventSet
    BY <1>1, AfterEventKeeps DEF ServerInv, HandlePressed
  <2> QED
    BY <2>1 DEF EventSet
<1>4. phase \in Phases /\ phase \notin {"AwaitPress", "ReleaseInflight"}
  BY DEF Phases
<1> HIDE DEF phase
<1>5. c \in ClickSet /\ c.phase = phase
  BY <1>2, <1>3, <1>4 DEF ClickSet
<1>6. work' = [work EXCEPT ![1] = c]
  BY <1>1, <1>2 DEF ServerInv, ServerTypes, WorkTypes
<1> HIDE DEF c
<1>7. scheduledButtons' # {} => scheduledButtons' = {ClickButton}
  BY <1>1 DEF RestInv, ClicksInv, releaseSees
<1>8. ClicksInv'
  BY <1>1, <1>4, <1>5, <1>6, <1>7, FrontRests DEF RestInv, ServerInv
<1> QED
  BY <1>1, <1>8, OutputQuiet, QuietRests DEF RestInv

(* The front click goes, after its button has been released.               *)
LEMMA GoneRests ==
  ASSUME ServerTypes, ClicksInv, work # <<>>, work' = Tail(work), scheduledButtons' = {}
  PROVE  ClicksInv'
<1>1. work \in Seq(ClickSet)
  BY DEF ServerTypes, WorkTypes
<1>2. \A j \in DOMAIN work' : j \in Nat \ {0} /\ j + 1 \in DOMAIN work /\ work'[j] = work[j + 1]
  BY <1>1, TailElements
<1>3. \A j \in DOMAIN work' : work'[j].phase = "AwaitPress"
  <2> SUFFICES ASSUME NEW j \in DOMAIN work' PROVE work'[j].phase = "AwaitPress"
    OBVIOUS
  <2>1. j + 1 # 1 /\ j + 1 \in DOMAIN work /\ work'[j] = work[j + 1]
    BY <1>2
  <2> QED
    BY <2>1 DEF ClicksInv
<1> QED
  BY <1>3 DEF ClicksInv

LEMMA HandleClickedRests ==
  ASSUME ServerInv, RestInv, HandleClicked
  PROVE  RestInv'
<1>1. /\ work # <<>> /\ Head(work).phase = "ReleaseInflight" /\ ~Ending
      /\ UNCHANGED <<outputVars, persistentButtons, releasePending, releaseInflight>>
      /\ \/ work' = Tail(work) /\ scheduledButtons' = {}
         \/ /\ work' = [work EXCEPT ![1].index = Head(work).index + 1, ![1].phase = "AwaitPress",
                                    ![1].blocked = FALSE, ![1].due = FALSE]
            /\ UNCHANGED scheduledButtons
  <2>1. HandleClicked => work # <<>>
    BY DEF HandleClicked, IsEdge, IsOfClick
  <2>2. Head(work) = work[1] /\ 1 \in DOMAIN work
    BY <2>1, FrontClick DEF ServerInv
  <2> QED
    BY <2>1, <2>2 DEF HandleClicked, IsEdge, releaseVars, FinishFront, Ending
<1>2. work[1] \in ClickSet /\ Head(work) = work[1] /\ 1 \in DOMAIN work /\ work[1].index + 1 \in Nat
  BY <1>1, FrontClick DEF ServerInv
<1>3. scheduledButtons = {}
  BY <1>1, <1>2 DEF RestInv, ClicksInv
<1>4. scheduledButtons' = {}
  BY <1>1, <1>3
<1>5. CASE work' = Tail(work)
  <2>1. ClicksInv'
    BY <1>1, <1>4, <1>5, GoneRests DEF RestInv, ServerInv
  <2> QED
    BY <1>1, <1>3, <1>4, <2>1, OutputQuiet, QuietRests DEF RestInv, releaseSees
<1>6. CASE work' = [work EXCEPT ![1].index = Head(work).index + 1, ![1].phase = "AwaitPress",
                                ![1].blocked = FALSE, ![1].due = FALSE]
  <2> DEFINE n == work[1].index + 1
             c == [work[1] EXCEPT !.index = n, !.phase = "AwaitPress", !.blocked = FALSE, !.due = FALSE]
  <2>1. n \in Nat
    BY <1>2
  <2> HIDE DEF n
  <2>2. c \in ClickSet
    BY <1>2, <2>1 DEF ClickSet, Phases
  <2> USE DEF n
  <2>3. work' = [work EXCEPT ![1] = c]
    BY <1>2, <1>6 DEF ServerInv, ServerTypes, WorkTypes
  <2> HIDE DEF c
  <2>4. ClicksInv'
    BY <1>1, <1>4, <2>2, <2>3, FrontRests DEF RestInv, ServerInv
  <2> QED
    BY <1>1, <1>3, <1>4, <2>4, OutputQuiet, QuietRests DEF RestInv, releaseSees
<1> QED
  BY <1>1, <1>5, <1>6

LEMMA TickSnapshotRests ==
  ASSUME ServerInv, RestInv, TickSnapshot
  PROVE  RestInv'
<1>1. /\ work # <<>> /\ Head(work).phase = "AwaitPress" /\ ~Ending
      /\ UNCHANGED <<outputVars, persistentButtons, releasePending, releaseInflight>>
      /\ \/ UNCHANGED <<scheduledButtons, work>>
         \/ work' = Tail(work) /\ scheduledButtons' = {}
  BY DEF TickSnapshot, Ticking, FinishFront, workVars, releaseVars, Ending
<1>2. Head(work) = work[1]
  BY <1>1, FrontClick DEF ServerInv
<1>3. scheduledButtons = {}
  BY <1>1, <1>2 DEF RestInv, ClicksInv
<1>4. CASE UNCHANGED <<scheduledButtons, work>>
  <2>1. ClicksInv'
    BY <1>4 DEF RestInv, ClicksInv
  <2> QED
    BY <1>1, <1>4, <2>1, OutputQuiet, QuietRests DEF RestInv, releaseSees
<1>5. CASE work' = Tail(work) /\ scheduledButtons' = {}
  <2>1. ClicksInv'
    BY <1>1, <1>5, GoneRests DEF RestInv, ServerInv
  <2> QED
    BY <1>1, <1>3, <1>5, <2>1, OutputQuiet, QuietRests DEF RestInv, releaseSees
<1> QED
  BY <1>1, <1>4, <1>5

LEMMA TickEditRests ==
  ASSUME ServerInv, RestInv, TickPress \/ TickEdge
  PROVE  RestInv'
<1>1. work # <<>> /\ ~Ending
  BY DEF TickPress, TickEdge, Ticking, Ending, ServerInv, ServerTypes, CallsReady
<1>2. Head(work) = work[1] /\ work[1] \in ClickSet /\ 1 \in DOMAIN work
  BY <1>1, FrontClick DEF ServerInv
<1>3. Head(work).button = ClickButton
  BY <1>2 DEF ClickSet
<1>4. scheduledButtons \in {{}, {ClickButton}}
  BY DEF RestInv, ClicksInv
<1>5. persistentButtons' = persistentButtons /\ UNCHANGED <<releasePending, releaseInflight>>
  BY DEF TickPress, TickEdge, releaseVars
<1>6. ASSUME NEW phase \in Phases, work' = [work EXCEPT ![1].phase = phase],
             scheduledButtons' \in {{}, {ClickButton}},
             scheduledButtons' # {} => phase \notin {"AwaitPress", "ReleaseInflight"}
      PROVE  ClicksInv'
  <2> DEFINE c == [work[1] EXCEPT !.phase = phase]
  <2>1. c \in ClickSet /\ work' = [work EXCEPT ![1] = c]
    BY <1>1, <1>6, PhaseChange DEF ServerInv
  <2>2. c.phase = phase
    BY <1>2 DEF ClickSet
  <2> HIDE DEF c
  <2> QED
    BY <1>1, <1>6, <2>1, <2>2, FrontRests DEF RestInv, ServerInv
<1>7. CASE /\ Accept(PressReport(Head(work)))
           /\ scheduledButtons' = scheduledButtons \cup {Head(work).button}
           /\ work' = [work EXCEPT ![1].phase = "PressInflight"]
  <2>1. PressReport(work[1]) \in CommandSet /\ PlainRelease(PressReport(work[1]))
        /\ PressReport(work[1]).persistent = persistentButtons
        /\ PressReport(work[1]).scheduled = scheduledButtons \cup {work[1].button}
    BY <1>2, ReportsAreCommands DEF ServerInv, PressReport, Report, PlainRelease
  <2> HIDE DEF PressReport
  <2>2. WriterInv' /\ ReleaseInv'
    BY <1>1, <1>2, <1>5, <1>7, <2>1, AcceptedRests DEF RestInv, ServerInv, ServerTypes
  <2>3. scheduledButtons' \in {{}, {ClickButton}}
    BY <1>3, <1>4, <1>7
  <2>4. ClicksInv'
    BY <1>6, <1>7, <2>3 DEF Phases
  <2> QED
    BY <2>2, <2>4 DEF RestInv
<1>8. CASE /\ Accept(EdgeReport(Head(work)))
           /\ scheduledButtons' = scheduledButtons \ {Head(work).button}
           /\ work' = [work EXCEPT ![1].phase = "ReleaseInflight"]
  <2>1. EdgeReport(work[1]) \in CommandSet /\ PlainRelease(EdgeReport(work[1]))
        /\ EdgeReport(work[1]).persistent = persistentButtons
        /\ EdgeReport(work[1]).scheduled = scheduledButtons \ {work[1].button}
    BY <1>2, ReportsAreCommands DEF ServerInv, EdgeReport, Report, PlainRelease
  <2> HIDE DEF EdgeReport
  <2>2. WriterInv' /\ ReleaseInv'
    BY <1>1, <1>2, <1>5, <1>8, <2>1, AcceptedRests DEF RestInv, ServerInv, ServerTypes
  <2>3. scheduledButtons' = {}
    BY <1>3, <1>4, <1>8
  <2>4. ClicksInv'
    BY <1>6, <1>8, <2>3 DEF Phases
  <2> QED
    BY <2>2, <2>4 DEF RestInv
<1>9. ASSUME UNCHANGED WriterSees, UNCHANGED host, scheduledButtons' = scheduledButtons, ClicksInv'
      PROVE  RestInv'
  BY <1>1, <1>5, <1>9, QuietRests DEF RestInv, releaseSees
<1>10. CASE UNCHANGED WriterSees /\ UNCHANGED host /\ UNCHANGED <<scheduledButtons, work>>
  <2>1. ClicksInv'
    BY <1>10 DEF RestInv, ClicksInv
  <2> QED
    BY <1>9, <1>10, <2>1
<1>11. CASE /\ Ticking({"Holding", "AwaitRelease"})
            /\ UNCHANGED WriterSees /\ UNCHANGED host /\ UNCHANGED scheduledButtons
            /\ work' = [work EXCEPT ![1].phase = "AwaitRelease"]
  <2>1. ClicksInv'
    BY <1>4, <1>6, <1>11 DEF Phases
  <2> QED
    BY <1>9, <1>11, <2>1
<1>12. CASE TickPress
  BY <1>7, <1>10, <1>12, RefusedQuiet DEF TickPress
<1>13. CASE TickEdge
  BY <1>8, <1>10, <1>11, <1>13, RefusedQuiet DEF TickEdge, Refusals
<1> QED
  BY <1>12, <1>13

(* The release that was enqueued has been written: what is owed is done.   *)
LEMMA HandleReleasedRests ==
  ASSUME RestInv, HandleReleased
  PROVE  RestInv'
<1>1. /\ UNCHANGED outputVars /\ UNCHANGED <<persistentButtons, scheduledButtons, work>>
      /\ releaseInflight /\ ~Ending
  BY DEF HandleReleased, IsRelease, Ending
<1>2. UNCHANGED WriterSees /\ UNCHANGED host
  BY <1>1, OutputQuiet
<1>3. /\ WriterInv' /\ Target' = Target /\ ReleaseQueued' = ReleaseQueued
      /\ HostClean' = HostClean
  BY <1>2, WriterKept DEF RestInv
<1>4. TargetHeld /\ (ReleaseQueued \/ HostClean)
  BY <1>1, Zenon DEF RestInv, ReleaseInv, Ending
<1>5. TargetHeld'
  BY <1>1, <1>3, <1>4 DEF TargetHeld
<1>6. ReleaseInv'
  BY <1>3, <1>4, <1>5 DEF ReleaseInv
<1>7. ClicksInv'
  BY <1>1 DEF RestInv, ClicksInv
<1> QED
  BY <1>3, <1>6, <1>7 DEF RestInv

(* A click command that is accepted waits for its press.                   *)
LEMMA ClickAcceptedRests ==
  ASSUME ServerInv, RestInv,
         \E peer \in Peers :
           \/ ReceiveTextClick(peer)
           \/ \E key \in Keys, count \in Counts : ReceiveSchedule(peer, key, count)
  PROVE  RestInv'
<1>1. /\ \E key \in AnyKey, count \in Nat : work' = Append(work, Click(key, count))
      /\ UNCHANGED outputVars /\ UNCHANGED releaseSees /\ ~Ending
  BY ServerLimits DEF ReceiveTextClick, ReceiveSchedule, Receive, releaseVars, releaseSees, Ending, AnyKey
<1>2. PICK key \in AnyKey, count \in Nat : work' = Append(work, Click(key, count))
  BY <1>1
<1> DEFINE c == Click(key, count)
<1>3. c \in ClickSet /\ c.phase = "AwaitPress"
  BY NewClick DEF Click
<1> HIDE DEF c
<1>4. work \in Seq(ClickSet)
  BY DEF ServerInv, ServerTypes, WorkTypes
<1>5. work' = Append(work, c)
  BY <1>2 DEF c
<1>6. /\ \A j \in DOMAIN work : j \in DOMAIN work' /\ work'[j] = work[j]
      /\ \A j \in DOMAIN work' : j \in DOMAIN work \/ work'[j] = c
      /\ work' \in Seq(ClickSet) /\ Len(work') = Len(work) + 1
  BY <1>3, <1>4, <1>5, AppendElements
<1>7. work' # <<>> /\ (work # <<>> => 1 \in DOMAIN work)
  BY <1>4, <1>6
<1>8. ClicksInv'
  <2>1. \A j \in DOMAIN work' : j # 1 => work'[j].phase = "AwaitPress"
    BY <1>3, <1>6 DEF RestInv, ClicksInv
  <2>2. scheduledButtons' # {} =>
          /\ work' # <<>> /\ work'[1].phase \notin {"AwaitPress", "ReleaseInflight"}
          /\ scheduledButtons' = {ClickButton}
    BY <1>1, <1>6, <1>7 DEF RestInv, ClicksInv, releaseSees
  <2> QED
    BY <2>1, <2>2 DEF ClicksInv
<1> QED
  BY <1>1, <1>8, OutputQuiet, QuietRests DEF RestInv

-----------------------------------------------------------------------------
(* The theorem.                                                            *)

LEMMA OutputActRests ==
  ASSUME ServerInv, RestInv, UNCHANGED serverVars,
         WriterTakes \/ WriterFinishes \/ Tell \/ BecomeReady \/ Discard \/ Reset
  PROVE  RestInv'
<1>1. /\ WriterInv' /\ Target' \in {Target, NoMasks}
      /\ ReleaseQueued \/ HostClean => ReleaseQueued' \/ HostClean'
  BY OutputRests DEF RestInv, ServerInv, ServerTypes
<1>2. UNCHANGED releaseSees /\ work' = work /\ pc' = pc
  BY DEF serverVars, workVars, releaseVars, releaseSees
<1>3. TargetHeld => TargetHeld'
  BY <1>1, <1>2 DEF TargetHeld, NoMasks, releaseSees
<1>4. ReleaseInv'
  BY <1>1, <1>2, <1>3 DEF RestInv, ReleaseInv, releaseSees
<1>5. ClicksInv'
  BY <1>2 DEF RestInv, ClicksInv, releaseSees
<1> QED
  BY <1>1, <1>4, <1>5 DEF RestInv

LEMMA InitRests == Init => RestInv
<1> SUFFICES ASSUME Init PROVE RestInv
  OBVIOUS
<1>1. /\ queue = <<>> /\ wire = <<>> /\ held = FALSE /\ fresh = FALSE /\ applied = NoMasks
      /\ work = <<>> /\ scheduledButtons = {} /\ DOMAIN queue = {} /\ DOMAIN work = {}
  BY DEF Init, OutputInit
<1>2. ~Current
  BY <1>1 DEF Current
<1>3. WriterInv
  BY <1>1, <1>2 DEF WriterInv, HeldReport, PhysicalShown, GenerationsInOrder, EntriesInv
<1>4. ClicksInv
  BY <1>1 DEF ClicksInv
<1>5. TargetHeld /\ HostClean
  BY <1>1, <1>2 DEF Target, TargetHeld, NoMasks, HostClean, Orphan
<1> QED
  BY <1>3, <1>4, <1>5 DEF RestInv, ReleaseInv

LEMMA RestKept == ServerInv /\ RestInv /\ [Next]_vars => RestInv'
<1> SUFFICES ASSUME ServerInv, RestInv, [Next]_vars PROVE RestInv'
  OBVIOUS
<1>1. CASE LoopStep
  <2>1. Watchdog => (Watchdog /\ Silent) \/ (Watchdog /\ ~Silent)
    OBVIOUS
  <2> QED
    BY <1>1, <2>1, QuietStepsRest, ResetsRest, StopRests, TickReleaseRests, EnqueueHoldRests,
       HandlePressedRests, HandleClickedRests, HandleReleasedRests, TickSnapshotRests, TickEditRests
       DEF LoopStep
<1>2. CASE ReceivePacket
  <2>1. PICK peer \in Peers :
          \/ \E key \in Keys :
               \/ \E count \in Counts : ReceiveSchedule(peer, key, count)
               \/ ReceiveReleaseAll(peer, key)
               \/ ReceiveAgain(peer, key)
          \/ \E next \in Holds, moves \in Moving, text \in BOOLEAN :
               ReceiveHold(peer, next, moves, text)
          \/ ReceiveKeepalive(peer)
          \/ ReceiveTextRelease(peer)
          \/ ReceiveTextClick(peer)
    BY <1>2 DEF ReceivePacket
  <2> QED
    BY <2>1, QuietStepsRest, ResetsRest, ClickAcceptedRests
<1>3. CASE Stop
  BY <1>3, StopRests
<1>4. CASE OutputActs
  BY <1>4, OutputActRests DEF OutputActs
<1>5. CASE Lapse \/ DelayPasses
  BY <1>5, QuietStepsRest, DelayRests
<1>6. CASE UNCHANGED vars
  <2>1. UNCHANGED outputVars /\ UNCHANGED releaseSees /\ work' = work /\ pc' = pc
    BY <1>6 DEF vars, serverVars, workVars, releaseVars, releaseSees
  <2>2. ClicksInv'
    BY <2>1 DEF RestInv, ClicksInv, releaseSees
  <2> QED
    BY <2>1, <2>2, OutputQuiet, QuietRests DEF RestInv, Ending
<1> QED
  BY <1>1, <1>2, <1>3, <1>4, <1>5, <1>6 DEF Next, ServerStep

LEMMA RestIsReleased == ServerInv /\ RestInv => RestMeansReleased
<1> SUFFICES ASSUME ServerInv, RestInv, AtRest PROVE host = physical
  BY DEF RestMeansReleased
<1>1. /\ fresh /\ pc = "receive" /\ work = <<>> /\ persistentButtons = {} /\ ~releasePending
      /\ queue = <<>> /\ wire = <<>>
  BY DEF AtRest
<1>2. TargetHeld /\ (ReleaseQueued \/ HostClean)
  BY <1>1 DEF RestInv, ReleaseInv
<1>3. ~ReleaseQueued
  BY <1>1 DEF ReleaseQueued
<1>4. scheduledButtons = {}
  BY <1>1 DEF RestInv, ClicksInv
<1>5. applied.persistent = {} /\ applied.scheduled = {}
  BY <1>1, <1>2, <1>4 DEF TargetHeld, Target
<1> QED
  BY <1>1, <1>2, <1>3, <1>5 DEF HostClean, ButtonsOf

(* The inductive invariant: what the writer thread holds, what the clicks  *)
(* under way have scheduled, and the release obligation.                   *)
THEOREM ReleaseHolds == Spec => []RestInv
  BY ServerCorrect, InitRests, RestKept, PTL DEF Spec

(* The obligation of begin_reset(): once no peer holds a button, no click  *)
(* is under way and no release is owed, the host sees the physical buttons *)
(* only, whatever was cancelled, orphaned in the writer thread, failed or  *)
(* lost on the way.                                                        *)
THEOREM RestReleased == Spec => []RestMeansReleased
  BY ServerCorrect, ReleaseHolds, RestIsReleased, PTL
=============================================================================
