-------------------------- MODULE MouseMixer_proofs --------------------------
(* Proofs about the mixer, for every value of its constants.               *)
EXTENDS MouseMixer, SequenceTheorems, TLAPS

USE DEF layoutVars, endpointVars, physicalVars, writtenVars, queueVars,
        writerVars, eventVars, hostVars

-----------------------------------------------------------------------------
(* The helpers return what their users need.                               *)

LEMMA RestProperties ==
  ASSUME NEW S, NEW q \in Seq(S), NEW k \in 0 .. Len(q)
  PROVE  /\ Rest(q, k) \in Seq(S)
         /\ Len(Rest(q, k)) = Len(q) - k
         /\ \A i \in 1 .. Len(q) - k : Rest(q, k)[i] = q[k + i]
<1>1. Len(q) \in Nat
  BY LenProperties
<1>2. \A i \in k + 1 .. Len(q) : q[i] \in S
  BY <1>1, ElementOfSeq
<1>3. /\ SubSeq(q, k + 1, Len(q)) \in Seq(S)
      /\ Len(SubSeq(q, k + 1, Len(q)))
           = IF k + 1 <= Len(q) THEN Len(q) - (k + 1) + 1 ELSE 0
      /\ \A i \in 1 .. Len(q) - (k + 1) + 1 : SubSeq(q, k + 1, Len(q))[i] = q[k + 1 + i - 1]
  BY <1>1, <1>2, SubSeqProperties
<1>4. QED
  BY <1>1, <1>3 DEF Rest

LEMMA FrontProperties ==
  ASSUME NEW S, NEW q \in Seq(S), NEW k \in 0 .. Len(q)
  PROVE  /\ SubSeq(q, 1, k) \in Seq(S)
         /\ Len(SubSeq(q, 1, k)) = k
         /\ \A i \in 1 .. k : SubSeq(q, 1, k)[i] = q[i]
<1>1. Len(q) \in Nat
  BY LenProperties
<1>2. \A i \in 1 .. k : q[i] \in S
  BY <1>1, ElementOfSeq
<1>3. QED
  BY <1>1, <1>2, SubSeqProperties

LEMMA NewItemType ==
  ASSUME TypeOK, NEW c \in Commands, NEW a \in {NoGuard} \cup 0 .. activity
  PROVE  NewItem(c, a) \in Item
<1>1. c \in Command
  BY InputsAssumption
<1>2. QED
  BY <1>1 DEF TypeOK, NewItem, Item, Command, NoGuard, NoItem

(* An item stays an item when its motion expires or is written.            *)
LEMMA ItemExpires ==
  ASSUME NEW item \in Item
  PROVE  [item EXCEPT !.x = 0] \in Item
  BY DEF Item

LEMMA ItemCommits ==
  ASSUME NEW item \in Item, NEW n \in Int
  PROVE  [item EXCEPT !.committed = TRUE, !.x = @ - n] \in Item
<1> DEFINE m == item.x - n
<1>1. m \in Int
  BY DEF Item
<1> HIDE DEF m
<1>2. [item EXCEPT !.committed = TRUE, !.x = m] \in Item
  BY <1>1 DEF Item
<1>3. QED
  BY <1>2 DEF m

(* What expire_front() leaves is a queue of items.                         *)
LEMMA AfterExpiryProperties ==
  ASSUME synthetic \in Seq(Item), NEW cutoff, NEW k \in 0 .. Len(synthetic)
  PROVE  /\ AfterExpiry(cutoff, k) \in Seq(Item)
         /\ Len(AfterExpiry(cutoff, k)) = Len(synthetic) - k
         /\ \A i \in 1 .. Len(synthetic) - k :
              AfterExpiry(cutoff, k)[i] =
                IF i = 1 /\ Expired(synthetic[k + 1], cutoff)
                THEN [synthetic[k + 1] EXCEPT !.x = 0] ELSE synthetic[k + i]
<1>1. Len(synthetic) \in Nat
  BY LenProperties
<1>2. CASE k < Len(synthetic) /\ Expired(synthetic[k + 1], cutoff)
  <2> DEFINE e == [synthetic[k + 1] EXCEPT !.x = 0]
             q == [synthetic EXCEPT ![k + 1] = e]
  <2>1. k + 1 \in 1 .. Len(synthetic)
    BY <1>1, <1>2
  <2>2. synthetic[k + 1] \in Item
    BY <2>1, ElementOfSeq
  <2>3. e \in Item
    BY <2>2, ItemExpires
  <2> HIDE DEF e
  <2>4. /\ q \in Seq(Item) /\ Len(q) = Len(synthetic)
        /\ \A j \in 1 .. Len(synthetic) : q[j] = IF j = k + 1 THEN e ELSE synthetic[j]
    BY <2>1, <2>3, ExceptSeq
  <2>5. AfterExpiry(cutoff, k) = Rest(q, k)
    BY <1>2 DEF AfterExpiry, e
  <2> HIDE DEF q
  <2>6. /\ Rest(q, k) \in Seq(Item) /\ Len(Rest(q, k)) = Len(q) - k
        /\ \A i \in 1 .. Len(q) - k : Rest(q, k)[i] = q[k + i]
    <3>1. q \in Seq(Item)
      BY <2>4
    <3>2. k \in 0 .. Len(q)
      BY <2>4
    <3>3. QED
      BY ONLY <3>1, <3>2, RestProperties
  <2>7. \A i \in 1 .. Len(synthetic) - k : q[k + i] = IF i = 1 THEN e ELSE synthetic[k + i]
    BY <1>1, <2>4
  <2>8. QED
    BY <1>2, <2>4, <2>5, <2>6, <2>7 DEF e
<1>3. CASE ~(k < Len(synthetic) /\ Expired(synthetic[k + 1], cutoff))
  <2>1. AfterExpiry(cutoff, k) = Rest(synthetic, k)
    BY <1>3 DEF AfterExpiry
  <2>2. QED
    BY <1>1, <1>3, <2>1, RestProperties
<1>4. QED
  BY <1>2, <1>3

-----------------------------------------------------------------------------
(* The reports and events the steps build are reports and events.          *)

LEMMA NoIoType == NoIo \in Io
BY DEF NoIo, Io, NoItem, NoButton, Kinds

LEMMA PhysicalIoType ==
  ASSUME TypeOK, NEW r \in Report, NEW masks \in SUBSET Buttons
  PROVE  PhysicalIo(r, masks) \in Io
<1> DEFINE final == IF Compatible(r) THEN r.buttons \cup masks ELSE {}
           shown == IF Compatible(r) THEN (r.buttons \cup masks) \cap Supported ELSE r.buttons
<1>1. /\ final \in SUBSET Buttons /\ shown \in SUBSET Buttons
      /\ r.match \in BOOLEAN /\ r.generation \in Nat /\ r.buttons \in SUBSET Buttons
  BY DEF Report
<1>2. instance \in Nat
  BY DEF TypeOK
<1> HIDE DEF final, shown
<1>3. [NoIo EXCEPT !.physical = TRUE, !.match = r.match, !.generation = r.generation,
                   !.instance = instance, !.physicalButtons = r.buttons,
                   !.final = final, !.shown = shown] \in Io
  BY <1>1, <1>2, NoIoType DEF Io
<1>4. QED
  BY <1>3 DEF PhysicalIo, final, shown

LEMMA StandaloneIoType ==
  ASSUME TypeOK, NEW item \in Item
  PROVE  StandaloneIo(item) \in Io
<1> DEFINE buttons == submittedPhysical \cup item.persistent \cup item.scheduled
<1>1. buttons \in SUBSET Buttons /\ (buttons \cap Supported) \in SUBSET Buttons
  BY DEF TypeOK, Item
<1> HIDE DEF buttons
<1>2. [NoIo EXCEPT !.final = buttons, !.shown = buttons \cap Supported] \in Io
  BY <1>1, NoIoType DEF Io
<1>3. QED
  BY <1>2 DEF StandaloneIo, buttons

LEMMA DescribeType ==
  ASSUME TypeOK, NEW report \in Io, NEW item \in Item, NEW x \in Int,
         NEW competing \in BOOLEAN
  PROVE  Describe(report, item, x, competing) \in Io
<1> DEFINE blocked == item.kind \in PressKinds /\ item.button \in PreviouslyVisible
<1>1. blocked \in BOOLEAN
  OBVIOUS
<1>2. generation \in Nat /\ instance \in Nat
  BY DEF TypeOK
<1>3. /\ item.id \in Nat /\ item.persistent \in SUBSET Buttons
      /\ item.scheduled \in SUBSET Buttons /\ item.kind \in Kinds \cup {"NONE"}
      /\ item.key \in Nat /\ item.button \in {NoButton} \cup Buttons
  BY DEF Item
<1> HIDE DEF blocked
<1>4. [report EXCEPT !.generation = generation, !.instance = instance,
                     !.item = item.id, !.x = x, !.persistent = item.persistent,
                     !.scheduled = item.scheduled, !.kind = item.kind,
                     !.key = item.key, !.button = item.button,
                     !.competing = competing, !.blocked = blocked] \in Io
  BY <1>1, <1>2, <1>3 DEF Io
<1>5. QED
  BY <1>4 DEF Describe, blocked

LEMMA CompletionEventType ==
  ASSUME TypeOK, NEW success \in BOOLEAN
  PROVE  CompletionEvent(success) \in WriterEvent
<1> DEFINE finished == success /\ OfFront /\ Finished(CommittedFront)
<1>1. finished \in BOOLEAN
  OBVIOUS
<1>2. io \in Io
  BY DEF TypeOK
<1> HIDE DEF finished
<1>3. [key |-> io.key, generation |-> io.generation, kind |-> io.kind,
       button |-> io.button, blocked |-> io.blocked, final |-> io.final,
       success |-> success, x |-> io.x, finished |-> finished] \in WriterEvent
  BY <1>1, <1>2 DEF Io, WriterEvent
<1>4. QED
  BY <1>3 DEF CompletionEvent, finished

-----------------------------------------------------------------------------
(* Type correctness.                                                       *)

LEMMA InitType == Init => TypeOK
<1> SUFFICES ASSUME Init PROVE TypeOK
  OBVIOUS
<1>1. /\ synthetic \in Seq(Item) /\ fifo \in Seq(Report) /\ stamped \in Seq(Report)
      /\ pendingEvent \in Seq(WriterEvent) /\ events \in Seq(WriterEvent)
  BY EmptySeq DEF Init
<1>2. io \in Io
  BY NoIoType DEF Init
<1>3. hostMotion \in [1 .. MaxItems -> Int] /\ commanded \in [1 .. MaxItems -> Int]
  BY DEF Init
<1>4. /\ nextItem \in Nat \ {NoItem} /\ inflight \in Nat /\ credits \in 0 .. 3
      /\ nextGeneration \in Nat /\ generation \in Nat /\ instance \in Nat
      /\ physicalBarrier \in Nat /\ activity \in Nat
  BY DEF Init, NoItem
<1>5. QED
  BY <1>1, <1>2, <1>3, <1>4 DEF Init, TypeOK, Layouts

LEMMA EnqueueType ==
  ASSUME TypeOK, NEW c \in Commands, NEW a \in {NoGuard} \cup 0 .. activity, NEW g,
         EnqueueOk(c, a, g) \/ EnqueueQueueFull(c, a, g)
  PROVE  TypeOK'
<1>1. CASE EnqueueOk(c, a, g)
  <2>1. PICK k \in 0 .. Len(synthetic) :
          synthetic' = Append(SubSeq(synthetic, 1, k), NewItem(c, a))
    BY <1>1 DEF EnqueueOk
  <2>2. synthetic' \in Seq(Item)
    BY <2>1, NewItemType, FrontProperties, AppendProperties DEF TypeOK
  <2>3. nextItem' \in Nat \ {NoItem} /\ commanded' \in [1 .. MaxItems -> Int]
    <3>1. c.x \in Int
      BY InputsAssumption DEF Command
    <3>2. nextItem' = nextItem + 1 /\ commanded' = [commanded EXCEPT ![nextItem] = c.x]
      BY <1>1 DEF EnqueueOk
    <3>3. nextItem \in Nat \ {NoItem} /\ commanded \in [1 .. MaxItems -> Int]
      BY DEF TypeOK
    <3>4. nextItem' \in Nat \ {NoItem}
      BY <3>2, <3>3 DEF NoItem
    <3>5. commanded' \in [1 .. MaxItems -> Int]
      BY <3>1, <3>2, <3>3
    <3>6. QED
      BY <3>4, <3>5
  <2>4. UNCHANGED <<layoutVars, endpointVars, physicalVars, writtenVars, inflight,
                    fifo, stamped, writerVars, eventVars, hostVars>>
    BY <1>1 DEF EnqueueOk
  <2>5. QED
    BY <2>2, <2>3, <2>4 DEF TypeOK
<1>2. CASE EnqueueQueueFull(c, a, g)
  <2>1. PICK k \in 0 .. Len(synthetic) : synthetic' = SubSeq(synthetic, 1, k)
    BY <1>2 DEF EnqueueQueueFull
  <2>2. synthetic' \in Seq(Item)
    BY <2>1, FrontProperties DEF TypeOK
  <2>3. UNCHANGED <<layoutVars, endpointVars, physicalVars, writtenVars, nextItem, inflight,
                    fifo, stamped, writerVars, eventVars, hostVars, commanded>>
    BY <1>2 DEF EnqueueQueueFull
  <2>4. QED
    BY <2>2, <2>3 DEF TypeOK
<1>3. QED
  BY <1>1, <1>2

LEMMA ClientType ==
  ASSUME TypeOK, ClientStep
  PROVE  TypeOK'
<1>1. ASSUME NEW c \in Commands, NEW a \in {NoGuard} \cup 0 .. activity,
             NEW g \in 0 .. generation,
             EnqueueOk(c, a, g) \/ EnqueueQueueFull(c, a, g)
      PROVE  TypeOK'
  BY <1>1, EnqueueType
<1>2. CASE ClearSynthetic
  <2>1. \/ DropSynthetic
        \/ synthetic' = synthetic /\ inflight' = inflight
    BY <1>2 DEF ClearSynthetic
  <2>2. synthetic' \in Seq(Item) /\ inflight' \in Nat
    <3>1. <<>> \in Seq(Item) /\ NoItem \in Nat
      BY EmptySeq DEF NoItem
    <3>2. synthetic \in Seq(Item) /\ inflight \in Nat
      BY DEF TypeOK
    <3>3. QED
      BY <2>1, <3>1, <3>2 DEF DropSynthetic
  <2>3. QED
    BY <1>2, <2>2 DEF ClearSynthetic, TypeOK
<1>3. CASE TakeWriterEvents
  <2>1. events' \in Seq(WriterEvent)
    BY <1>3, EmptySeq DEF TakeWriterEvents
  <2>2. QED
    BY <1>3, <2>1 DEF TakeWriterEvents, TypeOK
<1>4. CASE TakeWriterOverflow
  <2>1. overflow' \in BOOLEAN
    BY <1>4 DEF TakeWriterOverflow
  <2>2. UNCHANGED <<layoutVars, endpointVars, physicalVars, writtenVars, queueVars,
                    fifo, stamped, writerVars, events, hostVars, commanded>>
    BY <1>4 DEF TakeWriterOverflow
  <2>3. QED
    BY <2>1, <2>2 DEF TypeOK
<1>5. QED
  BY <1>1, <1>2, <1>3, <1>4 DEF ClientStep

LEMMA ReaderType ==
  ASSUME TypeOK, ReaderStep
  PROVE  TypeOK'
<1>1. ASSUME NEW r \in PhysicalReports, ReadPhysical(r)
      PROVE  TypeOK'
  <2> DEFINE stamp == [match |-> r.match, generation |-> generation,
                       buttons |-> r.buttons, x |-> r.x, overtaken |-> 0]
  <2>1. r.match \in BOOLEAN /\ r.buttons \in SUBSET Buttons /\ r.x \in Int
    BY InputsAssumption
  <2>2. stamp \in Report
    BY <2>1 DEF TypeOK, Report
  <2>3. stamped' = <<stamp>>
    BY <1>1 DEF ReadPhysical
  <2> HIDE DEF stamp
  <2>4. stamped' \in Seq(Report)
    BY <2>2, <2>3
  <2>5. activity' \in Nat /\ physicalBarrier' \in Nat
    BY <1>1 DEF ReadPhysical, TypeOK
  <2>6. latestKnown' \in BOOLEAN /\ selected' \in BOOLEAN /\ physicalButtons' \in SUBSET Buttons
    BY <1>1, <2>1 DEF ReadPhysical, TypeOK
  <2>7. UNCHANGED <<layoutVars, endpointVars, writtenVars, queueVars, fifo,
                    writerVars, eventVars, hostVars, commanded>>
    BY <1>1 DEF ReadPhysical
  <2>8. QED
    BY <1>1, <2>4, <2>5, <2>6, <2>7 DEF ReadPhysical, TypeOK
<1>2. CASE PushPhysical
  <2>1. Head(stamped) \in Report
    BY <1>2, HeadTailProperties DEF PushPhysical, TypeOK
  <2>2. fifo' \in Seq(Report) /\ stamped' \in Seq(Report)
    BY <1>2, <2>1, AppendProperties, EmptySeq DEF PushPhysical, TypeOK
  <2>3. QED
    BY <1>2, <2>2 DEF PushPhysical, TypeOK
<1>3. QED
  BY <1>1, <1>2 DEF ReaderStep

LEMMA TakenType ==
  ASSUME TypeOK, NEW q \in Seq(Item), NEW report \in Io, Taken(q, report),
         fifo' \in Seq(Report)
  PROVE  TypeOK'
<1>1. synthetic' \in Seq(Item) /\ io' \in Io
  BY DEF Taken
<1>2. inflight' \in Nat
  BY DEF Taken, Io
<1>3. QED
  BY <1>1, <1>2 DEF Taken, TypeOK

(* The motion of the front item that a report carries is an integer.       *)
LEMMA PartType ==
  ASSUME NEW x \in Int
  PROVE  Part(x) \in Int
BY FieldAssumption DEF Part

LEMMA TakeType ==
  ASSUME TypeOK, NEW cutoff, NEW k \in 0 .. Len(synthetic), TakeReport(cutoff, k)
  PROVE  TypeOK'
<1> DEFINE q == AfterExpiry(cutoff, k)
<1>1. q \in Seq(Item) /\ fifo \in Seq(Report)
  BY AfterExpiryProperties DEF TypeOK
<1>2. ASSUME q # <<>>
      PROVE  /\ Head(q) \in Item /\ Head(q).x \in Int
             /\ (Head(q).persistent \cup Head(q).scheduled) \in SUBSET Buttons
  <2>1. Head(q) \in Item
    BY <1>1, <1>2, HeadTailProperties
  <2>2. QED
    BY <2>1 DEF Item
<1>3. CASE TakePhysical(cutoff, k)
  <2> DEFINE r == Head(fifo)
             front == Describe(PhysicalIo(r, Head(q).persistent \cup Head(q).scheduled),
                               Head(q),
                               IF Fuses(Head(q), r) THEN FusionMotion(Head(q)) ELSE 0, FALSE)
             plain == PhysicalIo(r, persistent \cup scheduled)
  <2>1. r \in Report /\ fifo' \in Seq(Report)
    BY <1>1, <1>3, HeadTailProperties DEF TakePhysical
  <2>2. plain \in Io
    <3>1. (persistent \cup scheduled) \in SUBSET Buttons
      BY DEF TypeOK
    <3>2. QED
      BY <2>1, <3>1, PhysicalIoType
  <2>3. ASSUME q # <<>> PROVE front \in Io
    <3>1. FusionMotion(Head(q)) \in Int
      BY <1>2, <2>3, PartType DEF FusionMotion
    <3>2. PhysicalIo(r, Head(q).persistent \cup Head(q).scheduled) \in Io
      BY <1>2, <2>1, <2>3, PhysicalIoType
    <3> DEFINE x == IF Fuses(Head(q), r) THEN FusionMotion(Head(q)) ELSE 0
    <3>3. x \in Int
      BY <3>1
    <3> HIDE DEF x
    <3>4. Describe(PhysicalIo(r, Head(q).persistent \cup Head(q).scheduled), Head(q), x, FALSE)
            \in Io
      BY <1>2, <2>3, <3>2, <3>3, DescribeType
    <3>5. QED
      BY <3>4 DEF x
  <2>4. (q # <<>> /\ Taken(q, front)) \/ Taken(q, plain)
    BY <1>3 DEF TakePhysical, HaveSynthetic
  <2> HIDE DEF q, front, plain
  <2>5. QED
    BY <1>1, <2>1, <2>2, <2>3, <2>4, TakenType
<1>4. CASE TakeStandalone(cutoff, k)
  <2> DEFINE alone == Describe(StandaloneIo(Head(q)), Head(q), Part(Head(q).x), Competes(q))
  <2>1. q # <<>> /\ Taken(q, alone) /\ fifo' = fifo
    BY <1>4 DEF TakeStandalone, HaveSynthetic
  <2>2. Competes(q) \in BOOLEAN
    BY DEF Competes
  <2>3. alone \in Io
    <3>1. Part(Head(q).x) \in Int /\ StandaloneIo(Head(q)) \in Io
      BY <1>2, <2>1, PartType, StandaloneIoType
    <3>2. QED
      BY <1>2, <2>1, <2>2, <3>1, DescribeType
  <2> HIDE DEF q, alone
  <2>4. QED
    BY <1>1, <2>1, <2>3, TakenType
<1>5. CASE TakeNothing(cutoff, k)
  <2>1. synthetic' = q
    BY <1>5 DEF TakeNothing
  <2> HIDE DEF q
  <2>2. synthetic' \in Seq(Item)
    BY <1>1, <2>1
  <2>3. UNCHANGED <<layoutVars, endpointVars, physicalVars, writtenVars, nextItem,
                    inflight, fifo, stamped, writerVars, eventVars, hostVars, commanded>>
    BY <1>5 DEF TakeNothing
  <2>4. QED
    BY <2>2, <2>3 DEF TypeOK
<1>6. QED
  BY <1>3, <1>4, <1>5 DEF TakeReport

(* The queue a completion leaves is a queue.                               *)
LEMMA CommitQueueType ==
  ASSUME TypeOK, NEW success \in BOOLEAN, CommitQueue(success)
  PROVE  /\ synthetic' \in Seq(Item) /\ inflight' \in Nat
         /\ persistent' \in SUBSET Buttons /\ scheduled' \in SUBSET Buttons
<1>1. io \in Io /\ synthetic \in Seq(Item)
  BY DEF TypeOK
<1>2. CASE ~OfFront
  BY <1>2 DEF CommitQueue, TypeOK
<1>3. CASE OfFront
  <2>1. inflight' = NoItem
    BY <1>3 DEF CommitQueue, MarkAfter
  <2>2. CASE ~success
    BY <1>3, <2>1, <2>2 DEF CommitQueue, TypeOK, NoItem
  <2>3. CASE success
    <3> DEFINE q == [synthetic EXCEPT ![1] = CommittedFront]
    <3>1. synthetic # <<>>
      BY <1>3 DEF OfFront
    <3>2. CommittedFront \in Item
      <4>1. Head(synthetic) \in Item /\ io.x \in Int
        BY <1>1, <3>1, HeadTailProperties DEF Io
      <4>2. QED
        BY <4>1, ItemCommits DEF CommittedFront
    <3>3. 1 \in 1 .. Len(synthetic)
      BY <1>1, <3>1, EmptySeq
    <3>4. q \in Seq(Item)
      BY <1>1, <3>2, <3>3, ExceptSeq
    <3>5. PICK k \in 0 .. Len(q) : synthetic' = Rest(q, k)
      BY <1>3, <2>3 DEF CommitQueue
    <3>6. persistent' = io.persistent /\ scheduled' = io.scheduled
      BY <1>3, <2>3 DEF CommitQueue
    <3> HIDE DEF q
    <3>7. synthetic' \in Seq(Item)
      BY <3>4, <3>5, RestProperties
    <3>8. QED
      BY <1>1, <2>1, <3>6, <3>7 DEF Io, NoItem
  <2>4. QED
    BY <2>2, <2>3
<1>4. QED
  BY <1>2, <1>3

LEMMA CommitPhysicalType ==
  ASSUME TypeOK, NEW success \in BOOLEAN, CommitPhysical(success)
  PROVE  /\ credits' \in 0 .. 3 /\ submittedPhysical' \in SUBSET Buttons
         /\ templateKnown' \in BOOLEAN
<1>1. io \in Io /\ credits \in 0 .. 3
  BY DEF TypeOK
<1>2. CreditsAfter \in 0 .. 3
  BY <1>1 DEF CreditsAfter, Min2
<1>3. QED
  BY <1>1, <1>2 DEF CommitPhysical, TypeOK, Io

LEMMA HostReceivesType ==
  ASSUME TypeOK, HostReceives
  PROVE  /\ hostButtons' \in SUBSET Buttons /\ hostPhysical' \in SUBSET Buttons
         /\ hostMotion' \in [1 .. MaxItems -> Int] /\ fifo' \in Seq(Report)
<1>1. /\ io \in Io /\ fifo \in Seq(Report) /\ hostMotion \in [1 .. MaxItems -> Int]
      /\ hostButtons \in SUBSET Buttons /\ hostPhysical \in SUBSET Buttons
  BY DEF TypeOK
<1>2. hostButtons' \in SUBSET Buttons /\ hostPhysical' \in SUBSET Buttons
  BY <1>1 DEF HostReceives, Io
<1>3. hostMotion' \in [1 .. MaxItems -> Int]
  <2>1. io.x \in Int
    BY <1>1 DEF Io
  <2>2. \/ hostMotion' = hostMotion
        \/ hostMotion' = [hostMotion EXCEPT ![io.item] = @ + io.x]
    BY DEF HostReceives
  <2>3. QED
    BY <1>1, <2>1, <2>2
<1>4. fifo' \in Seq(Report)
  <2>1. CASE fifo' = fifo
    BY <1>1, <2>1
  <2>2. CASE fifo # <<>> /\ fifo' = [fifo EXCEPT ![1].overtaken = @ + 1]
    <3> DEFINE e == [fifo[1] EXCEPT !.overtaken = @ + 1]
    <3>1. 1 \in 1 .. Len(fifo)
      BY <1>1, <2>2, EmptySeq
    <3>2. fifo[1] \in Report
      BY <1>1, <3>1, ElementOfSeq
    <3>3. e \in Report
      BY <3>2 DEF Report
    <3>4. fifo' = [fifo EXCEPT ![1] = e]
      BY <2>2
    <3> HIDE DEF e
    <3>5. QED
      BY <1>1, <3>1, <3>3, <3>4, ExceptSeq
  <2>3. QED
    BY <2>1, <2>2 DEF HostReceives
<1>5. QED
  BY <1>2, <1>3, <1>4

LEMMA CompleteType ==
  ASSUME TypeOK, NEW success \in BOOLEAN, NEW exits \in BOOLEAN, Complete(success, exits)
  PROVE  TypeOK'
<1>1. /\ synthetic' \in Seq(Item) /\ inflight' \in Nat
      /\ persistent' \in SUBSET Buttons /\ scheduled' \in SUBSET Buttons
      /\ credits' \in 0 .. 3 /\ submittedPhysical' \in SUBSET Buttons
      /\ templateKnown' \in BOOLEAN
  <2>1. CASE Known
    BY <2>1, CommitQueueType, CommitPhysicalType DEF Complete
  <2>2. CASE ~Known
    BY <2>2 DEF Complete, TypeOK
  <2>3. QED
    BY <2>1, <2>2
<1>2. pendingEvent' \in Seq(WriterEvent)
  <2> DEFINE e == CompletionEvent(success)
  <2>1. e \in WriterEvent
    BY CompletionEventType
  <2>2. pendingEvent' = <<e>> \/ pendingEvent' = <<>>
    BY DEF Complete
  <2> HIDE DEF e
  <2>3. <<>> \in Seq(WriterEvent) /\ <<e>> \in Seq(WriterEvent)
    BY <2>1, EmptySeq
  <2>4. QED
    BY <2>2, <2>3
<1>3. /\ hostButtons' \in SUBSET Buttons /\ hostPhysical' \in SUBSET Buttons
      /\ hostMotion' \in [1 .. MaxItems -> Int] /\ fifo' \in Seq(Report)
  <2>1. CASE success
    BY <2>1, HostReceivesType DEF Complete
  <2>2. CASE ~success
    BY <2>2 DEF Complete, TypeOK
  <2>3. QED
    BY <2>1, <2>2
<1>4. io' \in Io /\ writer' \in {"reporting", "exiting"}
  BY NoIoType DEF Complete
<1>5. QED
  BY <1>1, <1>2, <1>3, <1>4 DEF Complete, TypeOK

LEMMA WriterType ==
  ASSUME TypeOK, WriterStep
  PROVE  TypeOK'
<1>1. CASE Take
  BY <1>1, TakeType DEF Take
<1>2. CASE WriteSucceeds \/ WriteFails \/ WriteFailsAndEnds
  BY <1>2, CompleteType DEF WriteSucceeds, WriteFails, WriteFailsAndEnds
<1>3. CASE AppendEvent
  <2>1. events \in Seq(WriterEvent) /\ pendingEvent \in Seq(WriterEvent)
    BY DEF TypeOK
  <2>2. (events \o pendingEvent) \in Seq(WriterEvent) /\ <<>> \in Seq(WriterEvent)
    BY <2>1, ConcatProperties, EmptySeq
  <2>3. /\ events' = events \/ events' = events \o pendingEvent
        /\ pendingEvent' = <<>> /\ (overflow' = TRUE \/ overflow' = overflow)
        /\ writer' \in {"exited", "idle"}
    BY <1>3 DEF AppendEvent
  <2>4. /\ events' \in Seq(WriterEvent) /\ pendingEvent' \in Seq(WriterEvent)
        /\ overflow' \in BOOLEAN
    <3>1. overflow \in BOOLEAN
      BY DEF TypeOK
    <3>2. QED
      BY <2>1, <2>2, <2>3, <3>1
  <2>5. QED
    BY <1>3, <2>3, <2>4 DEF AppendEvent, TypeOK
<1>4. CASE WriterStops
  BY <1>4 DEF WriterStops, TypeOK
<1>5. QED
  BY <1>1, <1>2, <1>3, <1>4 DEF WriterStep

LEMMA ControlType ==
  ASSUME TypeOK, ControlStep
  PROVE  TypeOK'
<1>1. ASSUME DropSynthetic
      PROVE  synthetic' \in Seq(Item) /\ inflight' \in Nat
  BY <1>1, EmptySeq DEF DropSynthetic, NoItem
<1>2. ASSUME Invalidate, program' = program, layout' \in Layouts, boot' \in BOOLEAN,
             reportLayout' \in {"none", "report"}
      PROVE  TypeOK'
  <2>1. DropSynthetic
    BY <1>2 DEF Invalidate
  <2>2. nextGeneration' \in Nat /\ generation' \in Nat
    BY <1>2 DEF Invalidate, TypeOK
  <2>3. QED
    BY <1>1, <1>2, <2>1, <2>2 DEF Invalidate, TypeOK
<1>3. ASSUME NEW b \in BOOLEAN, SetProtocol(b) PROVE TypeOK'
  <2>1. layout' \in Layouts /\ reportLayout' \in {"none", "report"} /\ boot' \in BOOLEAN
        /\ program' = program
    BY <1>3 DEF SetProtocol, TypeOK, LayoutOf, Layouts
  <2>2. QED
    BY <1>2, <1>3, <2>1 DEF SetProtocol
<1>4. ASSUME NEW learned \in {"none", "report"}, LearnDescriptor(learned) PROVE TypeOK'
  <2>1. CASE boot
    BY <1>4, <2>1 DEF LearnDescriptor, TypeOK
  <2>2. CASE ~boot
    <3>1. Invalidate /\ layout' \in Layouts /\ reportLayout' \in {"none", "report"}
          /\ boot' \in BOOLEAN /\ program' = program
      BY <1>4, <2>2 DEF LearnDescriptor, TypeOK, Layouts
    <3>2. QED
      BY <1>2, <3>1
  <2>3. QED
    BY <2>1, <2>2
<1>5. ASSUME NEW learned \in {"none", "report"}, NEW b \in BOOLEAN, Register(learned, b)
      PROVE  TypeOK'
  <2>1. hostMotion' \in [1 .. MaxItems -> Int] /\ commanded' \in [1 .. MaxItems -> Int]
    BY <1>5 DEF Register
  <2>2. nextGeneration' \in Nat /\ generation' \in Nat /\ instance' \in Nat
    BY <1>5 DEF Register, TypeOK
  <2>3. layout' \in Layouts
    BY <1>5 DEF Register, LayoutOf, Layouts
  <2>4. QED
    BY <1>5, <2>1, <2>2, <2>3 DEF Register, TypeOK
<1>6. CASE SeedMouseReport
  BY <1>6 DEF SeedMouseReport, TypeOK
<1>7. CASE BeginTerminate
  BY <1>7 DEF BeginTerminate, TypeOK
<1>8. CASE Unregister
  <2>1. DropSynthetic /\ nextItem' = 1
    BY <1>8 DEF Unregister, FreshEndpoint
  <2>2. nextItem' \in Nat \ {NoItem} /\ nextGeneration' \in Nat
    BY <1>8, <2>1 DEF Unregister, TypeOK, NoItem
  <2>3. /\ selected' \in BOOLEAN /\ latestKnown' \in BOOLEAN /\ templateKnown' \in BOOLEAN
        /\ physicalBarrier' \in Nat /\ activity' \in Nat /\ credits' \in 0 .. 3
        /\ physicalButtons' \in SUBSET Buttons /\ submittedPhysical' \in SUBSET Buttons
        /\ persistent' \in SUBSET Buttons /\ scheduled' \in SUBSET Buttons
    <3>1. FreshEndpoint
      BY <1>8 DEF Unregister
    <3>2. selected' = FALSE /\ latestKnown' = FALSE /\ templateKnown' = FALSE
      BY <3>1, Zenon DEF FreshEndpoint
    <3>3. physicalBarrier' = 0 /\ activity' = 0 /\ credits' = 0
      BY <3>1, Zenon DEF FreshEndpoint
    <3>4. /\ physicalButtons' = {} /\ submittedPhysical' = {}
          /\ persistent' = {} /\ scheduled' = {}
      BY <3>1, Zenon DEF FreshEndpoint
    <3>5. /\ physicalButtons' \in SUBSET Buttons /\ submittedPhysical' \in SUBSET Buttons
          /\ persistent' \in SUBSET Buttons /\ scheduled' \in SUBSET Buttons
      BY <3>4, Zenon
    <3>6. physicalBarrier' \in Nat /\ activity' \in Nat /\ credits' \in 0 .. 3
      BY <3>3
    <3>7. QED
      BY <3>2, <3>5, <3>6, Zenon
  <2>4. phase' \in {"up", "draining", "stopping", "down"}
    BY <1>8 DEF Unregister
  <2>5. QED
    BY <1>1, <1>8, <2>1, <2>2, <2>3, <2>4 DEF Unregister, TypeOK
<1>9. CASE Join
  <2>1. fifo' \in Seq(Report) /\ stamped' \in Seq(Report)
    BY <1>9, EmptySeq DEF Join
  <2>2. QED
    BY <1>9, <2>1 DEF Join, TypeOK
<1>10. QED
  BY <1>3, <1>4, <1>5, <1>6, <1>7, <1>8, <1>9 DEF ControlStep

(* Every step keeps every variable of its type: in particular an event is  *)
(* always made of a report that was taken, and credits stay within three.  *)
THEOREM TypeCorrect == Spec => []TypeOK
<1>1. TypeOK /\ [Next]_vars => TypeOK'
  <2> SUFFICES ASSUME TypeOK, [Next]_vars PROVE TypeOK'
    OBVIOUS
  <2>1. CASE UNCHANGED vars
    BY <2>1 DEF vars, TypeOK
  <2>2. CASE Next
    BY <2>2, ClientType, ReaderType, WriterType, ControlType DEF Next
  <2>3. QED
    BY <2>1, <2>2
<1>2. QED
  BY <1>1, InitType, PTL DEF Spec

-----------------------------------------------------------------------------
(* The item being written stays in front of the queue until its completion *)
(* is reported.                                                            *)

(* Superseding leaves the item being written where it is.                  *)
LEMMA FrontSurvivesEnqueue ==
  ASSUME TypeOK, InflightHeld, NEW c, NEW k \in 0 .. Len(synthetic),
         \A j \in k + 1 .. Len(synthetic) : Superseded(c, synthetic[j]),
         inflight # NoItem
  PROVE  k >= 1 /\ synthetic[1].id = inflight
<1>1. Len(synthetic) \in Nat /\ synthetic \in Seq(Item)
  BY LenProperties DEF TypeOK
<1>2. Len(synthetic) >= 1 /\ synthetic[1].id = inflight
  BY <1>1, EmptySeq, HeadTailProperties DEF InflightHeld
<1>3. ASSUME k = 0 PROVE FALSE
  <2>1. Superseded(c, synthetic[1])
    BY <1>1, <1>2, <1>3
  <2>2. QED
    BY <1>2, <2>1 DEF Superseded
<1>4. QED
  BY <1>1, <1>2, <1>3

(* The motion a report carries and the item it names.                      *)
LEMMA DescribeNames ==
  ASSUME TypeOK, NEW report \in Io, NEW item \in Item, NEW x \in Int,
         NEW competing \in BOOLEAN
  PROVE  LET d == Describe(report, item, x, competing)
         IN  /\ d.item = item.id /\ d.x = x
             /\ d.generation = generation /\ d.instance = instance
BY DEF Describe, Io

LEMMA ExpiryKeepsId ==
  ASSUME TypeOK, NEW cutoff, NEW k \in 0 .. Len(synthetic),
         NEW i \in 1 .. Len(synthetic) - k
  PROVE  /\ k + i \in 1 .. Len(synthetic)
         /\ AfterExpiry(cutoff, k)[i].id = synthetic[k + i].id
         /\ AfterExpiry(cutoff, k)[i].committed = synthetic[k + i].committed
<1>1. Len(synthetic) \in Nat /\ synthetic \in Seq(Item)
  BY LenProperties DEF TypeOK
<1>2. k + i \in 1 .. Len(synthetic)
  BY <1>1
<1>3. AfterExpiry(cutoff, k)[i] =
        IF i = 1 /\ Expired(synthetic[k + 1], cutoff)
        THEN [synthetic[k + 1] EXCEPT !.x = 0] ELSE synthetic[k + i]
  BY <1>1, AfterExpiryProperties
<1>4. synthetic[k + i] \in Item
  BY <1>1, <1>2, ElementOfSeq
<1>5. QED
  BY <1>2, <1>3, <1>4 DEF Item

(* What a step of the writer leaves as the report being written, and why.  *)
LEMMA TakeNames ==
  ASSUME TypeOK, NEW cutoff, NEW k \in 0 .. Len(synthetic),
         TakePhysical(cutoff, k) \/ TakeStandalone(cutoff, k)
  PROVE  /\ synthetic' = AfterExpiry(cutoff, k)
         /\ inflight' = io'.item /\ writer' = "writing"
         /\ io'.item # NoItem =>
              /\ synthetic' # <<>> /\ Head(synthetic').id = io'.item
              /\ io'.generation = generation /\ io'.instance = instance
<1> DEFINE q == AfterExpiry(cutoff, k)
<1>1. q \in Seq(Item) /\ fifo \in Seq(Report)
  BY AfterExpiryProperties DEF TypeOK
<1>2. ASSUME q # <<>>
      PROVE  /\ Head(q) \in Item /\ Head(q).x \in Int
             /\ (Head(q).persistent \cup Head(q).scheduled) \in SUBSET Buttons
  <2>1. Head(q) \in Item
    BY <1>1, <1>2, HeadTailProperties
  <2>2. QED
    BY <2>1 DEF Item
<1>3. CASE TakePhysical(cutoff, k)
  <2> DEFINE r == Head(fifo)
             base == PhysicalIo(r, Head(q).persistent \cup Head(q).scheduled)
             x == IF Fuses(Head(q), r) THEN FusionMotion(Head(q)) ELSE 0
             front == Describe(base, Head(q), x, FALSE)
             plain == PhysicalIo(r, persistent \cup scheduled)
  <2>1. r \in Report
    BY <1>1, <1>3, HeadTailProperties DEF TakePhysical
  <2>2. (q # <<>> /\ Taken(q, front)) \/ Taken(q, plain)
    BY <1>3 DEF TakePhysical, HaveSynthetic
  <2>3. plain.item = NoItem
    BY DEF PhysicalIo, NoIo
  <2>4. ASSUME q # <<>>
        PROVE front.item = Head(q).id /\ front.generation = generation /\ front.instance = instance
    <3>1. base \in Io
      BY <1>2, <2>1, <2>4, PhysicalIoType
    <3>2. FusionMotion(Head(q)) \in Int
      BY <1>2, <2>4, PartType DEF FusionMotion
    <3>3. x \in Int
      BY <3>2
    <3> HIDE DEF base, x
    <3>4. QED
      BY <1>2, <2>4, <3>1, <3>3, DescribeNames
  <2> HIDE DEF q, front, plain
  <2>5. CASE q # <<>> /\ Taken(q, front)
    <3>1. synthetic' = q /\ io' = front /\ inflight' = front.item /\ writer' = "writing"
      BY <2>5 DEF Taken
    <3>2. QED
      BY <2>4, <2>5, <3>1 DEF q
  <2>6. CASE Taken(q, plain)
    <3>1. synthetic' = q /\ io' = plain /\ inflight' = plain.item /\ writer' = "writing"
      BY <2>6 DEF Taken
    <3>2. QED
      BY <2>3, <3>1 DEF q
  <2>7. QED
    BY <2>2, <2>5, <2>6
<1>4. CASE TakeStandalone(cutoff, k)
  <2> DEFINE base == StandaloneIo(Head(q))
             x == Part(Head(q).x)
             competing == Competes(q)
             alone == Describe(base, Head(q), x, competing)
  <2>1. q # <<>> /\ Taken(q, alone)
    BY <1>4 DEF TakeStandalone, HaveSynthetic
  <2>2. competing \in BOOLEAN
    BY DEF Competes
  <2>3. base \in Io /\ x \in Int
    BY <1>2, <2>1, PartType, StandaloneIoType
  <2> HIDE DEF base, x, competing
  <2>4. alone.item = Head(q).id /\ alone.generation = generation /\ alone.instance = instance
    BY <1>2, <2>1, <2>2, <2>3, DescribeNames
  <2> HIDE DEF q, alone
  <2>5. synthetic' = q /\ io' = alone /\ inflight' = alone.item /\ writer' = "writing"
    BY <2>1 DEF Taken
  <2>6. QED
    BY <2>1, <2>4, <2>5 DEF q
<1>5. QED
  BY <1>3, <1>4

LEMMA InflightClient ==
  ASSUME TypeOK, InflightHeld, ClientStep
  PROVE  InflightHeld'
<1>1. Len(synthetic) \in Nat /\ synthetic \in Seq(Item)
  BY LenProperties DEF TypeOK
<1>2. ASSUME NEW c \in Commands, NEW a \in {NoGuard} \cup 0 .. activity, NEW g,
             EnqueueOk(c, a, g)
      PROVE  InflightHeld'
  <2> SUFFICES ASSUME inflight # NoItem PROVE InflightHeld'
    BY <1>2 DEF EnqueueOk, InflightHeld
  <2>1. PICK k \in 0 .. Len(synthetic) :
          /\ \A j \in k + 1 .. Len(synthetic) : Superseded(c, synthetic[j])
          /\ synthetic' = Append(SubSeq(synthetic, 1, k), NewItem(c, a))
    BY <1>2 DEF EnqueueOk, BackCut
  <2>2. k >= 1 /\ synthetic[1].id = inflight
    BY <2>1, FrontSurvivesEnqueue
  <2> DEFINE n == NewItem(c, a)
             p == SubSeq(synthetic, 1, k)
  <2>3. n \in Item /\ p \in Seq(Item) /\ Len(p) = k /\ p[1] = synthetic[1]
    BY <1>1, <2>2, NewItemType, FrontProperties
  <2>4. synthetic' = Append(p, n)
    BY <2>1
  <2> HIDE DEF n, p
  <2>5. /\ synthetic' \in Seq(Item) /\ Len(synthetic') = k + 1
        /\ synthetic'[1] = synthetic[1]
    BY <2>2, <2>3, <2>4, AppendProperties
  <2>6. synthetic' # <<>> /\ Head(synthetic') = synthetic[1]
    BY <2>5, EmptySeq, HeadTailProperties
  <2>7. QED
    BY <1>2, <2>2, <2>6 DEF EnqueueOk, InflightHeld, Registered
<1>3. ASSUME NEW c \in Commands, NEW a, NEW g, EnqueueQueueFull(c, a, g)
      PROVE  InflightHeld'
  <2> SUFFICES ASSUME inflight # NoItem PROVE InflightHeld'
    BY <1>3 DEF EnqueueQueueFull, InflightHeld
  <2>1. PICK k \in 0 .. Len(synthetic) :
          /\ \A j \in k + 1 .. Len(synthetic) : Superseded(c, synthetic[j])
          /\ synthetic' = SubSeq(synthetic, 1, k)
    BY <1>3 DEF EnqueueQueueFull, BackCut
  <2>2. k >= 1 /\ synthetic[1].id = inflight
    BY <2>1, FrontSurvivesEnqueue
  <2>3. /\ synthetic' \in Seq(Item) /\ Len(synthetic') = k
        /\ synthetic'[1] = synthetic[1]
    BY <1>1, <2>1, <2>2, FrontProperties
  <2>4. synthetic' # <<>> /\ Head(synthetic') = synthetic[1]
    BY <2>2, <2>3, EmptySeq, HeadTailProperties
  <2>5. QED
    BY <1>3, <2>2, <2>4 DEF EnqueueQueueFull, InflightHeld, Registered
<1>4. CASE ClearSynthetic
  <2>1. \/ inflight' = NoItem
        \/ synthetic' = synthetic /\ inflight' = inflight
    BY <1>4 DEF ClearSynthetic, DropSynthetic
  <2>2. QED
    BY <1>4, <2>1 DEF ClearSynthetic, InflightHeld, Registered
<1>5. CASE TakeWriterEvents
  BY <1>5 DEF TakeWriterEvents, InflightHeld, Registered
<1>6. CASE TakeWriterOverflow
  BY <1>6 DEF TakeWriterOverflow, InflightHeld, Registered
<1>7. QED
  BY <1>2, <1>3, <1>4, <1>5, <1>6 DEF ClientStep

LEMMA InflightWriter ==
  ASSUME TypeOK, InflightHeld, WriterStep
  PROVE  InflightHeld'
<1>1. ASSUME NEW cutoff, NEW k \in 0 .. Len(synthetic),
             TakePhysical(cutoff, k) \/ TakeStandalone(cutoff, k)
      PROVE  InflightHeld'
  <2>1. /\ Registered /\ phase' = phase
        /\ generation' = generation /\ instance' = instance
    BY <1>1 DEF TakePhysical, TakeStandalone, CanTake, Taken
  <2>2. QED
    BY <1>1, <2>1, TakeNames DEF InflightHeld, Registered
<1>2. ASSUME NEW cutoff, NEW k \in 0 .. Len(synthetic), TakeNothing(cutoff, k)
      PROVE  InflightHeld'
  BY <1>2 DEF TakeNothing, CanTake, InflightHeld
<1>3. ASSUME NEW success \in BOOLEAN, NEW exits \in BOOLEAN, Complete(success, exits)
      PROVE  InflightHeld'
  <2>1. CASE inflight = NoItem
    <3>1. ~OfFront
      BY <2>1 DEF OfFront
    <3>2. inflight' = inflight
      BY <1>3, <3>1 DEF Complete, CommitQueue
    <3>3. QED
      BY <2>1, <3>2 DEF InflightHeld
  <2>2. CASE inflight # NoItem
    <3>1. Known /\ OfFront
      BY <2>2 DEF InflightHeld, Known, OfFront, CurrentLayout
    <3>2. inflight' = NoItem
      BY <1>3, <3>1 DEF Complete, CommitQueue, MarkAfter
    <3>3. QED
      BY <3>2 DEF InflightHeld
  <2>3. QED
    BY <2>1, <2>2
<1>4. CASE AppendEvent
  BY <1>4 DEF AppendEvent, InflightHeld
<1>5. CASE WriterStops
  BY <1>5 DEF WriterStops, InflightHeld
<1>6. QED
  BY <1>1, <1>2, <1>3, <1>4, <1>5
     DEF WriterStep, Take, TakeReport, WriteSucceeds, WriteFails, WriteFailsAndEnds

LEMMA InflightControl ==
  ASSUME TypeOK, InflightHeld, ControlStep
  PROVE  InflightHeld'
<1>1. ASSUME DropSynthetic PROVE InflightHeld'
  BY <1>1 DEF DropSynthetic, InflightHeld
<1>2. ASSUME NEW b, SetProtocol(b) PROVE InflightHeld'
  BY <1>1, <1>2 DEF SetProtocol, Invalidate
<1>3. ASSUME NEW learned, LearnDescriptor(learned) PROVE InflightHeld'
  <2>1. CASE boot
    BY <1>3, <2>1 DEF LearnDescriptor, InflightHeld, Registered
  <2>2. CASE ~boot
    BY <1>1, <1>3, <2>2 DEF LearnDescriptor, Invalidate
  <2>3. QED
    BY <2>1, <2>2
<1>4. ASSUME NEW learned, NEW b, Register(learned, b) PROVE InflightHeld'
  BY <1>4 DEF Register, InflightHeld, Registered
<1>5. CASE SeedMouseReport
  BY <1>5 DEF SeedMouseReport, InflightHeld, Registered
<1>6. CASE BeginTerminate
  BY <1>6 DEF BeginTerminate, InflightHeld, Registered
<1>7. CASE Unregister
  BY <1>1, <1>7 DEF Unregister, FreshEndpoint
<1>8. CASE Join
  BY <1>8 DEF Join, InflightHeld, Registered
<1>9. QED
  BY <1>2, <1>3, <1>4, <1>5, <1>6, <1>7, <1>8 DEF ControlStep

LEMMA InflightReader ==
  ASSUME InflightHeld, ReaderStep
  PROVE  InflightHeld'
BY DEF ReaderStep, ReadPhysical, PushPhysical, InflightHeld, Registered

(* No interleaving of the threads leaves an inflight mark that the writer  *)
(* is not about to clear: the endpoint is never silenced for good.         *)
THEOREM InflightIsHeld == Spec => []InflightHeld
<1>1. Init => InflightHeld
  BY DEF Init, InflightHeld
<1>2. TypeOK /\ InflightHeld /\ [Next]_vars => InflightHeld'
  <2> SUFFICES ASSUME TypeOK, InflightHeld, [Next]_vars PROVE InflightHeld'
    OBVIOUS
  <2>1. CASE UNCHANGED vars
    BY <2>1 DEF vars, InflightHeld, Registered
  <2>2. CASE Next
    BY <2>2, InflightClient, InflightReader, InflightWriter, InflightControl DEF Next
  <2>3. QED
    BY <2>1, <2>2
<1>3. QED
  BY <1>1, <1>2, TypeCorrect, PTL DEF Spec

-----------------------------------------------------------------------------
(* The queue keeps the order of acceptance.                                *)

(* QueueOrder of a queue q whose items were all numbered before n.         *)
Ordered(q, n) ==
  /\ \A i, j \in 1 .. Len(q) : i < j => q[i].id < q[j].id
  /\ \A j \in 1 .. Len(q) :
       /\ q[j].id < n
       /\ q[j].committed => j = 1 /\ q[j].x # 0

LEMMA OrderedIsQueueOrder ==
  ASSUME synthetic \in Seq(Item)
  PROVE  QueueOrder <=> Ordered(synthetic, nextItem)
BY LenProperties DEF QueueOrder, Ordered

LEMMA OrderEnqueue ==
  ASSUME TypeOK, QueueOrder, NEW c \in Commands, NEW a \in {NoGuard} \cup 0 .. activity,
         NEW g, EnqueueOk(c, a, g) \/ EnqueueQueueFull(c, a, g)
  PROVE  QueueOrder'
<1>1. /\ Len(synthetic) \in Nat /\ synthetic \in Seq(Item) /\ nextItem \in Nat
      /\ Ordered(synthetic, nextItem)
  BY LenProperties, OrderedIsQueueOrder DEF TypeOK
<1>2. \A j \in 1 .. Len(synthetic) : synthetic[j].id \in Nat
  <2>1. \A j \in 1 .. Len(synthetic) : synthetic[j] \in Item
    BY <1>1, ElementOfSeq
  <2>2. QED
    BY <2>1 DEF Item
<1>3. TypeOK'
  BY EnqueueType
<1>4. ASSUME EnqueueOk(c, a, g) PROVE Ordered(synthetic', nextItem')
  <2>1. PICK k \in 0 .. Len(synthetic) :
          synthetic' = Append(SubSeq(synthetic, 1, k), NewItem(c, a))
    BY <1>4 DEF EnqueueOk
  <2> DEFINE n == NewItem(c, a)
             p == SubSeq(synthetic, 1, k)
  <2>2. /\ n \in Item /\ n.id = nextItem /\ ~n.committed
        /\ p \in Seq(Item) /\ Len(p) = k /\ \A i \in 1 .. k : p[i] = synthetic[i]
    BY <1>1, NewItemType, FrontProperties DEF NewItem
  <2>3. synthetic' = Append(p, n) /\ nextItem' = nextItem + 1
    BY <1>4, <2>1 DEF EnqueueOk
  <2> HIDE DEF n, p
  <2>4. /\ Len(synthetic') = k + 1 /\ synthetic'[k + 1] = n
        /\ \A i \in 1 .. k : synthetic'[i] = synthetic[i]
    BY <1>1, <2>2, <2>3, AppendProperties
  <2>5. k <= Len(synthetic) /\ k \in Nat
    BY <1>1
  <2>6. ASSUME NEW i \in 1 .. k + 1, NEW j \in 1 .. k + 1, i < j
        PROVE  synthetic'[i].id < synthetic'[j].id
    <3>1. i \in 1 .. k /\ i \in 1 .. Len(synthetic)
      BY <1>1, <2>5, <2>6
    <3>2. CASE j = k + 1
      BY <1>1, <2>2, <2>4, <3>1, <3>2 DEF Ordered
    <3>3. CASE j \in 1 .. k
      BY <1>1, <2>4, <2>5, <2>6, <3>1, <3>3 DEF Ordered
    <3>4. QED
      BY <2>5, <3>2, <3>3
  <2>7. ASSUME NEW j \in 1 .. k + 1
        PROVE  /\ synthetic'[j].id < nextItem'
               /\ synthetic'[j].committed => j = 1 /\ synthetic'[j].x # 0
    <3>1. CASE j = k + 1
      BY <1>1, <2>2, <2>3, <2>4, <3>1
    <3>2. CASE j \in 1 .. k
      <4>1. j \in 1 .. Len(synthetic) /\ synthetic'[j] = synthetic[j]
        BY <1>1, <2>4, <2>5, <3>2
      <4>2. synthetic[j].id < nextItem /\ synthetic[j].id \in Nat
        BY <1>1, <1>2, <4>1 DEF Ordered
      <4>3. QED
        BY <1>1, <2>3, <4>1, <4>2 DEF Ordered
    <3>3. QED
      BY <2>5, <3>1, <3>2
  <2>8. QED
    BY <2>4, <2>6, <2>7 DEF Ordered
<1>5. ASSUME EnqueueQueueFull(c, a, g) PROVE Ordered(synthetic', nextItem')
  <2>1. PICK k \in 0 .. Len(synthetic) : synthetic' = SubSeq(synthetic, 1, k)
    BY <1>5 DEF EnqueueQueueFull
  <2>2. Len(synthetic') = k /\ \A i \in 1 .. k : synthetic'[i] = synthetic[i]
    BY <1>1, <2>1, FrontProperties
  <2>3. k <= Len(synthetic) /\ k \in Nat
    BY <1>1
  <2>4. nextItem' = nextItem
    BY <1>5 DEF EnqueueQueueFull
  <2>5. QED
    BY <1>1, <2>2, <2>3, <2>4 DEF Ordered
<1>6. (synthetic \in Seq(Item))'
  BY <1>3 DEF TypeOK
<1>7. DOMAIN synthetic' = 1 .. Len(synthetic')
  BY <1>6, LenProperties
<1>8. QED
  BY <1>4, <1>5, <1>7 DEF QueueOrder, Ordered

(* Taking a report drops a prefix, and an item that keeps its place        *)
(* without its motion still has masks to write.                            *)
LEMMA OrderExpiry ==
  ASSUME TypeOK, QueueOrder, NEW cutoff, NEW k \in 0 .. Len(synthetic),
         ExpireCut(cutoff, k)
  PROVE  Ordered(AfterExpiry(cutoff, k), nextItem)
<1> DEFINE q == AfterExpiry(cutoff, k)
<1>1. /\ Len(synthetic) \in Nat /\ synthetic \in Seq(Item)
      /\ Ordered(synthetic, nextItem) /\ Len(q) = Len(synthetic) - k
  BY LenProperties, OrderedIsQueueOrder, AfterExpiryProperties DEF TypeOK
<1>2. \A i \in 1 .. Len(q) : /\ k + i \in 1 .. Len(synthetic)
                             /\ q[i].id = synthetic[k + i].id
                             /\ q[i].committed = synthetic[k + i].committed
  <2> TAKE i \in 1 .. Len(q)
  <2>1. i \in 1 .. Len(synthetic) - k
    BY <1>1
  <2> QED
    BY <2>1, ExpiryKeepsId
<1>3. k < Len(synthetic) =>
        ~(MotionLeft(synthetic[k + 1], cutoff) = 0 /\ ~NeedsButtons(synthetic[k + 1]))
  BY DEF ExpireCut, FrontCut
<1>4. \A i \in 1 .. Len(q) :
        q[i] = IF i = 1 /\ Expired(synthetic[k + 1], cutoff)
               THEN [synthetic[k + 1] EXCEPT !.x = 0] ELSE synthetic[k + i]
  BY <1>1, AfterExpiryProperties
<1> HIDE DEF q
<1>5. \A i, j \in 1 .. Len(q) : i < j => q[i].id < q[j].id
  <2>1. SUFFICES ASSUME NEW i \in 1 .. Len(q), NEW j \in 1 .. Len(q), i < j
                 PROVE  q[i].id < q[j].id
    OBVIOUS
  <2>2. k + i < k + j
    BY <1>1, <2>1
  <2>3. QED
    BY <1>1, <1>2, <2>2 DEF Ordered
<1>6. ASSUME NEW j \in 1 .. Len(q)
      PROVE  q[j].id < nextItem /\ (q[j].committed => j = 1 /\ q[j].x # 0)
  <2>1. q[j].id < nextItem
    BY <1>1, <1>2 DEF Ordered
  <2>2. ASSUME q[j].committed PROVE j = 1 /\ q[j].x # 0
    <3>1. synthetic[k + j].committed
      BY <1>2, <2>2
    <3>2. k + j = 1
      BY <1>1, <1>2, <3>1 DEF Ordered
    <3>3. k = 0 /\ j = 1
      BY <1>1, <3>2
    <3>4. synthetic[1].x # 0 /\ 1 \in 1 .. Len(synthetic)
      BY <1>1, <1>2, <3>1, <3>2 DEF Ordered
    <3>5. ~Expired(synthetic[1], cutoff)
      BY <1>1, <1>3, <3>1, <3>3, <3>4 DEF MotionLeft, NeedsButtons
    <3>6. QED
      BY <1>4, <3>3, <3>4, <3>5
  <2>3. QED
    BY <2>1, <2>2
<1>7. QED
  BY <1>5, <1>6 DEF Ordered, q

LEMMA OrderCommit ==
  ASSUME TypeOK, QueueOrder, NEW success \in BOOLEAN, CommitQueue(success)
  PROVE  Ordered(synthetic', nextItem)
<1>1. /\ Len(synthetic) \in Nat /\ synthetic \in Seq(Item)
      /\ Ordered(synthetic, nextItem)
  BY LenProperties, OrderedIsQueueOrder DEF TypeOK
<1>2. CASE ~(OfFront /\ success)
  BY <1>1, <1>2 DEF CommitQueue
<1>3. CASE OfFront /\ success
  <2> DEFINE f == CommittedFront
             q == [synthetic EXCEPT ![1] = f]
  <2>1. synthetic # <<>>
    BY <1>3 DEF OfFront
  <2>2. 1 \in 1 .. Len(synthetic) /\ synthetic[1] \in Item /\ Head(synthetic) = synthetic[1]
    BY <1>1, <2>1, EmptySeq, ElementOfSeq, HeadTailProperties
  <2>3. io.x \in Int
    BY DEF TypeOK, Io
  <2>4. f \in Item /\ f.id = synthetic[1].id
    <3>1. f \in Item
      BY <2>2, <2>3, ItemCommits DEF CommittedFront
    <3>2. f.id = synthetic[1].id
      BY <2>2 DEF CommittedFront, Item
    <3>3. QED
      BY <3>1, <3>2
  <2>5. PICK k \in 0 .. Len(q) :
          /\ k < Len(q) => ~Finished(q[k + 1])
          /\ synthetic' = Rest(q, k)
    BY <1>3 DEF CommitQueue, FrontCut
  <2> HIDE DEF f
  <2>6. /\ q \in Seq(Item) /\ Len(q) = Len(synthetic)
        /\ \A j \in 1 .. Len(synthetic) : q[j] = IF j = 1 THEN f ELSE synthetic[j]
    BY <1>1, <2>2, <2>4, ExceptSeq
  <2> HIDE DEF q
  <2>7. /\ Len(synthetic') = Len(q) - k
        /\ \A i \in 1 .. Len(q) - k : synthetic'[i] = q[k + i]
    BY <2>5, <2>6, RestProperties
  <2>8. ASSUME NEW i \in 1 .. Len(synthetic')
        PROVE  /\ k + i \in 1 .. Len(synthetic) /\ synthetic'[i] = q[k + i]
               /\ synthetic'[i].id = synthetic[k + i].id
    <3>1. k + i \in 1 .. Len(synthetic) /\ synthetic'[i] = q[k + i]
      BY <1>1, <2>6, <2>7
    <3>2. QED
      BY <2>4, <2>6, <3>1
  <2>9. ASSUME NEW i \in 1 .. Len(synthetic'), NEW j \in 1 .. Len(synthetic'), i < j
        PROVE  synthetic'[i].id < synthetic'[j].id
    <3>1. k + i < k + j
      BY <1>1, <2>6, <2>7, <2>9
    <3>2. QED
      BY <1>1, <2>8, <3>1 DEF Ordered
  <2>10. ASSUME NEW j \in 1 .. Len(synthetic')
         PROVE  /\ synthetic'[j].id < nextItem
                /\ synthetic'[j].committed => j = 1 /\ synthetic'[j].x # 0
    <3>1. synthetic'[j].id < nextItem
      BY <1>1, <2>8 DEF Ordered
    <3>2. ASSUME synthetic'[j].committed PROVE j = 1 /\ synthetic'[j].x # 0
      <4>1. CASE k + j = 1
        <5>1. k = 0 /\ j = 1
          BY <1>1, <2>6, <2>7, <4>1
        <5>2. k < Len(q) /\ q[k + 1] = synthetic'[j]
          BY <1>1, <2>2, <2>6, <2>8, <5>1
        <5>3. QED
          BY <2>5, <3>2, <5>1, <5>2 DEF Finished
      <4>2. CASE k + j # 1
        <5>1. synthetic'[j] = synthetic[k + j]
          BY <2>6, <2>8, <4>2
        <5>2. QED
          BY <1>1, <2>8, <3>2, <4>2, <5>1 DEF Ordered
      <4>3. QED
        BY <4>1, <4>2
    <3>3. QED
      BY <3>1, <3>2
  <2>11. QED
    BY <2>9, <2>10 DEF Ordered
<1>4. QED
  BY <1>2, <1>3

(* Whatever is superseded, expired, cleared or committed, items leave the  *)
(* queue in the order they were accepted, and only the front one can be    *)
(* half written.                                                           *)
THEOREM QueueIsOrdered == Spec => []QueueOrder
<1>1. Init => QueueOrder
  BY DEF Init, QueueOrder
<1>2. TypeOK /\ QueueOrder /\ [Next]_vars /\ TypeOK' => QueueOrder'
  <2> SUFFICES ASSUME TypeOK, QueueOrder, [Next]_vars, TypeOK' PROVE QueueOrder'
    OBVIOUS
  <2>1. ASSUME synthetic' = <<>> PROVE QueueOrder'
    BY <2>1 DEF QueueOrder
  <2>2. ASSUME synthetic' = synthetic, nextItem' = nextItem PROVE QueueOrder'
    BY <2>2 DEF QueueOrder
  <2>3. ASSUME Ordered(synthetic', nextItem), nextItem' = nextItem PROVE QueueOrder'
    <3>1. (synthetic \in Seq(Item))'
      BY DEF TypeOK
    <3>2. Ordered(synthetic', nextItem')
      BY <2>3
    <3>3. DOMAIN synthetic' = 1 .. Len(synthetic')
      BY <3>1, LenProperties
    <3>4. QED
      BY <3>2, <3>3 DEF QueueOrder, Ordered
  <2>4. CASE UNCHANGED vars
    BY <2>2, <2>4 DEF vars
  <2>5. CASE ClientStep
    <3>1. CASE ClearSynthetic
      BY <2>1, <2>2, <3>1 DEF ClearSynthetic, DropSynthetic
    <3>2. CASE TakeWriterEvents \/ TakeWriterOverflow
      BY <2>2, <3>2 DEF TakeWriterEvents, TakeWriterOverflow
    <3>3. QED
      BY <2>5, <3>1, <3>2, OrderEnqueue DEF ClientStep
  <2>6. CASE ReaderStep
    BY <2>2, <2>6 DEF ReaderStep, ReadPhysical, PushPhysical
  <2>7. CASE WriterStep
    <3>1. ASSUME NEW cutoff, NEW k \in 0 .. Len(synthetic), TakeReport(cutoff, k)
          PROVE  QueueOrder'
      <4>1. CASE TakePhysical(cutoff, k) \/ TakeStandalone(cutoff, k)
        <5>1. ExpireCut(cutoff, k) /\ nextItem' = nextItem
          BY <4>1 DEF TakePhysical, TakeStandalone, Taken
        <5>2. QED
          BY <2>3, <4>1, <5>1, TakeNames, OrderExpiry
      <4>2. CASE TakeNothing(cutoff, k)
        <5>1. /\ ExpireCut(cutoff, k) /\ nextItem' = nextItem
              /\ synthetic' = AfterExpiry(cutoff, k)
          BY <4>2 DEF TakeNothing
        <5>2. QED
          BY <2>3, <5>1, OrderExpiry
      <4>3. QED
        BY <3>1, <4>1, <4>2 DEF TakeReport
    <3>2. ASSUME NEW success \in BOOLEAN, NEW exits \in BOOLEAN, Complete(success, exits)
          PROVE  QueueOrder'
      <4>1. CASE Known
        BY <2>3, <3>2, <4>1, OrderCommit DEF Complete
      <4>2. CASE ~Known
        BY <2>2, <3>2, <4>2 DEF Complete
      <4>3. QED
        BY <4>1, <4>2
    <3>3. CASE AppendEvent \/ WriterStops
      BY <2>2, <3>3 DEF AppendEvent, WriterStops
    <3>4. QED
      BY <2>7, <3>1, <3>2, <3>3
         DEF WriterStep, Take, WriteSucceeds, WriteFails, WriteFailsAndEnds
  <2>8. CASE ControlStep
    <3>1. ASSUME NEW b, SetProtocol(b) PROVE QueueOrder'
      BY <2>1, <3>1 DEF SetProtocol, Invalidate, DropSynthetic
    <3>2. ASSUME NEW learned, LearnDescriptor(learned) PROVE QueueOrder'
      BY <2>1, <2>2, <3>2 DEF LearnDescriptor, Invalidate, DropSynthetic
    <3>3. ASSUME NEW learned, NEW b, Register(learned, b) PROVE QueueOrder'
      BY <2>2, <3>3 DEF Register
    <3>4. CASE Unregister
      BY <2>1, <3>4 DEF Unregister, FreshEndpoint, DropSynthetic
    <3>5. CASE SeedMouseReport \/ BeginTerminate \/ Join
      BY <2>2, <3>5 DEF SeedMouseReport, BeginTerminate, Join
    <3>6. QED
      BY <2>8, <3>1, <3>2, <3>3, <3>4, <3>5 DEF ControlStep
  <2>9. QED
    BY <2>4, <2>5, <2>6, <2>7, <2>8 DEF Next
<1>3. QED
  BY <1>1, <1>2, TypeCorrect, PTL DEF Spec

-----------------------------------------------------------------------------
(* What the reports the writer thread takes say, field by field.           *)

LEMMA StandaloneIoFields ==
  ASSUME NEW item
  PROVE  LET d == StandaloneIo(item)
             buttons == submittedPhysical \cup item.persistent \cup item.scheduled
         IN  /\ d.physical = FALSE /\ d.match = FALSE /\ d.physicalButtons = {}
             /\ d.final = buttons /\ d.shown = buttons \cap Supported
BY DEF StandaloneIo, NoIo

(* The motion of item that a report may carry.                             *)
Carried(item, x) == x = 0 \/ x = item.x \/ x = Part(item.x)

(* A report for the front item of the queue q.                             *)
ForFront(q) ==
  /\ q # <<>>
  /\ io'.generation = generation
  /\ io'.item = Head(q).id /\ Carried(Head(q), io'.x)
  /\ io'.persistent = Head(q).persistent /\ io'.scheduled = Head(q).scheduled
  /\ io'.kind = Head(q).kind /\ io'.key = Head(q).key /\ io'.button = Head(q).button
  /\ io'.blocked = (Head(q).kind \in PressKinds /\ Head(q).button \in PreviouslyVisible)

LEMMA DescribesFront ==
  ASSUME NEW report \in Io, NEW q, q # <<>>, Head(q) \in Item, NEW x \in Int,
         Carried(Head(q), x), NEW competing \in BOOLEAN,
         io' = Describe(report, Head(q), x, competing)
  PROVE  ForFront(q)
<1> DEFINE item == Head(q)
<1>1. /\ io'.generation = generation /\ io'.item = item.id /\ io'.x = x
      /\ io'.persistent = item.persistent /\ io'.scheduled = item.scheduled
      /\ io'.kind = item.kind /\ io'.key = item.key /\ io'.button = item.button
      /\ io'.blocked = (item.kind \in PressKinds /\ item.button \in PreviouslyVisible)
  <2> DEFINE blocked == item.kind \in PressKinds /\ item.button \in PreviouslyVisible
             d == Describe(report, item, x, competing)
  <2> HIDE DEF item
  <2>1. d = [report EXCEPT !.generation = generation, !.instance = instance,
                           !.item = item.id, !.x = x, !.persistent = item.persistent,
                           !.scheduled = item.scheduled, !.kind = item.kind,
                           !.key = item.key, !.button = item.button,
                           !.competing = competing, !.blocked = blocked]
    BY DEF Describe
  <2> HIDE DEF blocked, d
  <2>2. /\ d.generation = generation /\ d.item = item.id /\ d.x = x
        /\ d.persistent = item.persistent /\ d.scheduled = item.scheduled
    BY <2>1 DEF Io
  <2>3. /\ d.kind = item.kind /\ d.key = item.key /\ d.button = item.button
        /\ d.blocked = blocked
    BY <2>1 DEF Io
  <2>4. io' = d
    BY DEF item, d
  <2>5. QED
    BY <2>2, <2>3, <2>4 DEF blocked
<1>2. QED
  BY <1>1 DEF ForFront

(* It is made for the front item, and a physical report is on its way to   *)
(* the host already or has to wait.                                        *)
AloneTaken(q) ==
  LET buttons == submittedPhysical \cup Head(q).persistent \cup Head(q).scheduled
  IN  /\ ForFront(q)
      /\ Encodable(Head(q).x, Head(q).persistent \cup Head(q).scheduled)
      /\ io'.physical = FALSE /\ io'.match = FALSE /\ io'.physicalButtons = {}
      /\ io'.competing = Competes(q) /\ (fifo = <<>> \/ Competes(q))
      /\ io'.final = buttons /\ io'.shown = buttons \cap Supported
      /\ fifo' = fifo

(* The oldest physical report is taken.                                    *)
PhysicalTaken ==
  /\ fifo # <<>> /\ fifo' = Tail(fifo)
  /\ io'.physical /\ io'.match = Head(fifo).match
  /\ io'.physicalButtons = Head(fifo).buttons
  /\ io'.competing = FALSE

(* With the front item on it.                                              *)
FusedTaken(q) ==
  LET buttons == Head(fifo).buttons \cup (Head(q).persistent \cup Head(q).scheduled)
  IN  /\ PhysicalTaken /\ ForFront(q) /\ Compatible(Head(fifo))
      /\ io'.final = buttons /\ io'.shown = buttons \cap Supported

(* Without one.                                                            *)
PlainTaken ==
  LET buttons == Head(fifo).buttons \cup (persistent \cup scheduled)
  IN  /\ PhysicalTaken
      /\ io'.generation = Head(fifo).generation
      /\ io'.item = NoItem /\ io'.x = 0 /\ io'.persistent = {} /\ io'.scheduled = {}
      /\ io'.kind = "NONE" /\ io'.key = 0 /\ io'.button = NoButton /\ io'.blocked = FALSE
      /\ io'.final = (IF Compatible(Head(fifo)) THEN buttons ELSE {})
      /\ io'.shown = (IF Compatible(Head(fifo)) THEN buttons \cap Supported
                      ELSE Head(fifo).buttons)

(* What stays when a report is taken.                                      *)
TakeKeeps ==
  UNCHANGED <<layoutVars, endpointVars, physicalVars, writtenVars, nextItem,
              stamped, pendingEvent, eventVars, hostVars, commanded>>

LEMMA TakeCases ==
  ASSUME TypeOK, NEW cutoff, NEW k \in 0 .. Len(synthetic),
         TakePhysical(cutoff, k) \/ TakeStandalone(cutoff, k)
  PROVE  /\ CanTake /\ ExpireCut(cutoff, k) /\ TakeKeeps
         /\ writer' = "writing" /\ synthetic' = AfterExpiry(cutoff, k)
         /\ inflight' = io'.item /\ io'.instance = instance
         /\ \/ AloneTaken(synthetic')
            \/ FusedTaken(synthetic')
            \/ PlainTaken
<1> DEFINE q == AfterExpiry(cutoff, k)
<1>1. q \in Seq(Item) /\ fifo \in Seq(Report)
  BY AfterExpiryProperties DEF TypeOK
<1>2. ASSUME q # <<>>
      PROVE  /\ Head(q) \in Item /\ Head(q).x \in Int
             /\ Head(q).persistent \cup Head(q).scheduled \in SUBSET Buttons
  <2>1. Head(q) \in Item
    BY <1>1, <1>2, HeadTailProperties
  <2>2. QED
    BY <2>1 DEF Item
<1>3. CanTake /\ ExpireCut(cutoff, k)
  BY DEF TakePhysical, TakeStandalone
<1>4. CASE TakePhysical(cutoff, k)
  <2> DEFINE r == Head(fifo)
             base == PhysicalIo(r, Head(q).persistent \cup Head(q).scheduled)
             x == IF Fuses(Head(q), r) THEN FusionMotion(Head(q)) ELSE 0
             front == Describe(base, Head(q), x, FALSE)
             plain == PhysicalIo(r, persistent \cup scheduled)
  <2>1. r \in Report /\ fifo # <<>> /\ fifo' = Tail(fifo)
    BY <1>1, <1>4, HeadTailProperties DEF TakePhysical
  <2>2. \/ q # <<>> /\ Compatible(r) /\ Taken(q, front)
        \/ Taken(q, plain)
    BY <1>4 DEF TakePhysical, HaveSynthetic, Fuses, ButtonsOnly
  <2>3. CASE Taken(q, plain)
    <3>1. io' = plain
      BY <2>3 DEF Taken
    <3> DEFINE masks == persistent \cup scheduled
    <3> HIDE DEF masks
    <3>2. /\ plain.physical /\ plain.match = r.match /\ plain.generation = r.generation
          /\ plain.instance = instance /\ plain.physicalButtons = r.buttons
          /\ plain.item = NoItem /\ plain.x = 0 /\ plain.persistent = {} /\ plain.scheduled = {}
          /\ plain.kind = "NONE" /\ plain.key = 0 /\ plain.button = NoButton
          /\ plain.blocked = FALSE /\ plain.competing = FALSE
          /\ plain.final = (IF Compatible(r) THEN r.buttons \cup masks ELSE {})
          /\ plain.shown = (IF Compatible(r) THEN (r.buttons \cup masks) \cap Supported
                            ELSE r.buttons)
      <4>1. plain = PhysicalIo(r, masks)
        BY DEF masks
      <4> HIDE DEF plain, r
      <4>2. QED
        BY ONLY <4>1 DEF PhysicalIo, NoIo
    <3> HIDE DEF plain
    <3>3. io'.instance = instance
      BY <3>1, <3>2
    <3>4. PlainTaken
      BY <2>1, <3>1, <3>2 DEF PlainTaken, PhysicalTaken, masks
    <3> HIDE DEF q, r
    <3>5. QED
      BY <1>3, <2>3, <3>3, <3>4 DEF Taken, TakeKeeps, q
  <2>4. CASE q # <<>> /\ Compatible(r) /\ Taken(q, front)
    <3>1. io' = front
      BY <2>4 DEF Taken
    <3>2. base \in Io
      BY <1>2, <2>1, <2>4, PhysicalIoType
    <3>3. x \in Int /\ Carried(Head(q), x)
      <4>1. /\ FusionMotion(Head(q)) \in Int
            /\ FusionMotion(Head(q)) \in {Head(q).x, Part(Head(q).x)}
        BY <1>2, <2>4, PartType DEF FusionMotion
      <4>2. x = 0 \/ x = FusionMotion(Head(q))
        OBVIOUS
      <4> HIDE DEF x
      <4>3. QED
        BY <4>1, <4>2 DEF Carried
    <3>4. /\ base.physical /\ base.match = r.match /\ base.physicalButtons = r.buttons
          /\ base.final = r.buttons \cup (Head(q).persistent \cup Head(q).scheduled)
          /\ base.shown = (r.buttons \cup (Head(q).persistent \cup Head(q).scheduled))
                             \cap Supported
      <4> DEFINE masks == Head(q).persistent \cup Head(q).scheduled
      <4>1. base = PhysicalIo(r, masks)
        OBVIOUS
      <4> HIDE DEF masks, base, r
      <4>2. Compatible(r)
        BY <2>4
      <4>3. /\ base.physical /\ base.match = r.match /\ base.physicalButtons = r.buttons
            /\ base.final = r.buttons \cup masks
            /\ base.shown = (r.buttons \cup masks) \cap Supported
        BY ONLY <4>1, <4>2 DEF PhysicalIo, NoIo
      <4>4. QED
        BY <4>3 DEF masks
    <3> HIDE DEF base, x
    <3>5. /\ front.physical = base.physical /\ front.match = base.match
          /\ front.physicalButtons = base.physicalButtons
          /\ front.final = base.final /\ front.shown = base.shown
          /\ front.instance = instance /\ front.competing = FALSE
      BY <3>2 DEF Describe, Io
    <3>6. ForFront(q)
      BY <1>2, <2>4, <3>1, <3>2, <3>3, DescribesFront
    <3> HIDE DEF front, q
    <3>7. FusedTaken(q)
      BY <2>1, <2>4, <3>1, <3>4, <3>5, <3>6 DEF FusedTaken, PhysicalTaken
    <3>8. QED
      BY <1>3, <2>4, <3>1, <3>5, <3>7 DEF Taken, TakeKeeps, q
  <2>5. QED
    BY <2>2, <2>3, <2>4
<1>5. CASE TakeStandalone(cutoff, k)
  <2> DEFINE base == StandaloneIo(Head(q))
             x == Part(Head(q).x)
             competing == Competes(q)
             alone == Describe(base, Head(q), x, competing)
  <2>1. /\ q # <<>> /\ Taken(q, alone) /\ fifo' = fifo
        /\ Encodable(Head(q).x, Head(q).persistent \cup Head(q).scheduled)
        /\ fifo = <<>> \/ competing
    BY <1>5 DEF TakeStandalone, HaveSynthetic
  <2>2. competing \in BOOLEAN
    BY DEF Competes
  <2>3. base \in Io /\ x \in Int /\ Carried(Head(q), x)
    BY <1>2, <2>1, PartType, StandaloneIoType DEF Carried
  <2>4. /\ base.physical = FALSE /\ base.match = FALSE /\ base.physicalButtons = {}
        /\ base.final = submittedPhysical \cup Head(q).persistent \cup Head(q).scheduled
        /\ base.shown = (submittedPhysical \cup Head(q).persistent \cup Head(q).scheduled)
                           \cap Supported
    BY StandaloneIoFields
  <2>5. io' = alone
    BY <2>1 DEF Taken
  <2> HIDE DEF base, x
  <2> HIDE DEF competing
  <2>6. ForFront(q)
    BY <1>2, <2>1, <2>2, <2>3, <2>5, DescribesFront
  <2>7. /\ alone.physical = base.physical /\ alone.match = base.match
        /\ alone.physicalButtons = base.physicalButtons
        /\ alone.final = base.final /\ alone.shown = base.shown
        /\ alone.instance = instance /\ alone.competing = competing
    BY <1>2, <2>1, <2>2, <2>3 DEF Describe, Io
  <2> HIDE DEF alone, q
  <2>8. AloneTaken(q)
    BY <2>1, <2>4, <2>5, <2>6, <2>7 DEF AloneTaken, competing
  <2>9. QED
    BY <1>3, <2>1, <2>5, <2>7, <2>8 DEF Taken, TakeKeeps, q
<1>6. QED
  BY <1>4, <1>5
-----------------------------------------------------------------------------
(* Where the threads have got to.                                          *)

ThreadInv ==
  /\ phase = "down" => writer = "exited" /\ fifo = <<>> /\ stamped = <<>>
  /\ phase # "down" => nextGeneration > 0
  /\ phase = "draining" => nextGeneration < MaxGenerations
  /\ Registered => generation = nextGeneration
  /\ phase = "stopping" => generation < nextGeneration
  /\ generation <= nextGeneration
  /\ writer = "writing" => io.instance = instance
  /\ writer \in {"idle", "writing", "exited"} => pendingEvent = <<>>
  /\ Len(pendingEvent) <= 1

LEMMA ThreadTake ==
  ASSUME TypeOK, ThreadInv, Take
  PROVE  ThreadInv'
<1>1. PICK cutoff \in 0 .. nextItem - 1 : \E k \in 0 .. Len(synthetic) : TakeReport(cutoff, k)
  BY DEF Take
<1>2. PICK k \in 0 .. Len(synthetic) : TakeReport(cutoff, k)
  BY <1>1
<1>3. CASE TakeNothing(cutoff, k)
  BY <1>3 DEF TakeNothing, ThreadInv, Registered
<1>4. CASE TakePhysical(cutoff, k) \/ TakeStandalone(cutoff, k)
  <2>1. CanTake /\ TakeKeeps /\ writer' = "writing" /\ io'.instance = instance
    BY <1>4, TakeCases
  <2>2. phase # "down" /\ phase' = phase
    BY <2>1 DEF CanTake, Registered, TakeKeeps
  <2>3. QED
    BY <2>1, <2>2 DEF CanTake, TakeKeeps, ThreadInv, Registered
<1>5. QED
  BY <1>2, <1>3, <1>4 DEF TakeReport

LEMMA ThreadComplete ==
  ASSUME TypeOK, ThreadInv, NEW success \in BOOLEAN, NEW exits \in BOOLEAN,
         Complete(success, exits)
  PROVE  ThreadInv'
<1>1. /\ UNCHANGED endpointVars /\ stamped' = stamped
      /\ writer = "writing" /\ writer' \in {"reporting", "exiting"}
  BY DEF Complete
<1>2. phase # "down"
  BY <1>1 DEF ThreadInv
<1>3. Len(pendingEvent') <= 1
  <2> DEFINE e == CompletionEvent(success)
  <2>1. pendingEvent' = <<e>> \/ pendingEvent' = <<>>
    BY DEF Complete
  <2> HIDE DEF e
  <2>2. QED
    BY <2>1
<1>4. QED
  BY <1>1, <1>2, <1>3 DEF ThreadInv, Registered

LEMMA ThreadStep ==
  ASSUME TypeOK, ThreadInv, [Next]_vars
  PROVE  ThreadInv'
<1>1. ASSUME UNCHANGED <<endpointVars, writer, io, pendingEvent, fifo, stamped>> PROVE ThreadInv'
  BY <1>1 DEF ThreadInv, Registered
<1>2. CASE UNCHANGED vars
  BY <1>1, <1>2 DEF vars
<1>3. CASE ClientStep
  <2>1. UNCHANGED <<endpointVars, writer, io, pendingEvent, fifo, stamped>>
    BY <1>3 DEF ClientStep, EnqueueOk, EnqueueQueueFull, ClearSynthetic, TakeWriterEvents,
                TakeWriterOverflow
  <2>2. QED
    BY <1>1, <2>1
<1>4. CASE ReaderStep
  <2>1. UNCHANGED <<endpointVars, writer, io, pendingEvent>> /\ phase # "down"
    BY <1>4 DEF ReaderStep, ReadPhysical, PushPhysical, Registered
  <2>2. QED
    BY <2>1 DEF ThreadInv, Registered
<1>5. CASE Take
  BY <1>5, ThreadTake
<1>6. CASE WriteSucceeds \/ WriteFails \/ WriteFailsAndEnds
  BY <1>6, ThreadComplete DEF WriteSucceeds, WriteFails, WriteFailsAndEnds
<1>7. CASE AppendEvent
  <2>1. UNCHANGED <<endpointVars, fifo, stamped, io>> /\ pendingEvent' = <<>>
        /\ writer \in {"reporting", "exiting"} /\ writer' \in {"exited", "idle"}
    BY <1>7 DEF AppendEvent
  <2>2. phase # "down"
    BY <2>1 DEF ThreadInv
  <2>3. QED
    BY <2>1, <2>2 DEF ThreadInv, Registered
<1>8. CASE WriterStops
  BY <1>8 DEF WriterStops, ThreadInv, Registered
<1>9. CASE ControlStep
  <2>1. ASSUME Invalidate, phase = "up" PROVE ThreadInv'
    <3>1. /\ phase' = phase /\ nextGeneration' = nextGeneration + 1
          /\ generation' = nextGeneration + 1 /\ UNCHANGED <<instance, fifo, stamped, writerVars>>
      BY <2>1 DEF Invalidate
    <3>2. QED
      BY <2>1, <3>1 DEF ThreadInv, Registered, TypeOK
  <2>2. ASSUME NEW b, SetProtocol(b) PROVE ThreadInv'
    BY <2>1, <2>2 DEF SetProtocol
  <2>3. ASSUME NEW learned, LearnDescriptor(learned) PROVE ThreadInv'
    BY <1>1, <2>1, <2>3 DEF LearnDescriptor
  <2>4. ASSUME NEW learned, NEW b, Register(learned, b) PROVE ThreadInv'
    <3>1. /\ phase = "down" /\ phase' = "up" /\ nextGeneration' = nextGeneration + 1
          /\ generation' = nextGeneration + 1 /\ writer' = "idle"
          /\ UNCHANGED <<pendingEvent, fifo, stamped>>
      BY <2>4 DEF Register
    <3>2. QED
      BY <3>1 DEF ThreadInv, Registered, TypeOK
  <2>5. CASE SeedMouseReport
    BY <1>1, <2>5 DEF SeedMouseReport
  <2>6. CASE BeginTerminate
    BY <2>6 DEF BeginTerminate, ThreadInv, Registered
  <2>7. CASE Unregister
    <3>1. /\ phase = "draining" /\ phase' = "stopping" /\ nextGeneration' = nextGeneration + 1
          /\ UNCHANGED <<generation, instance, fifo, stamped, writerVars>>
      BY <2>7 DEF Unregister
    <3>2. QED
      BY <3>1 DEF ThreadInv, Registered, TypeOK
  <2>8. CASE Join
    BY <2>8 DEF Join, ThreadInv, Registered
  <2>9. QED
    BY <1>9, <2>2, <2>3, <2>4, <2>5, <2>6, <2>7, <2>8 DEF ControlStep
<1>10. QED
  BY <1>2, <1>3, <1>4, <1>5, <1>6, <1>7, <1>8, <1>9 DEF Next, WriterStep

LEMMA ThreadCorrect == Spec => []ThreadInv
<1>1. Init => ThreadInv
  BY DEF Init, ThreadInv, Registered
<1>2. TypeOK /\ ThreadInv /\ [Next]_vars => ThreadInv'
  BY ThreadStep
<1>3. QED
  BY <1>1, <1>2, TypeCorrect, PTL DEF Spec

-----------------------------------------------------------------------------
(* An endpoint that is not registered remembers nothing.                   *)

FreshInv ==
  ~Registered =>
    /\ ~latestKnown /\ ~templateKnown /\ credits = 0
    /\ submittedPhysical = {} /\ persistent = {} /\ scheduled = {} /\ synthetic = <<>>

freshVars == <<phase, latestKnown, templateKnown, credits, submittedPhysical, persistent,
               scheduled, synthetic>>

LEMMA FreshStep ==
  ASSUME FreshInv, [Next]_vars
  PROVE  FreshInv'
<1>1. ASSUME UNCHANGED freshVars PROVE FreshInv'
  BY <1>1 DEF FreshInv, Registered, freshVars
<1>2. ASSUME Registered, phase' = phase PROVE FreshInv'
  BY <1>2 DEF FreshInv, Registered
<1>3. CASE UNCHANGED vars
  BY <1>1, <1>3 DEF vars, freshVars
<1>4. CASE ClientStep
  <2>1. ASSUME NEW c, NEW a, NEW g, EnqueueOk(c, a, g) \/ EnqueueQueueFull(c, a, g)
        PROVE  FreshInv'
    BY <1>2, <2>1 DEF EnqueueOk, EnqueueQueueFull, Accepts, Ready
  <2>2. CASE ClearSynthetic
    BY <1>1, <1>2, <2>2 DEF ClearSynthetic, freshVars
  <2>3. CASE TakeWriterEvents \/ TakeWriterOverflow
    BY <1>1, <2>3 DEF TakeWriterEvents, TakeWriterOverflow, freshVars
  <2>4. QED
    BY <1>4, <2>1, <2>2, <2>3 DEF ClientStep
<1>5. CASE ReaderStep
  BY <1>2, <1>5 DEF ReaderStep, ReadPhysical, PushPhysical
<1>6. CASE WriterStep
  <2>1. ASSUME NEW cutoff, NEW k, TakeReport(cutoff, k) PROVE FreshInv'
    BY <1>2, <2>1 DEF TakeReport, TakePhysical, TakeStandalone, TakeNothing, CanTake, Taken
  <2>2. ASSUME NEW success, NEW exits, Complete(success, exits) PROVE FreshInv'
    <3>1. CASE Known
      BY <1>2, <2>2, <3>1 DEF Complete, Known
    <3>2. CASE ~Known
      BY <1>1, <2>2, <3>2 DEF Complete, freshVars
    <3>3. QED
      BY <3>1, <3>2
  <2>3. CASE AppendEvent \/ WriterStops
    BY <1>1, <2>3 DEF AppendEvent, WriterStops, freshVars
  <2>4. QED
    BY <1>6, <2>1, <2>2, <2>3
       DEF WriterStep, Take, WriteSucceeds, WriteFails, WriteFailsAndEnds
<1>7. CASE ControlStep
  <2>1. ASSUME NEW b, SetProtocol(b) PROVE FreshInv'
    BY <1>2, <2>1 DEF SetProtocol, Invalidate, Registered
  <2>2. ASSUME NEW learned, LearnDescriptor(learned) PROVE FreshInv'
    BY <1>2, <2>2 DEF LearnDescriptor, Invalidate, Registered
  <2>3. ASSUME NEW learned, NEW b, Register(learned, b) PROVE FreshInv'
    BY <2>3 DEF Register, FreshInv, Registered
  <2>4. CASE SeedMouseReport
    BY <1>2, <2>4 DEF SeedMouseReport, Registered
  <2>5. CASE BeginTerminate
    BY <2>5 DEF BeginTerminate, FreshInv, Registered
  <2>6. CASE Unregister
    BY <2>6 DEF Unregister, FreshEndpoint, DropSynthetic, FreshInv
  <2>7. CASE Join
    BY <2>7 DEF Join, FreshInv, Registered
  <2>8. QED
    BY <1>7, <2>1, <2>2, <2>3, <2>4, <2>5, <2>6, <2>7 DEF ControlStep
<1>8. QED
  BY <1>3, <1>4, <1>5, <1>6, <1>7 DEF Next

LEMMA FreshCorrect == Spec => []FreshInv
<1>1. Init => FreshInv
  BY DEF Init, FreshInv
<1>2. FreshInv /\ [Next]_vars => FreshInv'
  BY FreshStep
<1>3. QED
  BY <1>1, <1>2, PTL DEF Spec
-----------------------------------------------------------------------------
(* The report in the writer thread is made for an item or is a physical    *)
(* one; when there is none the thread holds nothing.                       *)

IoShape ==
  /\ writer # "writing" => io = NoIo
  /\ io.match => io.physical
  /\ io.competing => ~io.physical
  /\ io.item = NoItem <=> io.kind = "NONE"
  /\ writer = "writing" /\ ~io.physical => io.item # NoItem /\ io.physicalButtons = {}
  /\ io.physical /\ ~io.match => io.item = NoItem
  /\ io.item = NoItem =>
       /\ io.x = 0 /\ io.persistent = {} /\ io.scheduled = {}
       /\ io.key = 0 /\ io.button = NoButton /\ io.blocked = FALSE

LEMMA FrontItem ==
  ASSUME TypeOK, NEW cutoff, NEW k \in 0 .. Len(synthetic),
         AfterExpiry(cutoff, k) # <<>>
  PROVE  Head(AfterExpiry(cutoff, k)) \in Item
BY AfterExpiryProperties, HeadTailProperties DEF TypeOK

LEMMA ShapeTake ==
  ASSUME TypeOK, IoShape, Take
  PROVE  IoShape'
<1>1. PICK cutoff \in 0 .. nextItem - 1 : \E k \in 0 .. Len(synthetic) : TakeReport(cutoff, k)
  BY DEF Take
<1>2. PICK k \in 0 .. Len(synthetic) : TakeReport(cutoff, k)
  BY <1>1
<1>3. CASE TakeNothing(cutoff, k)
  BY <1>3 DEF TakeNothing, IoShape
<1>4. CASE TakePhysical(cutoff, k) \/ TakeStandalone(cutoff, k)
  <2> DEFINE q == AfterExpiry(cutoff, k)
  <2>1. /\ writer' = "writing"
        /\ AloneTaken(q) \/ FusedTaken(q) \/ PlainTaken
    BY <1>4, TakeCases
  <2>2. ASSUME ForFront(q) PROVE io'.item # NoItem /\ io'.kind # "NONE"
    <3>1. Head(q) \in Item /\ io'.item = Head(q).id /\ io'.kind = Head(q).kind
      BY <2>2, FrontItem DEF ForFront
    <3> HIDE DEF q
    <3>2. QED
      BY <3>1 DEF Item, Kinds, TransactionKinds
  <2> HIDE DEF q
  <2>3. CASE AloneTaken(q)
    <3>1. /\ io'.item # NoItem /\ io'.kind # "NONE"
          /\ io'.physical = FALSE /\ io'.match = FALSE /\ io'.physicalButtons = {}
      BY <2>2, <2>3 DEF AloneTaken
    <3>2. QED
      BY <2>1, <3>1 DEF IoShape
  <2>4. CASE FusedTaken(q)
    <3>1. /\ io'.item # NoItem /\ io'.kind # "NONE"
          /\ io'.physical /\ io'.match /\ io'.competing = FALSE
      BY <2>2, <2>4 DEF FusedTaken, PhysicalTaken, Compatible
    <3>2. QED
      BY <2>1, <3>1 DEF IoShape
  <2>5. CASE PlainTaken
    BY <2>1, <2>5 DEF PlainTaken, PhysicalTaken, IoShape
  <2>6. QED
    BY <2>1, <2>3, <2>4, <2>5
<1>5. QED
  BY <1>2, <1>3, <1>4 DEF TakeReport

LEMMA NoIoShape ==
  ASSUME io' = NoIo, writer' # "writing"
  PROVE  IoShape'
BY DEF NoIo, IoShape

LEMMA ShapeStep ==
  ASSUME TypeOK, ThreadInv, IoShape, [Next]_vars
  PROVE  IoShape'
<1>1. ASSUME UNCHANGED <<writer, io>> PROVE IoShape'
  BY <1>1 DEF IoShape
<1>2. CASE UNCHANGED vars
  BY <1>1, <1>2 DEF vars
<1>3. CASE ClientStep
  <2>1. UNCHANGED <<writer, io>>
    BY <1>3 DEF ClientStep, EnqueueOk, EnqueueQueueFull, ClearSynthetic, TakeWriterEvents,
                TakeWriterOverflow
  <2>2. QED
    BY <1>1, <2>1
<1>4. CASE ReaderStep
  BY <1>1, <1>4 DEF ReaderStep, ReadPhysical, PushPhysical
<1>5. CASE Take
  BY <1>5, ShapeTake
<1>6. CASE WriteSucceeds \/ WriteFails \/ WriteFailsAndEnds
  <2>1. io' = NoIo /\ writer' # "writing"
    BY <1>6 DEF WriteSucceeds, WriteFails, WriteFailsAndEnds, Complete
  <2>2. QED
    BY <2>1, NoIoShape
<1>7. CASE AppendEvent \/ WriterStops
  <2>1. io' = NoIo /\ writer' # "writing"
    BY <1>7 DEF AppendEvent, WriterStops, IoShape
  <2>2. QED
    BY <2>1, NoIoShape
<1>8. CASE ControlStep
  <2>1. ASSUME NEW b, SetProtocol(b) PROVE IoShape'
    BY <1>1, <2>1 DEF SetProtocol, Invalidate
  <2>2. ASSUME NEW learned, LearnDescriptor(learned) PROVE IoShape'
    BY <1>1, <2>2 DEF LearnDescriptor, Invalidate
  <2>3. ASSUME NEW learned, NEW b, Register(learned, b) PROVE IoShape'
    <3>1. writer # "writing" /\ io' = io /\ writer' = "idle"
      BY <2>3 DEF Register, ThreadInv
    <3>2. QED
      BY <3>1, NoIoShape DEF IoShape
  <2>5. CASE SeedMouseReport \/ BeginTerminate \/ Unregister \/ Join
    BY <1>1, <2>5 DEF SeedMouseReport, BeginTerminate, Unregister, Join
  <2>6. QED
    BY <1>8, <2>1, <2>2, <2>3, <2>5 DEF ControlStep
<1>9. QED
  BY <1>2, <1>3, <1>4, <1>5, <1>6, <1>7, <1>8 DEF Next, WriterStep

LEMMA ShapeCorrect == Spec => []IoShape
<1>1. Init => IoShape
  BY DEF Init, IoShape, NoIo
<1>2. TypeOK /\ ThreadInv /\ IoShape /\ [Next]_vars => IoShape'
  BY ShapeStep
<1>3. QED
  BY <1>1, <1>2, TypeCorrect, ThreadCorrect, PTL DEF Spec
-----------------------------------------------------------------------------
(* A standalone report goes before a waiting physical report only with     *)
(* three credits, which the one that has done so has spent and which only  *)
(* that physical report, once it is written, starts to fill again.         *)

Overtaking ==
  /\ \A j \in DOMAIN stamped : stamped[j].overtaken = 0
  /\ \A j \in DOMAIN fifo : j # 1 => fifo[j].overtaken = 0
  /\ fifo # <<>> /\ fifo[1].overtaken # 0 =>
       /\ fifo[1].overtaken = 1 /\ credits = 0
       /\ writer = "writing" => ~io.physical /\ ~io.competing

LEMMA OvertakingReader ==
  ASSUME TypeOK, Overtaking, ReaderStep
  PROVE  Overtaking'
<1>1. CASE \E r \in PhysicalReports : ReadPhysical(r)
  <2>1. PICK r \in PhysicalReports : ReadPhysical(r)
    BY <1>1
  <2> DEFINE read == [match |-> r.match, generation |-> generation,
                      buttons |-> r.buttons, x |-> r.x, overtaken |-> 0]
  <2>2. stamped' = <<read>> /\ read.overtaken = 0 /\ UNCHANGED <<fifo, credits, writer, io>>
    BY <2>1 DEF ReadPhysical
  <2> HIDE DEF read
  <2>3. QED
    BY <2>2 DEF Overtaking
<1>2. CASE PushPhysical
  <2> DEFINE r == Head(stamped)
  <2>1. /\ stamped # <<>> /\ stamped' = <<>> /\ fifo' = Append(fifo, r)
        /\ UNCHANGED <<credits, writer, io>>
    BY <1>2 DEF PushPhysical
  <2>2. stamped \in Seq(Report) /\ fifo \in Seq(Report)
    BY DEF TypeOK
  <2>3. r \in Report /\ r.overtaken = 0
    BY <2>1, <2>2, HeadTailProperties DEF Overtaking
  <2> HIDE DEF r
  <2>4. /\ Len(fifo') = Len(fifo) + 1 /\ DOMAIN fifo' = 1 .. Len(fifo) + 1
        /\ \A j \in 1 .. Len(fifo) : fifo'[j] = fifo[j]
        /\ fifo'[Len(fifo) + 1] = r
    BY <2>1, <2>2, <2>3, AppendProperties
  <2>5. Len(fifo) \in Nat /\ DOMAIN fifo = 1 .. Len(fifo) /\ (fifo = <<>> <=> Len(fifo) = 0)
    BY <2>2, LenProperties, EmptySeq
  <2>6. \A j \in DOMAIN fifo' : j # 1 => fifo'[j].overtaken = 0
    BY <2>3, <2>4, <2>5 DEF Overtaking
  <2>7. fifo # <<>> => fifo'[1] = fifo[1]
    BY <2>4, <2>5
  <2>8. fifo = <<>> => fifo'[1].overtaken = 0
    BY <2>3, <2>4, <2>5
  <2>9. QED
    BY <2>1, <2>6, <2>7, <2>8 DEF Overtaking
<1>3. QED
  BY <1>1, <1>2 DEF ReaderStep

LEMMA OvertakingTake ==
  ASSUME TypeOK, Overtaking, Take
  PROVE  Overtaking'
<1>1. PICK cutoff \in 0 .. nextItem - 1 : \E k \in 0 .. Len(synthetic) : TakeReport(cutoff, k)
  BY DEF Take
<1>2. PICK k \in 0 .. Len(synthetic) : TakeReport(cutoff, k)
  BY <1>1
<1>3. CASE TakeNothing(cutoff, k)
  BY <1>3 DEF TakeNothing, Overtaking
<1>4. CASE TakePhysical(cutoff, k) \/ TakeStandalone(cutoff, k)
  <2> DEFINE q == AfterExpiry(cutoff, k)
  <2>1. /\ UNCHANGED <<stamped, credits>>
        /\ AloneTaken(q) \/ PhysicalTaken
    BY <1>4, TakeCases DEF TakeKeeps, FusedTaken, PlainTaken
  <2>2. fifo \in Seq(Report) /\ credits \in 0 .. 3
    BY DEF TypeOK
  <2> HIDE DEF q
  <2>3. CASE AloneTaken(q)
    <3>1. fifo' = fifo /\ io'.physical = FALSE /\ io'.competing = Competes(q)
      BY <2>3 DEF AloneTaken
    <3>2. Competes(q) => credits # 0
      BY <2>2 DEF Competes
    <3>3. QED
      BY <2>1, <3>1, <3>2 DEF Overtaking
  <2>4. CASE PhysicalTaken
    <3>1. fifo # <<>> /\ fifo' = Tail(fifo)
      BY <2>4 DEF PhysicalTaken
    <3>2. /\ Len(fifo) \in Nat /\ DOMAIN fifo = 1 .. Len(fifo)
          /\ Len(fifo') = Len(fifo) - 1 /\ DOMAIN fifo' = 1 .. Len(fifo) - 1
          /\ \A j \in 1 .. Len(fifo) - 1 : fifo'[j] = fifo[j + 1]
          /\ fifo' \in Seq(Report)
      BY <2>2, <3>1, HeadTailProperties, LenProperties
    <3>3. \A j \in DOMAIN fifo' : fifo'[j].overtaken = 0
      BY <3>2 DEF Overtaking
    <3>4. fifo' # <<>> => 1 \in DOMAIN fifo'
      BY <3>2, EmptySeq
    <3>5. QED
      BY <2>1, <3>3, <3>4 DEF Overtaking
  <2>5. QED
    BY <2>1, <2>3, <2>4
<1>5. QED
  BY <1>2, <1>3, <1>4 DEF TakeReport

LEMMA OvertakingComplete ==
  ASSUME TypeOK, ThreadInv, FreshInv, IoShape, Overtaking,
         NEW success \in BOOLEAN, NEW exits \in BOOLEAN, Complete(success, exits)
  PROVE  Overtaking'
<1>1. /\ writer = "writing" /\ writer' # "writing" /\ stamped' = stamped
      /\ Known => CommitPhysical(success)
      /\ ~Known => UNCHANGED credits
  BY DEF Complete
<1>2. fifo \in Seq(Report) /\ credits \in 0 .. 3
  BY DEF TypeOK
<1>3. /\ Len(fifo) \in Nat /\ DOMAIN fifo = 1 .. Len(fifo) /\ (fifo = <<>> <=> Len(fifo) = 0)
  BY <1>2, LenProperties, EmptySeq
<1>4. CASE success /\ io.competing /\ fifo # <<>>
  <2>1. fifo' = [fifo EXCEPT ![1].overtaken = @ + 1]
    BY <1>4 DEF Complete, HostReceives
  <2>2. fifo[1] \in Report /\ fifo[1].overtaken = 0
    <3>1. fifo[1] \in Report
      BY <1>2, <1>3, <1>4, ElementOfSeq
    <3>2. QED
      BY <1>1, <1>4, <3>1 DEF Overtaking
  <2>3. DOMAIN fifo' = DOMAIN fifo /\ (\A j \in DOMAIN fifo : j # 1 => fifo'[j] = fifo[j])
        /\ fifo'[1].overtaken = 1
    BY <1>3, <1>4, <2>1, <2>2 DEF Report
  <2>4. credits' = 0
    <3>1. Known => credits' = 0
      BY <1>1, <1>4 DEF CommitPhysical, CreditsAfter, IoShape
    <3>2. ~Known => ~Registered
      BY <1>1 DEF Known, ThreadInv
    <3>3. QED
      BY <1>1, <3>1, <3>2 DEF FreshInv
  <2>5. QED
    BY <1>1, <2>3, <2>4 DEF Overtaking
<1>5. CASE ~(success /\ io.competing /\ fifo # <<>>)
  <2>1. fifo' = fifo
    BY <1>5 DEF Complete, HostReceives
  <2>2. fifo # <<>> /\ fifo[1].overtaken # 0 => credits' = credits
    BY <1>1 DEF Overtaking, CommitPhysical, CreditsAfter
  <2>3. QED
    BY <1>1, <2>1, <2>2 DEF Overtaking
<1>6. QED
  BY <1>4, <1>5

LEMMA OvertakingStep ==
  ASSUME TypeOK, ThreadInv, FreshInv, IoShape, Overtaking, [Next]_vars
  PROVE  Overtaking'
<1>1. ASSUME UNCHANGED <<fifo, stamped, credits, writer, io>> PROVE Overtaking'
  BY <1>1 DEF Overtaking
<1>2. CASE UNCHANGED vars
  BY <1>1, <1>2 DEF vars
<1>3. CASE ClientStep
  <2>1. UNCHANGED <<fifo, stamped, credits, writer, io>>
    BY <1>3 DEF ClientStep, EnqueueOk, EnqueueQueueFull, ClearSynthetic, TakeWriterEvents,
                TakeWriterOverflow
  <2>2. QED
    BY <1>1, <2>1
<1>4. CASE ReaderStep
  BY <1>4, OvertakingReader
<1>5. CASE Take
  BY <1>5, OvertakingTake
<1>6. CASE WriteSucceeds \/ WriteFails \/ WriteFailsAndEnds
  BY <1>6, OvertakingComplete DEF WriteSucceeds, WriteFails, WriteFailsAndEnds
<1>7. ASSUME UNCHANGED <<fifo, stamped, credits>>, writer' # "writing" PROVE Overtaking'
  BY <1>7 DEF Overtaking
<1>8. CASE AppendEvent \/ WriterStops
  BY <1>7, <1>8 DEF AppendEvent, WriterStops
<1>9. CASE ControlStep
  <2>1. ASSUME NEW b, SetProtocol(b) PROVE Overtaking'
    BY <1>1, <2>1 DEF SetProtocol, Invalidate
  <2>2. ASSUME NEW learned, LearnDescriptor(learned) PROVE Overtaking'
    BY <1>1, <2>2 DEF LearnDescriptor, Invalidate
  <2>3. ASSUME NEW learned, NEW b, Register(learned, b) PROVE Overtaking'
    BY <1>7, <2>3 DEF Register
  <2>4. CASE SeedMouseReport \/ BeginTerminate
    BY <1>1, <2>4 DEF SeedMouseReport, BeginTerminate
  <2>5. CASE Unregister
    BY <2>5 DEF Unregister, FreshEndpoint, Overtaking
  <2>6. CASE Join
    BY <2>6 DEF Join, Overtaking
  <2>7. QED
    BY <1>9, <2>1, <2>2, <2>3, <2>4, <2>5, <2>6 DEF ControlStep
<1>10. QED
  BY <1>2, <1>3, <1>4, <1>5, <1>6, <1>8, <1>9 DEF Next, WriterStep

(* Of the standalone reports that may go before a waiting physical report  *)
(* at most one is written before it, whatever is queued and however the    *)
(* threads interleave: the credits of CreditsAfter keep the physical mouse *)
(* from being held up.                                                     *)
THEOREM OvertakesAtMostOnce == Spec => []OvertakenOnce
<1>1. Init => Overtaking
  BY DEF Init, Overtaking
<1>2. TypeOK /\ ThreadInv /\ FreshInv /\ IoShape /\ Overtaking /\ [Next]_vars => Overtaking'
  BY OvertakingStep
<1>3. TypeOK /\ Overtaking => OvertakenOnce
  <2>1. ASSUME TypeOK, Overtaking, NEW j \in DOMAIN fifo PROVE fifo[j].overtaken <= 1
    <3>1. fifo # <<>>
      OBVIOUS
    <3>2. QED
      BY <2>1, <3>1 DEF Overtaking
  <2>2. QED
    BY <2>1 DEF OvertakenOnce
<1>4. QED
  BY <1>1, <1>2, <1>3, TypeCorrect, ThreadCorrect, FreshCorrect, ShapeCorrect, PTL DEF Spec
-----------------------------------------------------------------------------
(* The endpoint remembers the physical buttons the host was last sent, and *)
(* a report made for an item alone was made with them.                     *)

PhysicalInv ==
  /\ Registered => submittedPhysical = hostPhysical
  /\ program = "replay" =>
       /\ fifo = <<>> /\ stamped = <<>> /\ hostPhysical = {}
       /\ writer = "writing" => ~io.physical
  /\ writer = "writing" /\ ~io.physical =>
       /\ io.generation <= generation
       /\ Registered /\ CurrentLayout =>
            io.shown = (submittedPhysical \cup io.persistent \cup io.scheduled) \cap Supported

LEMMA PhysicalTake ==
  ASSUME TypeOK, PhysicalInv, Take
  PROVE  PhysicalInv'
<1>1. PICK cutoff \in 0 .. nextItem - 1 : \E k \in 0 .. Len(synthetic) : TakeReport(cutoff, k)
  BY DEF Take
<1>2. PICK k \in 0 .. Len(synthetic) : TakeReport(cutoff, k)
  BY <1>1
<1>3. CASE TakeNothing(cutoff, k)
  BY <1>3 DEF TakeNothing, PhysicalInv, Registered, CurrentLayout, Supported
<1>4. CASE TakePhysical(cutoff, k) \/ TakeStandalone(cutoff, k)
  <2> DEFINE q == AfterExpiry(cutoff, k)
  <2>1. /\ UNCHANGED <<layoutVars, endpointVars, submittedPhysical, stamped, hostPhysical>>
        /\ AloneTaken(q) \/ PhysicalTaken
    BY <1>4, TakeCases DEF TakeKeeps, FusedTaken, PlainTaken
  <2> HIDE DEF q
  <2>2. CASE AloneTaken(q)
    <3> DEFINE mask == submittedPhysical \cup Head(q).persistent \cup Head(q).scheduled
    <3>1. /\ fifo' = fifo /\ io'.physical = FALSE /\ io'.generation = generation
          /\ io'.persistent = Head(q).persistent /\ io'.scheduled = Head(q).scheduled
          /\ io'.shown = mask \cap Supported
      BY <2>2 DEF AloneTaken, ForFront
    <3>2. mask = submittedPhysical' \cup io'.persistent \cup io'.scheduled
      BY <2>1, <3>1
    <3> HIDE DEF mask
    <3>3. io'.generation <= generation'
      BY <2>1, <3>1 DEF TypeOK
    <3>4. io'.shown = (submittedPhysical' \cup io'.persistent \cup io'.scheduled) \cap Supported'
      BY <2>1, <3>1, <3>2 DEF Supported
    <3>5. QED
      BY <2>1, <3>1, <3>3, <3>4 DEF PhysicalInv, Registered
  <2>3. CASE PhysicalTaken
    <3>1. program # "replay" /\ io'.physical
      BY <2>3 DEF PhysicalTaken, PhysicalInv
    <3>2. QED
      BY <2>1, <3>1 DEF PhysicalInv, Registered
  <2>4. QED
    BY <2>1, <2>2, <2>3
<1>5. QED
  BY <1>2, <1>3, <1>4 DEF TakeReport

LEMMA PhysicalComplete ==
  ASSUME TypeOK, ThreadInv, PhysicalInv,
         NEW success \in BOOLEAN, NEW exits \in BOOLEAN, Complete(success, exits)
  PROVE  PhysicalInv'
<1>1. /\ writer = "writing" /\ writer' # "writing" /\ UNCHANGED <<stamped, phase, program>>
      /\ Known => CommitPhysical(success)
      /\ ~success => UNCHANGED <<hostPhysical, fifo>>
      /\ success => HostReceives
  BY DEF Complete
<1>2. Registered => submittedPhysical' = hostPhysical'
  <2>1. ASSUME Registered PROVE Known
    BY <1>1, <2>1 DEF ThreadInv, Known
  <2>2. QED
    BY <1>1, <2>1 DEF CommitPhysical, HostReceives, PhysicalInv
<1>3. ASSUME program = "replay" PROVE fifo' = <<>> /\ hostPhysical' = {}
  BY <1>1, <1>3 DEF PhysicalInv, HostReceives
<1>4. QED
  BY <1>1, <1>2, <1>3 DEF PhysicalInv, Registered

LEMMA PhysicalStep ==
  ASSUME TypeOK, ThreadInv, FreshInv, PhysicalInv, [Next]_vars
  PROVE  PhysicalInv'
<1>1. ASSUME UNCHANGED <<program, layout, phase, generation, submittedPhysical, fifo, stamped,
                         writer, io, hostPhysical>>
      PROVE  PhysicalInv'
  BY <1>1 DEF PhysicalInv, Registered, CurrentLayout, Supported
<1>2. CASE UNCHANGED vars
  BY <1>1, <1>2 DEF vars
<1>3. CASE ClientStep
  <2>1. UNCHANGED <<program, layout, phase, generation, submittedPhysical, fifo, stamped,
                    writer, io, hostPhysical>>
    BY <1>3 DEF ClientStep, EnqueueOk, EnqueueQueueFull, ClearSynthetic, TakeWriterEvents,
                TakeWriterOverflow
  <2>2. QED
    BY <1>1, <2>1
<1>4. CASE ReaderStep
  <2>1. /\ program = "proxy" \/ stamped # <<>>
        /\ UNCHANGED <<program, layout, phase, generation, submittedPhysical, writer, io,
                       hostPhysical>>
    BY <1>4 DEF ReaderStep, ReadPhysical, PushPhysical
  <2>2. program # "replay"
    BY <2>1 DEF PhysicalInv
  <2>3. QED
    BY <2>1, <2>2 DEF PhysicalInv, Registered, CurrentLayout, Supported
<1>5. CASE Take
  BY <1>5, PhysicalTake
<1>6. CASE WriteSucceeds \/ WriteFails \/ WriteFailsAndEnds
  BY <1>6, PhysicalComplete DEF WriteSucceeds, WriteFails, WriteFailsAndEnds
<1>7. CASE AppendEvent \/ WriterStops
  <2>1. /\ writer' # "writing"
        /\ UNCHANGED <<program, phase, submittedPhysical, fifo, stamped, hostPhysical>>
    BY <1>7 DEF AppendEvent, WriterStops
  <2>2. QED
    BY <2>1 DEF PhysicalInv, Registered
<1>8. CASE ControlStep
  <2>1. ASSUME Invalidate, program' = program PROVE PhysicalInv'
    <3>1. /\ UNCHANGED <<phase, submittedPhysical, fifo, stamped, writer, io, hostPhysical>>
          /\ generation' = nextGeneration + 1
      BY <2>1 DEF Invalidate
    <3>2. /\ writer = "writing" /\ ~io.physical =>
               io.generation <= generation' /\ io.generation # generation'
      <4>1. io.generation \in Nat /\ generation \in Nat /\ nextGeneration \in Nat
        BY DEF TypeOK, Io
      <4>2. QED
        BY <3>1, <4>1 DEF PhysicalInv, ThreadInv
    <3>3. QED
      BY <2>1, <3>1, <3>2 DEF PhysicalInv, Registered, CurrentLayout
  <2>2. ASSUME NEW b, SetProtocol(b) PROVE PhysicalInv'
    BY <2>1, <2>2 DEF SetProtocol
  <2>3. ASSUME NEW learned, LearnDescriptor(learned) PROVE PhysicalInv'
    BY <1>1, <2>1, <2>3 DEF LearnDescriptor
  <2>4. ASSUME NEW learned, NEW b, Register(learned, b) PROVE PhysicalInv'
    <3>1. /\ phase = "down" /\ writer' = "idle" /\ hostPhysical' = {}
          /\ UNCHANGED <<program, submittedPhysical, fifo, stamped>>
      BY <2>4 DEF Register
    <3>2. QED
      BY <3>1 DEF PhysicalInv, FreshInv, Registered
  <2>5. CASE SeedMouseReport
    <3>1. /\ program = "replay" /\ phase = "up" /\ writer = "idle" /\ submittedPhysical' = {}
          /\ UNCHANGED <<program, phase, writer, fifo, stamped, hostPhysical>>
      BY <2>5 DEF SeedMouseReport
    <3>2. QED
      BY <3>1 DEF PhysicalInv, Registered
  <2>6. CASE BeginTerminate
    BY <2>6 DEF BeginTerminate, PhysicalInv, Registered, CurrentLayout, Supported
  <2>7. CASE Unregister
    BY <2>7 DEF Unregister, FreshEndpoint, PhysicalInv, Registered
  <2>8. CASE Join
    BY <2>8 DEF Join, PhysicalInv, Registered
  <2>9. QED
    BY <1>8, <2>2, <2>3, <2>4, <2>5, <2>6, <2>7, <2>8 DEF ControlStep
<1>9. QED
  BY <1>2, <1>3, <1>4, <1>5, <1>6, <1>7, <1>8 DEF Next, WriterStep

LEMMA PhysicalCorrect == Spec => []PhysicalInv
<1>1. Init => PhysicalInv
  BY DEF Init, PhysicalInv, Registered
<1>2. TypeOK /\ ThreadInv /\ FreshInv /\ PhysicalInv /\ [Next]_vars => PhysicalInv'
  BY PhysicalStep
<1>3. QED
  BY <1>1, <1>2, TypeCorrect, ThreadCorrect, FreshCorrect, PTL DEF Spec

(* A report made for synthetic items alone shows the physical buttons as   *)
(* the host was last sent them, also when the physical mouse has changed   *)
(* them since: take_mouse_report() builds it from                          *)
(* submitted_physical_buttons.                                             *)
THEOREM StandaloneShowsPhysical == Spec => []StandaloneKeepsPhysical
<1>1. PhysicalInv => StandaloneKeepsPhysical
  BY DEF PhysicalInv, StandaloneKeepsPhysical
<1>2. QED
  BY <1>1, PhysicalCorrect, PTL
-----------------------------------------------------------------------------
(* How a call changes the queue, position by position.                     *)

LEMMA QueueLength ==
  ASSUME TypeOK
  PROVE  /\ synthetic \in Seq(Item) /\ Len(synthetic) \in Nat
         /\ DOMAIN synthetic = 1 .. Len(synthetic)
         /\ (synthetic = <<>> <=> Len(synthetic) = 0)
         /\ \A j \in 1 .. Len(synthetic) : synthetic[j] \in Item
         /\ synthetic # <<>> => Head(synthetic) = synthetic[1]
BY LenProperties, EmptySeq, ElementOfSeq, HeadTailProperties DEF TypeOK

LEMMA AcceptedQueue ==
  ASSUME TypeOK, NEW c \in Commands, NEW a \in {NoGuard} \cup 0 .. activity, NEW g,
         EnqueueOk(c, a, g)
  PROVE  \E k \in 0 .. Len(synthetic) :
           /\ \A j \in k + 1 .. Len(synthetic) : Superseded(c, synthetic[j])
           /\ k < MaxSynthetic
           /\ Len(synthetic') = k + 1 /\ synthetic'[k + 1] = NewItem(c, a)
           /\ \A i \in 1 .. k : synthetic'[i] = synthetic[i]
<1>1. PICK k \in 0 .. Len(synthetic) :
        /\ \A j \in k + 1 .. Len(synthetic) : Superseded(c, synthetic[j])
        /\ ~NoRoom(k)
        /\ synthetic' = Append(SubSeq(synthetic, 1, k), NewItem(c, a))
  BY DEF EnqueueOk, BackCut
<1> DEFINE p == SubSeq(synthetic, 1, k)
           n == NewItem(c, a)
<1>2. /\ p \in Seq(Item) /\ Len(p) = k /\ \A i \in 1 .. k : p[i] = synthetic[i]
  BY QueueLength, FrontProperties
<1>3. n \in Item /\ synthetic' = Append(p, n)
  BY <1>1, NewItemType
<1>4. k \in Nat /\ k < MaxSynthetic
  BY <1>1, QueueLength, LimitsAssumption DEF NoRoom
<1> HIDE DEF p, n
<1>5. /\ Len(synthetic') = k + 1 /\ synthetic'[k + 1] = n
      /\ \A i \in 1 .. k : synthetic'[i] = synthetic[i]
  BY <1>2, <1>3, <1>4, AppendProperties
<1>6. QED
  BY <1>1, <1>4, <1>5 DEF n

LEMMA RefusedQueue ==
  ASSUME TypeOK, NEW c, NEW a, NEW g, EnqueueQueueFull(c, a, g)
  PROVE  \E k \in 0 .. Len(synthetic) :
           /\ \A j \in k + 1 .. Len(synthetic) : Superseded(c, synthetic[j])
           /\ k >= MaxSynthetic
           /\ synthetic' = SubSeq(synthetic, 1, k)
           /\ Len(synthetic') = k /\ \A i \in 1 .. k : synthetic'[i] = synthetic[i]
<1>1. PICK k \in 0 .. Len(synthetic) :
        /\ \A j \in k + 1 .. Len(synthetic) : Superseded(c, synthetic[j])
        /\ NoRoom(k)
        /\ synthetic' = SubSeq(synthetic, 1, k)
  BY DEF EnqueueQueueFull, BackCut
<1>2. Len(synthetic') = k /\ \A i \in 1 .. k : synthetic'[i] = synthetic[i]
  BY <1>1, QueueLength, FrontProperties
<1>3. QED
  BY <1>1, <1>2 DEF NoRoom

(* The front item of a successful report: only it can have been finished.  *)
LEMMA CommittedFrontFields ==
  ASSUME TypeOK, OfFront
  PROVE  /\ Len(synthetic) > 0 /\ Head(synthetic) = synthetic[1] /\ synthetic[1] \in Item
         /\ CommittedFront \in Item /\ CommittedFront.committed
         /\ CommittedFront.x = synthetic[1].x - io.x
         /\ CommittedFront.id = synthetic[1].id /\ CommittedFront.kind = synthetic[1].kind
         /\ CommittedFront.key = synthetic[1].key /\ CommittedFront.button = synthetic[1].button
         /\ CommittedFront.latest = synthetic[1].latest
         /\ CommittedFront.persistent = synthetic[1].persistent
         /\ CommittedFront.scheduled = synthetic[1].scheduled
<1>1. /\ Len(synthetic) > 0 /\ Head(synthetic) = synthetic[1] /\ synthetic[1] \in Item
  BY QueueLength DEF OfFront
<1>2. io.x \in Int
  BY DEF TypeOK, Io
<1> DEFINE f == synthetic[1]
           x == f.x - io.x
<1>3. CommittedFront = [f EXCEPT !.committed = TRUE, !.x = x]
  BY <1>1 DEF CommittedFront
<1>4. f \in Item
  BY <1>1
<1>5. x \in Int
  BY <1>2, <1>4 DEF Item
<1> HIDE DEF f, x
<1>6. [f EXCEPT !.committed = TRUE, !.x = x] \in Item
  BY <1>4, <1>5 DEF Item
<1>7. /\ CommittedFront.committed /\ CommittedFront.x = x
      /\ CommittedFront.id = f.id /\ CommittedFront.kind = f.kind
      /\ CommittedFront.key = f.key /\ CommittedFront.button = f.button
      /\ CommittedFront.latest = f.latest
      /\ CommittedFront.persistent = f.persistent /\ CommittedFront.scheduled = f.scheduled
  BY <1>3, <1>4 DEF Item
<1>8. QED
  BY <1>1, <1>3, <1>6, <1>7 DEF f, x

LEMMA CommittedQueue ==
  ASSUME TypeOK, QueueOrder, OfFront, CommitQueue(TRUE)
  PROVE  \/ /\ Finished(CommittedFront) /\ synthetic' = Tail(synthetic)
            /\ Len(synthetic') = Len(synthetic) - 1
            /\ \A i \in 1 .. Len(synthetic) - 1 : synthetic'[i] = synthetic[i + 1]
         \/ /\ ~Finished(CommittedFront) /\ synthetic' = [synthetic EXCEPT ![1] = CommittedFront]
            /\ Len(synthetic') = Len(synthetic) /\ synthetic'[1] = CommittedFront
            /\ \A i \in 2 .. Len(synthetic) : synthetic'[i] = synthetic[i]
<1> DEFINE f == CommittedFront
           q == [synthetic EXCEPT ![1] = f]
<1>1. f \in Item /\ Len(synthetic) > 0 /\ Len(synthetic) \in Nat
  BY CommittedFrontFields, QueueLength
<1>2. PICK k \in 0 .. Len(q) : FrontCut(q, Finished, k) /\ synthetic' = Rest(q, k)
  BY DEF CommitQueue
<1> HIDE DEF f
<1>3. 1 \in 1 .. Len(synthetic)
  BY <1>1
<1>4. /\ q \in Seq(Item) /\ Len(q) = Len(synthetic)
      /\ \A j \in 1 .. Len(synthetic) : q[j] = IF j = 1 THEN f ELSE synthetic[j]
  BY <1>1, <1>3, QueueLength, ExceptSeq
<1> HIDE DEF q
<1>5. q[1] = f /\ \A j \in 2 .. Len(synthetic) : q[j] = synthetic[j] /\ ~Finished(synthetic[j])
  <2>1. q[1] = f
    BY <1>3, <1>4
  <2>2. ASSUME NEW j \in 2 .. Len(synthetic)
        PROVE  q[j] = synthetic[j] /\ ~synthetic[j].committed
    <3>1. j \in 1 .. Len(synthetic) /\ j # 1
      BY <1>1
    <3>2. QED
      BY <1>4, <3>1, QueueLength DEF QueueOrder
  <2>3. QED
    BY <2>1, <2>2 DEF Finished
<1>6. k < Len(synthetic) => ~Finished(q[k + 1])
  BY <1>2, <1>4 DEF FrontCut
<1>7. \A j \in 1 .. k : Finished(q[j])
  BY <1>2 DEF FrontCut
<1>8. k \in Nat /\ k <= Len(synthetic)
  BY <1>1, <1>4
<1>9. k <= 1
  <2>1. SUFFICES ASSUME k >= 2 PROVE FALSE
    BY <1>8
  <2>2. 2 \in 1 .. k /\ 2 \in 2 .. Len(synthetic)
    BY <1>1, <1>8, <2>1
  <2>3. QED
    BY <1>5, <1>7, <2>2
<1>10. /\ Len(Rest(q, k)) = Len(synthetic) - k
       /\ \A i \in 1 .. Len(synthetic) - k : Rest(q, k)[i] = q[k + i]
  <2>1. q \in Seq(Item) /\ k \in 0 .. Len(q) /\ Len(q) = Len(synthetic)
    BY <1>2, <1>4
  <2>2. /\ Len(Rest(q, k)) = Len(q) - k
        /\ \A i \in 1 .. Len(q) - k : Rest(q, k)[i] = q[k + i]
    BY ONLY <2>1, RestProperties
  <2>3. QED
    BY <2>1, <2>2
<1>11. CASE k = 0
  <2>1. ~Finished(f)
    BY <1>1, <1>5, <1>6, <1>11
  <2>2. Rest(q, 0) = q
    <3>1. SubSeq(q, 1, Len(q)) = q
      BY <1>4, SubSeqFull
    <3>2. QED
      BY <3>1 DEF Rest
  <2>3. synthetic' = q
    BY <1>2, <1>11, <2>2
  <2>4. QED
    BY <1>4, <1>5, <2>1, <2>3 DEF f, q
<1>12. CASE k = 1
  <2>1. Finished(f)
    BY <1>5, <1>7, <1>12
  <2>2. /\ Len(synthetic') = Len(synthetic) - 1
        /\ \A i \in 1 .. Len(synthetic) - 1 : synthetic'[i] = synthetic[i + 1]
    <3>1. ASSUME NEW i \in 1 .. Len(synthetic) - 1 PROVE q[1 + i] = synthetic[i + 1]
      <4>1. i + 1 \in 2 .. Len(synthetic) /\ 1 + i = i + 1
        BY <1>1
      <4>2. QED
        BY <1>5, <4>1
    <3>2. QED
      BY <1>2, <1>10, <1>12, <3>1
  <2>3. synthetic' = Tail(synthetic)
    <3>1. Rest(q, 1) \in Seq(Item)
      BY <1>2, <1>4, <1>12, RestProperties
    <3>2. /\ Tail(synthetic) \in Seq(Item) /\ Len(Tail(synthetic)) = Len(synthetic) - 1
          /\ \A i \in 1 .. Len(synthetic) - 1 : Tail(synthetic)[i] = synthetic[i + 1]
      BY <1>1, QueueLength, HeadTailProperties
    <3>3. synthetic' \in Seq(Item)
      BY <1>2, <1>12, <3>1
    <3>4. QED
      BY <2>2, <3>2, <3>3, SeqEqual
  <2>4. QED
    BY <2>1, <2>2, <2>3 DEF f
<1>13. QED
  BY <1>8, <1>9, <1>11, <1>12
-----------------------------------------------------------------------------
(* What is queued was accepted under the layout in force, and what a       *)
(* report carries of it leaves it as encodable as it was.                  *)

Sound(item) ==
  /\ item.id \in 1 .. MaxItems
  /\ latestKnown
  /\ Encodable(item.x, item.persistent \cup item.scheduled)
  /\ item.latest => item.kind = "MOVEMENT"

(* The report in the writer thread carries part of the item and its masks. *)
Describes(item) ==
  /\ Between(0, io.x, item.x)
  /\ io.persistent = item.persistent /\ io.scheduled = item.scheduled

QueueInv ==
  /\ Len(synthetic) <= MaxSynthetic
  /\ \A j \in 1 .. Len(synthetic) : Sound(synthetic[j])
  /\ inflight # NoItem => Describes(synthetic[1])

LEMMA FieldProducts ==
  /\ MaxParts * FieldMax \in Int /\ MaxParts * FieldMin \in Int
  /\ MaxParts * FieldMax >= 0 /\ MaxParts * FieldMin <= 0
<1>1. MaxParts \in Int /\ MaxParts >= 1 /\ FieldMax \in Int /\ FieldMin \in Int
      /\ FieldMax >= 0 /\ FieldMin <= 0
  BY FieldAssumption, LimitsAssumption
<1>2. MaxParts * FieldMax >= 0
  BY <1>1
<1>3. MaxParts * FieldMin <= 0
  BY <1>1
<1>4. QED
  BY <1>1, <1>2, <1>3

LEMMA EncodablePart ==
  ASSUME NEW x \in Int, NEW y \in Int, Between(0, y, x), NEW mask, Encodable(x, mask)
  PROVE  Encodable(0, mask) /\ Encodable(x - y, mask)
<1> DEFINE high == MaxParts * FieldMax
           low == MaxParts * FieldMin
<1>1. high \in Int /\ low \in Int /\ high >= 0 /\ low <= 0
  BY FieldProducts
<1>2. x <= high /\ x >= low /\ mask \subseteq Supported
  BY DEF Encodable
<1>3. x - y <= high /\ x - y >= low
  <2> HIDE DEF high, low
  <2>1. QED
    BY <1>1, <1>2 DEF Between
<1>4. QED
  BY <1>1, <1>2, <1>3 DEF Encodable

LEMMA CarriedIsPart ==
  ASSUME NEW item \in Item, NEW x, Carried(item, x)
  PROVE  x \in Int /\ Between(0, x, item.x)
<1>1. item.x \in Int
  BY DEF Item
<1>2. QED
  BY <1>1, FieldAssumption DEF Carried, Part, Between

(* The item that has been taken to be written is the front one.            *)
LEMMA TakenFront ==
  ASSUME TypeOK, NEW cutoff, NEW k \in 0 .. Len(synthetic),
         TakePhysical(cutoff, k) \/ TakeStandalone(cutoff, k), io'.item # NoItem
  PROVE  /\ Len(synthetic') > 0 /\ synthetic'[1] \in Item /\ Head(synthetic') = synthetic'[1]
         /\ io'.item = synthetic'[1].id
         /\ io'.x \in Int /\ Between(0, io'.x, synthetic'[1].x)
         /\ io'.persistent = synthetic'[1].persistent /\ io'.scheduled = synthetic'[1].scheduled
<1>1. /\ synthetic' = AfterExpiry(cutoff, k)
      /\ ForFront(synthetic')
  <2>1. AloneTaken(synthetic') \/ FusedTaken(synthetic') \/ PlainTaken
    BY TakeCases
  <2>2. QED
    BY <2>1, TakeCases DEF AloneTaken, FusedTaken, PlainTaken
<1>2. synthetic' \in Seq(Item) /\ synthetic' # <<>>
  BY <1>1, AfterExpiryProperties DEF TypeOK, ForFront
<1>3. Len(synthetic') > 0 /\ Head(synthetic') = synthetic'[1] /\ synthetic'[1] \in Item
  BY <1>2, EmptySeq, LenProperties, HeadTailProperties, ElementOfSeq
<1>4. /\ io'.item = synthetic'[1].id /\ Carried(synthetic'[1], io'.x)
      /\ io'.persistent = synthetic'[1].persistent /\ io'.scheduled = synthetic'[1].scheduled
  BY <1>1, <1>3 DEF ForFront
<1>5. QED
  BY <1>3, <1>4, CarriedIsPart

(* What is left after expiry is what was there, or has no motion left.     *)
LEMMA ExpiryLeaves ==
  ASSUME TypeOK, NEW cutoff, NEW k \in 0 .. Len(synthetic),
         NEW i \in 1 .. Len(AfterExpiry(cutoff, k))
  PROVE  LET old == synthetic[k + i]
             new == AfterExpiry(cutoff, k)[i]
         IN  /\ k + i \in 1 .. Len(synthetic) /\ old \in Item /\ new \in Item
             /\ new.x = old.x \/ (new.x = 0 /\ i = 1 /\ old.latest)
             /\ new.id = old.id /\ new.latest = old.latest /\ new.guard = old.guard
             /\ new.persistent = old.persistent /\ new.scheduled = old.scheduled
             /\ new.kind = old.kind /\ new.key = old.key /\ new.button = old.button
             /\ new.committed = old.committed
<1>1. Len(AfterExpiry(cutoff, k)) = Len(synthetic) - k /\ Len(synthetic) \in Nat
  BY AfterExpiryProperties, QueueLength
<1>2. k + i \in 1 .. Len(synthetic) /\ i \in 1 .. Len(synthetic) - k
  BY <1>1
<1> DEFINE old == synthetic[k + i]
           new == AfterExpiry(cutoff, k)[i]
<1>3. old \in Item
  BY <1>2, QueueLength
<1>4. new = old \/ (i = 1 /\ Expired(old, cutoff) /\ new = [old EXCEPT !.x = 0])
  <2>1. new = IF i = 1 /\ Expired(synthetic[k + 1], cutoff)
              THEN [synthetic[k + 1] EXCEPT !.x = 0] ELSE synthetic[k + i]
    BY <1>2, QueueLength, AfterExpiryProperties
  <2>2. QED
    BY <2>1
<1> HIDE DEF old, new
<1>5. CASE new = old
  BY <1>2, <1>3, <1>5 DEF old, new
<1>6. CASE i = 1 /\ Expired(old, cutoff) /\ new = [old EXCEPT !.x = 0]
  <2>1. i = 1 /\ old.latest /\ new \in Item
    BY <1>3, <1>6, ItemExpires DEF Expired
  <2>2. /\ new.x = 0
        /\ new.id = old.id /\ new.latest = old.latest /\ new.guard = old.guard
        /\ new.persistent = old.persistent /\ new.scheduled = old.scheduled
        /\ new.kind = old.kind /\ new.key = old.key /\ new.button = old.button
        /\ new.committed = old.committed
    BY <1>3, <1>6 DEF Item
  <2>3. QED
    BY <1>2, <1>3, <2>1, <2>2 DEF old, new
<1>7. QED
  BY <1>4, <1>5, <1>6

LEMMA QueueTake ==
  ASSUME TypeOK, QueueInv, Take
  PROVE  QueueInv'
<1>1. PICK cutoff \in 0 .. nextItem - 1 : \E k \in 0 .. Len(synthetic) : TakeReport(cutoff, k)
  BY DEF Take
<1>2. PICK k \in 0 .. Len(synthetic) : TakeReport(cutoff, k)
  BY <1>1
<1>3. synthetic' = AfterExpiry(cutoff, k) /\ UNCHANGED <<layout, latestKnown>>
  BY <1>2, TakeCases DEF TakeReport, TakeNothing, TakeKeeps
<1>4. Len(synthetic') = Len(synthetic) - k /\ Len(synthetic) \in Nat
  BY <1>3, AfterExpiryProperties, QueueLength
<1>5. ASSUME NEW i \in 1 .. Len(synthetic') PROVE Sound(synthetic[i])'
  <2> DEFINE old == synthetic[k + i]
             new == synthetic'[i]
  <2>1. /\ k + i \in 1 .. Len(synthetic) /\ old \in Item
        /\ new.x = old.x \/ new.x = 0
        /\ new.id = old.id /\ new.persistent = old.persistent /\ new.scheduled = old.scheduled
        /\ new.latest = old.latest /\ new.kind = old.kind
    BY <1>3, ExpiryLeaves
  <2>2. Sound(old)
    BY <2>1 DEF QueueInv
  <2> HIDE DEF old, new
  <2>3. old.x \in Int /\ Between(0, 0, old.x)
    BY <2>1 DEF Item, Between
  <2>4. Encodable(new.x, new.persistent \cup new.scheduled)
    BY <2>1, <2>2, <2>3, EncodablePart DEF Sound
  <2>5. QED
    BY <1>3, <2>1, <2>2, <2>4 DEF Sound, Encodable, Supported, new
<1>6. inflight' # NoItem => Describes(synthetic[1])'
  <2>1. CASE TakeNothing(cutoff, k)
    BY <2>1 DEF TakeNothing, CanTake
  <2>2. CASE TakePhysical(cutoff, k) \/ TakeStandalone(cutoff, k)
    BY <2>2, TakeCases, TakenFront DEF Describes
  <2>3. QED
    BY <1>2, <2>1, <2>2 DEF TakeReport
<1>7. MaxSynthetic \in Nat
  BY LimitsAssumption
<1>8. QED
  BY <1>4, <1>5, <1>6, <1>7 DEF QueueInv

LEMMA QueueClient ==
  ASSUME TypeOK, InflightHeld, QueueInv, ClientStep
  PROVE  QueueInv'
<1>1. UNCHANGED <<layout, latestKnown, io>>
  BY DEF ClientStep, EnqueueOk, EnqueueQueueFull, ClearSynthetic, TakeWriterEvents,
         TakeWriterOverflow
<1>2. Len(synthetic) \in Nat /\ MaxSynthetic \in Nat
  BY QueueLength, LimitsAssumption
<1>3. ASSUME NEW c \in Commands, NEW k \in 0 .. Len(synthetic), inflight # NoItem,
             \A j \in k + 1 .. Len(synthetic) : Superseded(c, synthetic[j])
      PROVE  k >= 1
  BY <1>3, FrontSurvivesEnqueue
<1>4. ASSUME NEW c \in Commands, NEW a \in {NoGuard} \cup 0 .. activity, NEW g,
             EnqueueOk(c, a, g)
      PROVE  QueueInv'
  <2>1. PICK k \in 0 .. Len(synthetic) :
          /\ \A j \in k + 1 .. Len(synthetic) : Superseded(c, synthetic[j])
          /\ k < MaxSynthetic
          /\ Len(synthetic') = k + 1 /\ synthetic'[k + 1] = NewItem(c, a)
          /\ \A i \in 1 .. k : synthetic'[i] = synthetic[i]
    BY <1>4, AcceptedQueue
  <2>2. /\ inflight' = inflight /\ nextItem \in 1 .. MaxItems /\ latestKnown
        /\ Encodable(c.x, c.persistent \cup c.scheduled)
        /\ c.latest => c.kind = "MOVEMENT"
    <3>1. /\ UNCHANGED inflight /\ nextItem <= MaxItems
          /\ Accepts(a, g) /\ Encodable(c.x, c.persistent \cup c.scheduled)
      BY <1>4 DEF EnqueueOk
    <3>2. latestKnown
      BY <3>1 DEF Accepts, Ready
    <3>3. nextItem \in Nat /\ nextItem # 0
      BY DEF TypeOK, NoItem
    <3>4. nextItem \in 1 .. MaxItems
      BY <3>1, <3>3, BoundsAssumption
    <3>5. c.latest => c.kind = "MOVEMENT"
      BY InputsAssumption
    <3>6. QED
      BY <3>1, <3>2, <3>4, <3>5
  <2>3. Sound(NewItem(c, a))
    BY <2>2 DEF Sound, NewItem
  <2>4. ASSUME NEW i \in 1 .. k + 1 PROVE Sound(synthetic'[i])
    <3>1. CASE i = k + 1
      BY <2>1, <2>3, <3>1
    <3>2. CASE i \in 1 .. k
      BY <1>2, <2>1, <3>2 DEF QueueInv
    <3>3. QED
      BY <3>1, <3>2
  <2>5. \A i \in 1 .. Len(synthetic') : Sound(synthetic[i])'
    BY <1>1, <2>1, <2>4 DEF Sound, Encodable, Supported
  <2>6. inflight' # NoItem => Describes(synthetic[1])'
    BY <1>1, <1>3, <2>1, <2>2 DEF QueueInv, Describes
  <2>7. QED
    BY <1>2, <2>1, <2>5, <2>6 DEF QueueInv
<1>5. ASSUME NEW c \in Commands, NEW a, NEW g, EnqueueQueueFull(c, a, g)
      PROVE  QueueInv'
  <2>1. PICK k \in 0 .. Len(synthetic) :
          /\ \A j \in k + 1 .. Len(synthetic) : Superseded(c, synthetic[j])
          /\ Len(synthetic') = k /\ \A i \in 1 .. k : synthetic'[i] = synthetic[i]
    BY <1>5, RefusedQueue
  <2>2. inflight' = inflight
    BY <1>5 DEF EnqueueQueueFull
  <2>3. \A i \in 1 .. Len(synthetic') : Sound(synthetic[i])'
    BY <1>1, <1>2, <2>1 DEF QueueInv, Sound, Describes, Encodable, Supported
  <2>4. inflight' # NoItem => Describes(synthetic[1])'
    BY <1>1, <1>3, <2>1, <2>2 DEF QueueInv, Describes
  <2>5. QED
    BY <1>2, <2>1, <2>3, <2>4 DEF QueueInv
<1>6. CASE ClearSynthetic
  <2>1. \/ synthetic' = <<>> /\ inflight' = NoItem
        \/ UNCHANGED <<synthetic, inflight>>
    BY <1>6 DEF ClearSynthetic, DropSynthetic
  <2>2. QED
    BY <1>1, <1>2, <2>1 DEF QueueInv, Sound, Describes, Encodable, Supported
<1>7. CASE TakeWriterEvents \/ TakeWriterOverflow
  BY <1>1, <1>7 DEF TakeWriterEvents, TakeWriterOverflow, QueueInv, Sound, Describes,
                        Encodable, Supported
<1>8. QED
  BY <1>4, <1>5, <1>6, <1>7 DEF ClientStep

(* A completion that is not of the front item of the queue leaves the      *)
(* queue alone, and then no item is marked.                                *)
LEMMA CompletionCases ==
  ASSUME TypeOK, InflightHeld, NEW success \in BOOLEAN, NEW exits \in BOOLEAN,
         Complete(success, exits)
  PROVE  \/ Known /\ OfFront /\ success /\ CommitQueue(TRUE) /\ inflight' = NoItem
         \/ Known /\ OfFront /\ ~success /\ synthetic' = synthetic /\ inflight' = NoItem
         \/ /\ ~(Known /\ OfFront) /\ synthetic' = synthetic
            /\ inflight = NoItem /\ inflight' = NoItem
<1>1. CASE Known /\ OfFront
  BY <1>1 DEF Complete, CommitQueue, MarkAfter
<1>2. CASE ~(Known /\ OfFront)
  <2>1. synthetic' = synthetic /\ inflight' = inflight
    BY <1>2 DEF Complete, CommitQueue
  <2>2. inflight = NoItem
    BY <1>2 DEF InflightHeld, Known, OfFront, CurrentLayout
  <2>3. QED
    BY <1>2, <2>1, <2>2
<1>3. QED
  BY <1>1, <1>2

LEMMA QueueComplete ==
  ASSUME TypeOK, InflightHeld, QueueOrder, QueueInv,
         NEW success \in BOOLEAN, NEW exits \in BOOLEAN, Complete(success, exits)
  PROVE  QueueInv'
<1>1. UNCHANGED <<layout, latestKnown>>
  BY DEF Complete
<1>2. Len(synthetic) \in Nat /\ MaxSynthetic \in Nat
  BY QueueLength, LimitsAssumption
<1>3. CASE synthetic' = synthetic /\ inflight' = NoItem
  BY <1>1, <1>3 DEF QueueInv, Sound, Describes, Encodable, Supported
<1>4. CASE OfFront /\ CommitQueue(TRUE) /\ inflight' = NoItem
  <2>1. Sound(synthetic[1]) /\ Between(0, io.x, synthetic[1].x)
    BY <1>2, <1>4, CommittedFrontFields DEF OfFront, QueueInv, Describes
  <2>2. synthetic[1].x \in Int /\ io.x \in Int
    BY <1>4, CommittedFrontFields DEF Item, TypeOK, Io
  <2>3. Sound(CommittedFront)
    <3> DEFINE mask == synthetic[1].persistent \cup synthetic[1].scheduled
    <3>1. Encodable(synthetic[1].x, mask)
      BY <2>1 DEF Sound
    <3> HIDE DEF mask
    <3>2. Encodable(synthetic[1].x - io.x, mask)
      BY ONLY <2>1, <2>2, <3>1, EncodablePart
    <3>3. /\ CommittedFront.x = synthetic[1].x - io.x
          /\ CommittedFront.persistent \cup CommittedFront.scheduled = mask
          /\ CommittedFront.id = synthetic[1].id /\ CommittedFront.kind = synthetic[1].kind
          /\ CommittedFront.latest = synthetic[1].latest
      BY <1>4, CommittedFrontFields DEF mask
    <3>4. QED
      BY <2>1, <3>2, <3>3 DEF Sound
  <2>4. ASSUME NEW i \in 1 .. Len(synthetic') PROVE Sound(synthetic'[i])
    <3>1. CASE /\ Len(synthetic') = Len(synthetic) - 1
               /\ \A j \in 1 .. Len(synthetic) - 1 : synthetic'[j] = synthetic[j + 1]
      <4>1. i + 1 \in 1 .. Len(synthetic) /\ synthetic'[i] = synthetic[i + 1]
        BY <1>2, <3>1
      <4>2. QED
        BY <4>1 DEF QueueInv
    <3>2. CASE /\ Len(synthetic') = Len(synthetic) /\ synthetic'[1] = CommittedFront
               /\ \A j \in 2 .. Len(synthetic) : synthetic'[j] = synthetic[j]
      <4>1. CASE i = 1
        BY <2>3, <3>2, <4>1
      <4>2. CASE i # 1
        <5>1. i \in 2 .. Len(synthetic) /\ i \in 1 .. Len(synthetic)
          BY <1>2, <3>2, <4>2
        <5>2. QED
          BY <3>2, <5>1 DEF QueueInv
      <4>3. QED
        BY <4>1, <4>2
    <3>3. QED
      BY <1>4, <3>1, <3>2, CommittedQueue
  <2>5. Len(synthetic') <= Len(synthetic) /\ Len(synthetic') \in Int
    BY <1>2, <1>4, CommittedQueue
  <2>6. \A i \in 1 .. Len(synthetic') : Sound(synthetic[i])'
    BY <1>1, <2>4 DEF Sound, Encodable, Supported
  <2>7. QED
    BY <1>2, <1>4, <2>5, <2>6 DEF QueueInv
<1>5. QED
  BY <1>3, <1>4, CompletionCases

LEMMA QueueStep ==
  ASSUME TypeOK, FreshInv, InflightHeld, QueueOrder, QueueInv, [Next]_vars
  PROVE  QueueInv'
<1>1. ASSUME UNCHANGED <<layout, synthetic, inflight, io>>, latestKnown => latestKnown'
      PROVE  QueueInv'
  BY <1>1 DEF QueueInv, Sound, Describes, Encodable, Supported
<1>2. ASSUME synthetic' = <<>>, inflight' = NoItem PROVE QueueInv'
  <2>1. Len(synthetic') = 0 /\ 0 <= MaxSynthetic
    BY <1>2, LimitsAssumption
  <2>2. QED
    BY <1>2, <2>1 DEF QueueInv
<1>3. CASE UNCHANGED vars
  BY <1>1, <1>3 DEF vars
<1>4. CASE ClientStep
  BY <1>4, QueueClient
<1>5. CASE ReaderStep
  BY <1>1, <1>5 DEF ReaderStep, ReadPhysical, PushPhysical
<1>6. CASE Take
  BY <1>6, QueueTake
<1>7. CASE WriteSucceeds \/ WriteFails \/ WriteFailsAndEnds
  BY <1>7, QueueComplete DEF WriteSucceeds, WriteFails, WriteFailsAndEnds
<1>8. CASE AppendEvent \/ WriterStops
  BY <1>1, <1>8 DEF AppendEvent, WriterStops
<1>9. CASE ControlStep
  <2>1. ASSUME NEW b, SetProtocol(b) PROVE QueueInv'
    BY <1>2, <2>1 DEF SetProtocol, Invalidate, DropSynthetic
  <2>2. ASSUME NEW learned, LearnDescriptor(learned) PROVE QueueInv'
    BY <1>1, <1>2, <2>2 DEF LearnDescriptor, Invalidate, DropSynthetic
  <2>3. ASSUME NEW learned, NEW b, Register(learned, b) PROVE QueueInv'
    <3>1. ~Registered /\ UNCHANGED <<synthetic, inflight>>
      BY <2>3 DEF Register, Registered
    <3>2. synthetic = <<>> /\ inflight = NoItem
      BY <3>1 DEF FreshInv, InflightHeld
    <3>3. QED
      BY <1>2, <3>1, <3>2
  <2>4. CASE SeedMouseReport \/ BeginTerminate \/ Join
    BY <1>1, <2>4 DEF SeedMouseReport, BeginTerminate, Join
  <2>5. CASE Unregister
    BY <1>2, <2>5 DEF Unregister, FreshEndpoint, DropSynthetic
  <2>6. QED
    BY <1>9, <2>1, <2>2, <2>3, <2>4, <2>5 DEF ControlStep
<1>10. QED
  BY <1>3, <1>4, <1>5, <1>6, <1>7, <1>8, <1>9 DEF Next, WriterStep

LEMMA QueueCorrect == Spec => []QueueInv
<1>1. Init => QueueInv
  BY LimitsAssumption DEF Init, QueueInv
<1>2. /\ TypeOK /\ FreshInv /\ InflightHeld /\ QueueOrder /\ QueueInv /\ [Next]_vars
      => QueueInv'
  BY QueueStep
<1>3. QED
  BY <1>1, <1>2, TypeCorrect, FreshCorrect, InflightIsHeld, QueueIsOrdered, PTL DEF Spec

(* What enqueue_report() accepted can be encoded until it is off the       *)
(* queue, whatever part of it has been written and whichever layout the    *)
(* host selects meanwhile: take_mouse_report() never meets a front item    *)
(* for which split_mouse_command() returns nothing.                        *)
THEOREM AcceptedIsEncodable == Spec => []AcceptedStaysEncodable
<1>1. TypeOK /\ QueueInv => AcceptedStaysEncodable
  <2>1. ASSUME TypeOK, QueueInv PROVE AcceptedStaysEncodable
    BY <2>1, QueueLength DEF QueueInv, Sound, AcceptedStaysEncodable
  <2>2. QED
    BY <2>1
<1>2. QED
  BY <1>1, QueueCorrect, TypeCorrect, PTL

(* An enqueue_report() that answers QueueFull has removed nothing: a queue *)
(* of at most MAX_SYNTHETIC_ITEMS in which something is superseded has     *)
(* room afterwards.                                                        *)
THEOREM RefusalRemovesNothing == Spec => RefusalKeepsQueue
<1>1. TypeOK /\ QueueInv =>
        ((\E c \in Commands : \E a \in {NoGuard} \cup 0 .. activity : EnqueueQueueFull(c, a, 0))
           => UNCHANGED synthetic)
  <2>1. ASSUME TypeOK, QueueInv, NEW c, NEW a, EnqueueQueueFull(c, a, 0)
        PROVE  UNCHANGED synthetic
    <3>1. PICK k \in 0 .. Len(synthetic) :
            k >= MaxSynthetic /\ synthetic' = SubSeq(synthetic, 1, k)
      BY <2>1, RefusedQueue
    <3>2. k = Len(synthetic)
      <4>1. Len(synthetic) \in Nat /\ MaxSynthetic \in Nat /\ Len(synthetic) <= MaxSynthetic
        BY <2>1, QueueLength, LimitsAssumption DEF QueueInv
      <4>2. QED
        BY <3>1, <4>1
    <3>3. QED
      BY <2>1, <3>1, <3>2, QueueLength, SubSeqFull
  <2>2. QED
    BY <2>1
<1>2. QED
  BY <1>1, QueueCorrect, TypeCorrect, PTL DEF RefusalKeepsQueue
-----------------------------------------------------------------------------
(* The ledger of the motion the host has been sent.                        *)

Accounted(item) ==
  \/ item.x = commanded[item.id] - hostMotion[item.id]
  \/ item.latest /\ item.x = 0

(* The motion on its way is not yet in hostMotion; if its item has been    *)
(* cleared it is not queued again.                                         *)
WireInv ==
  io.item # NoItem =>
    /\ io.item \in 1 .. MaxItems
    /\ Registered => io.item < nextItem
    /\ Between(0, hostMotion[io.item] + io.x, commanded[io.item])
    /\ inflight = NoItem => \A j \in 1 .. Len(synthetic) : synthetic[j].id # io.item

HostInv ==
  /\ \A id \in 1 .. MaxItems : Between(0, hostMotion[id], commanded[id])
  /\ Registered => \A id \in 1 .. MaxItems : id >= nextItem => hostMotion[id] = 0

LedgerInv ==
  /\ HostInv
  /\ WireInv
  /\ \A j \in 1 .. Len(synthetic) : Accounted(synthetic[j])

LEMMA LedgerTypes ==
  ASSUME TypeOK
  PROVE  /\ \A id \in 1 .. MaxItems : hostMotion[id] \in Int /\ commanded[id] \in Int
         /\ io.x \in Int /\ nextItem \in Nat /\ nextItem # 0
         /\ \A item \in Item : item.x \in Int /\ item.id \in Nat
BY DEF TypeOK, Io, Item, NoItem

LEMMA LedgerEnqueue ==
  ASSUME TypeOK, QueueOrder, QueueInv, LedgerInv, NEW c \in Commands,
         NEW a \in {NoGuard} \cup 0 .. activity, NEW g, EnqueueOk(c, a, g)
  PROVE  LedgerInv'
<1>1. PICK k \in 0 .. Len(synthetic) :
        /\ Len(synthetic') = k + 1 /\ synthetic'[k + 1] = NewItem(c, a)
        /\ \A i \in 1 .. k : synthetic'[i] = synthetic[i]
  BY AcceptedQueue
<1>2. /\ Registered /\ nextItem <= MaxItems /\ nextItem' = nextItem + 1
      /\ commanded' = [commanded EXCEPT ![nextItem] = c.x]
      /\ UNCHANGED <<phase, io, inflight, hostMotion>>
  BY DEF EnqueueOk, Accepts, Ready
<1>3. /\ Len(synthetic) \in Nat /\ nextItem \in Nat /\ nextItem \in 1 .. MaxItems
      /\ c.x \in Int /\ MaxItems \in Nat
  BY <1>2, QueueLength, LedgerTypes, InputsAssumption, BoundsAssumption DEF Command
<1>4. \A id \in 1 .. MaxItems : commanded'[id] = IF id = nextItem THEN c.x ELSE commanded[id]
  BY <1>2, <1>3 DEF TypeOK
<1>5. hostMotion[nextItem] = 0
  BY <1>2, <1>3 DEF LedgerInv, HostInv
<1>6. HostInv'
  <2>1. ASSUME NEW id \in 1 .. MaxItems PROVE Between(0, hostMotion'[id], commanded'[id])
    <3>1. CASE id = nextItem
      BY <1>2, <1>3, <1>4, <1>5, <3>1 DEF Between
    <3>2. CASE id # nextItem
      BY <1>2, <1>4, <3>2 DEF LedgerInv, HostInv
    <3>3. QED
      BY <3>1, <3>2
  <2>2. ASSUME NEW id \in 1 .. MaxItems, id >= nextItem' PROVE hostMotion'[id] = 0
    <3>1. id >= nextItem
      BY <1>2, <1>3, <2>2
    <3>2. QED
      BY <1>2, <3>1 DEF LedgerInv, HostInv
  <2>3. QED
    BY <2>1, <2>2 DEF HostInv
<1>7. ASSUME NEW j \in 1 .. Len(synthetic')
      PROVE  /\ Accounted(synthetic[j])'
             /\ synthetic'[j].id = nextItem \/ \E i \in 1 .. Len(synthetic) :
                                                 synthetic'[j].id = synthetic[i].id
  <2>1. CASE j = k + 1
    <3>1. synthetic'[j].id = nextItem /\ synthetic'[j].x = c.x
      BY <1>1, <2>1 DEF NewItem
    <3>2. QED
      BY <1>2, <1>3, <1>4, <1>5, <3>1 DEF Accounted
  <2>2. CASE j \in 1 .. k
    <3>1. j \in 1 .. Len(synthetic) /\ synthetic'[j] = synthetic[j]
      BY <1>1, <1>3, <2>2
    <3>2. synthetic[j].id \in 1 .. MaxItems /\ synthetic[j].id < nextItem
      BY <3>1, QueueLength DEF QueueInv, Sound, QueueOrder
    <3>3. commanded'[synthetic[j].id] = commanded[synthetic[j].id]
      BY <1>3, <1>4, <3>2
    <3>4. Accounted(synthetic[j])
      BY <3>1 DEF LedgerInv
    <3>5. QED
      BY <1>2, <3>1, <3>3, <3>4 DEF Accounted
  <2>3. QED
    BY <1>1, <1>3, <2>1, <2>2
<1>8. WireInv'
  <2>1. SUFFICES ASSUME io.item # NoItem
                 PROVE  /\ io.item \in 1 .. MaxItems
                        /\ io.item < nextItem'
                        /\ Between(0, hostMotion[io.item] + io.x, commanded'[io.item])
                        /\ inflight = NoItem =>
                             \A j \in 1 .. Len(synthetic') : synthetic'[j].id # io.item
    BY <1>2 DEF WireInv
  <2>2. io.item \in 1 .. MaxItems /\ io.item < nextItem
    BY <1>2, <2>1 DEF LedgerInv, WireInv
  <2>3. Between(0, hostMotion[io.item] + io.x, commanded'[io.item])
    <3>1. commanded'[io.item] = commanded[io.item]
      BY <1>3, <1>4, <2>2
    <3>2. QED
      BY <2>1, <3>1 DEF LedgerInv, WireInv
  <2>4. ASSUME inflight = NoItem, NEW j \in 1 .. Len(synthetic')
        PROVE  synthetic'[j].id # io.item
    BY <1>3, <1>7, <2>1, <2>2, <2>4 DEF LedgerInv, WireInv
  <2>5. QED
    BY <1>2, <1>3, <2>2, <2>3, <2>4
<1>9. QED
  BY <1>6, <1>7, <1>8 DEF LedgerInv

LEMMA LedgerClient ==
  ASSUME TypeOK, QueueOrder, QueueInv, LedgerInv, ClientStep
  PROVE  LedgerInv'
<1>1. ASSUME UNCHANGED <<phase, nextItem, io, hostMotion, commanded>>,
             \/ UNCHANGED <<synthetic, inflight>>
             \/ synthetic' = <<>>
      PROVE  LedgerInv'
  BY <1>1 DEF LedgerInv, HostInv, WireInv, Accounted, Registered
<1>2. ASSUME NEW c \in Commands, NEW a, NEW g, EnqueueQueueFull(c, a, g)
      PROVE  LedgerInv'
  <2>1. PICK k \in 0 .. Len(synthetic) :
          Len(synthetic') = k /\ \A i \in 1 .. k : synthetic'[i] = synthetic[i]
    BY <1>2, RefusedQueue
  <2>2. UNCHANGED <<phase, nextItem, io, inflight, hostMotion, commanded>>
    BY <1>2 DEF EnqueueQueueFull
  <2>3. Len(synthetic) \in Nat
    BY QueueLength
  <2>4. \A i \in 1 .. Len(synthetic') :
          i \in 1 .. Len(synthetic) /\ synthetic'[i] = synthetic[i]
    BY <2>1, <2>3
  <2>5. QED
    BY <2>2, <2>4 DEF LedgerInv, HostInv, WireInv, Accounted, Registered
<1>3. CASE ClearSynthetic
  BY <1>1, <1>3 DEF ClearSynthetic, DropSynthetic
<1>4. CASE TakeWriterEvents \/ TakeWriterOverflow
  BY <1>1, <1>4 DEF TakeWriterEvents, TakeWriterOverflow
<1>5. QED
  BY <1>2, <1>3, <1>4, LedgerEnqueue DEF ClientStep

LEMMA LedgerTake ==
  ASSUME TypeOK, IoShape, QueueOrder, QueueInv, LedgerInv, Take
  PROVE  LedgerInv'
<1>1. PICK cutoff \in 0 .. nextItem - 1 : \E k \in 0 .. Len(synthetic) : TakeReport(cutoff, k)
  BY DEF Take
<1>2. PICK k \in 0 .. Len(synthetic) : TakeReport(cutoff, k)
  BY <1>1
<1>3. /\ synthetic' = AfterExpiry(cutoff, k)
      /\ UNCHANGED <<phase, nextItem, hostMotion, commanded>> /\ CanTake
  BY <1>2, TakeCases DEF TakeReport, TakeNothing, TakeKeeps
<1>4. HostInv'
  BY <1>3 DEF LedgerInv, HostInv, Registered
<1>5. ASSUME NEW j \in 1 .. Len(synthetic')
      PROVE  /\ Accounted(synthetic[j])'
             /\ k + j \in 1 .. Len(synthetic) /\ synthetic'[j].id = synthetic[k + j].id
  <2> DEFINE old == synthetic[k + j]
             new == synthetic'[j]
  <2>1. /\ k + j \in 1 .. Len(synthetic)
        /\ new.x = old.x \/ (new.x = 0 /\ old.latest)
        /\ new.id = old.id /\ new.latest = old.latest
    BY <1>3, ExpiryLeaves
  <2>2. Accounted(old)
    BY <2>1 DEF LedgerInv
  <2> HIDE DEF old
  <2>3. QED
    BY <1>3, <2>1, <2>2 DEF Accounted, old
<1>6. WireInv'
  <2>1. CASE TakeNothing(cutoff, k)
    <3>1. UNCHANGED <<writer, io, inflight>> /\ writer # "writing"
      BY <2>1 DEF TakeNothing, CanTake
    <3>2. io'.item = NoItem
      BY <3>1 DEF IoShape, NoIo
    <3>3. QED
      BY <3>2 DEF WireInv
  <2>2. CASE /\ TakePhysical(cutoff, k) \/ TakeStandalone(cutoff, k)
             /\ io'.item # NoItem
    <3> DEFINE f == synthetic'[1]
    <3>1. /\ Len(synthetic') > 0 /\ f \in Item /\ io'.item = f.id
          /\ io'.x \in Int /\ Between(0, io'.x, f.x) /\ inflight' = io'.item
      BY <2>2, TakenFront, TakeCases
    <3>2. 1 \in 1 .. Len(synthetic')
      BY <1>3, <3>1, AfterExpiryProperties, LenProperties DEF TypeOK
    <3>3. /\ k + 1 \in 1 .. Len(synthetic) /\ f.id = synthetic[k + 1].id
          /\ f.x = 0 \/ f.x = commanded[f.id] - hostMotion[f.id]
      BY <1>3, <1>5, <3>2 DEF Accounted
    <3>4. f.id \in 1 .. MaxItems /\ f.id < nextItem
      BY <3>3, QueueLength DEF QueueInv, Sound, QueueOrder
    <3>5. Between(0, hostMotion[f.id], commanded[f.id])
      BY <3>4 DEF LedgerInv, HostInv
    <3>6. /\ f.x \in Int /\ hostMotion[f.id] \in Int /\ commanded[f.id] \in Int
      BY <3>1, <3>4, LedgerTypes
    <3> DEFINE sent == hostMotion[f.id]
               due == commanded[f.id]
               left == f.x
    <3>7. /\ sent \in Int /\ due \in Int /\ left \in Int /\ io'.x \in Int
          /\ left = 0 \/ left = due - sent
          /\ Between(0, sent, due) /\ Between(0, io'.x, left)
      BY <3>1, <3>3, <3>5, <3>6
    <3> HIDE DEF f, sent, due, left
    <3>8. Between(0, sent + io'.x, due)
      BY <3>7 DEF Between
    <3>9. QED
      BY <1>3, <2>2, <3>1, <3>4, <3>8 DEF WireInv, sent, due
  <2>3. CASE io'.item = NoItem
    BY <2>3 DEF WireInv
  <2>4. QED
    BY <1>2, <2>1, <2>2, <2>3 DEF TakeReport
<1>7. QED
  BY <1>4, <1>5, <1>6 DEF LedgerInv

LEMMA LedgerComplete ==
  ASSUME TypeOK, InflightHeld, QueueOrder, QueueInv, LedgerInv,
         NEW success \in BOOLEAN, NEW exits \in BOOLEAN, Complete(success, exits)
  PROVE  LedgerInv'
<1>1. /\ UNCHANGED <<phase, nextItem, commanded>> /\ io' = NoIo
      /\ success => HostReceives
      /\ ~success => hostMotion' = hostMotion
  BY DEF Complete
<1>2. WireInv'
  BY <1>1 DEF WireInv, NoIo
<1>3. CASE hostMotion' = hostMotion /\ synthetic' = synthetic
  BY <1>1, <1>2, <1>3 DEF LedgerInv, HostInv, Accounted, Registered
<1>4. CASE success /\ io.item # NoItem
  <2> DEFINE n == io.item
  <2>1. /\ n \in 1 .. MaxItems
        /\ Registered => n < nextItem
        /\ Between(0, hostMotion[n] + io.x, commanded[n])
    BY <1>4 DEF LedgerInv, WireInv
  <2>2. \A id \in 1 .. MaxItems :
          hostMotion'[id] = IF id = n THEN hostMotion[n] + io.x ELSE hostMotion[id]
    BY <1>1, <1>4 DEF HostReceives, TypeOK
  <2>3. HostInv'
    <3>1. ASSUME NEW id \in 1 .. MaxItems PROVE Between(0, hostMotion'[id], commanded'[id])
      BY <1>1, <2>1, <2>2 DEF LedgerInv, HostInv
    <3>2. ASSUME Registered, NEW id \in 1 .. MaxItems, id >= nextItem PROVE hostMotion'[id] = 0
      <4>1. id # n
        BY <2>1, <3>2, LedgerTypes
      <4>2. QED
        BY <2>2, <3>2, <4>1 DEF LedgerInv, HostInv
    <3>3. QED
      BY <1>1, <3>1, <3>2 DEF HostInv, Registered
  <2>4. ASSUME NEW j \in 1 .. Len(synthetic), synthetic[j].id # n
        PROVE  /\ commanded'[synthetic[j].id] = commanded[synthetic[j].id]
               /\ hostMotion'[synthetic[j].id] = hostMotion[synthetic[j].id]
               /\ Accounted(synthetic[j])
    <3>1. synthetic[j].id \in 1 .. MaxItems
      BY <2>4 DEF QueueInv, Sound
    <3>2. QED
      BY <1>1, <2>2, <2>4, <3>1 DEF LedgerInv
  <2>5. CASE OfFront /\ CommitQueue(TRUE)
    <3>1. /\ Len(synthetic) > 0 /\ synthetic[1] \in Item /\ synthetic[1].id = n
          /\ CommittedFront.x = synthetic[1].x - io.x /\ CommittedFront.id = n
          /\ CommittedFront.latest = synthetic[1].latest
          /\ Between(0, io.x, synthetic[1].x)
      BY <1>4, <2>5, CommittedFrontFields DEF OfFront, QueueInv, Describes
    <3>2. Len(synthetic) \in Nat /\ 1 \in 1 .. Len(synthetic)
      BY <3>1, QueueLength
    <3>3. ASSUME NEW j \in 2 .. Len(synthetic) PROVE synthetic[j].id # n
      <4>1. j \in 1 .. Len(synthetic) /\ 1 < j
        BY <3>2
      <4>2. synthetic[1].id < synthetic[j].id
        BY <3>2, <4>1, QueueLength DEF QueueOrder
      <4>3. synthetic[j] \in Item
        BY <4>1, QueueLength
      <4>4. QED
        BY <3>1, <4>2, <4>3, LedgerTypes
    <3>4. \/ CommittedFront.x = commanded'[n] - hostMotion'[n]
          \/ CommittedFront.latest /\ CommittedFront.x = 0
      <4> HIDE DEF n
      <4>1. hostMotion'[n] = hostMotion[n] + io.x /\ commanded'[n] = commanded[n]
        BY <1>1, <2>1, <2>2
      <4>2. Accounted(synthetic[1])
        BY <3>2 DEF LedgerInv
      <4>3. synthetic[1].x = commanded[n] - hostMotion[n] \/
            (synthetic[1].latest /\ synthetic[1].x = 0)
        BY <3>1, <4>2 DEF Accounted
      <4>4. /\ synthetic[1].x \in Int /\ io.x \in Int /\ hostMotion[n] \in Int
            /\ commanded[n] \in Int
        BY <2>1, <3>1, LedgerTypes
      <4>5. CASE synthetic[1].x = commanded[n] - hostMotion[n]
        BY <3>1, <4>1, <4>4, <4>5
      <4>6. CASE synthetic[1].latest /\ synthetic[1].x = 0
        BY <3>1, <4>4, <4>6 DEF Between
      <4>7. QED
        BY <4>3, <4>5, <4>6
    <3>5. ASSUME NEW j \in 1 .. Len(synthetic') PROVE Accounted(synthetic[j])'
      <4>1. CASE /\ Len(synthetic') = Len(synthetic) - 1
                 /\ \A i \in 1 .. Len(synthetic) - 1 : synthetic'[i] = synthetic[i + 1]
        <5>1. j + 1 \in 2 .. Len(synthetic) /\ j + 1 \in 1 .. Len(synthetic)
              /\ synthetic'[j] = synthetic[j + 1]
          BY <3>2, <4>1
        <5>2. QED
          BY <2>4, <3>3, <5>1 DEF Accounted
      <4>2. CASE /\ Len(synthetic') = Len(synthetic) /\ synthetic'[1] = CommittedFront
                 /\ \A i \in 2 .. Len(synthetic) : synthetic'[i] = synthetic[i]
        <5>1. CASE j = 1
          BY <3>1, <3>4, <4>2, <5>1 DEF Accounted
        <5>2. CASE j # 1
          <6>1. j \in 2 .. Len(synthetic) /\ j \in 1 .. Len(synthetic)
                /\ synthetic'[j] = synthetic[j]
            BY <3>2, <4>2, <5>2
          <6>2. QED
            BY <2>4, <3>3, <6>1 DEF Accounted
        <5>3. QED
          BY <5>1, <5>2
      <4>3. QED
        BY <2>5, <4>1, <4>2, CommittedQueue
    <3>6. QED
      BY <1>2, <2>3, <3>5 DEF LedgerInv
  <2>6. CASE synthetic' = synthetic /\ inflight = NoItem
    <3>1. \A j \in 1 .. Len(synthetic) : synthetic[j].id # n
      BY <1>4, <2>6 DEF LedgerInv, WireInv
    <3>2. \A j \in 1 .. Len(synthetic) : Accounted(synthetic[j])'
      BY <2>4, <2>6, <3>1 DEF Accounted
    <3>3. QED
      BY <1>2, <2>3, <2>6, <3>2 DEF LedgerInv
  <2>7. QED
    BY <1>4, <2>5, <2>6, CompletionCases
<1>5. CASE success /\ io.item = NoItem
  <2>1. hostMotion' = hostMotion
    BY <1>1, <1>5 DEF HostReceives
  <2>2. synthetic' = synthetic
    BY <1>5, CompletionCases DEF OfFront
  <2>3. QED
    BY <1>3, <2>1, <2>2
<1>6. CASE ~success
  BY <1>1, <1>3, <1>6, CompletionCases
<1>7. QED
  BY <1>4, <1>5, <1>6

LEMMA LedgerStep ==
  ASSUME TypeOK, ThreadInv, FreshInv, IoShape, InflightHeld, QueueOrder, QueueInv, LedgerInv,
         [Next]_vars
  PROVE  LedgerInv'
<1>1. ASSUME UNCHANGED <<phase, nextItem, io, hostMotion, commanded>>,
             \/ UNCHANGED <<synthetic, inflight>>
             \/ synthetic' = <<>>
      PROVE  LedgerInv'
  BY <1>1 DEF LedgerInv, HostInv, WireInv, Accounted, Registered
<1>2. CASE UNCHANGED vars
  BY <1>1, <1>2 DEF vars
<1>3. CASE ClientStep
  BY <1>3, LedgerClient
<1>4. CASE ReaderStep
  BY <1>1, <1>4 DEF ReaderStep, ReadPhysical, PushPhysical
<1>5. CASE Take
  BY <1>5, LedgerTake
<1>6. CASE WriteSucceeds \/ WriteFails \/ WriteFailsAndEnds
  BY <1>6, LedgerComplete DEF WriteSucceeds, WriteFails, WriteFailsAndEnds
<1>7. CASE AppendEvent \/ WriterStops
  BY <1>1, <1>7 DEF AppendEvent, WriterStops
<1>8. CASE ControlStep
  <2>1. ASSUME NEW b, SetProtocol(b) PROVE LedgerInv'
    BY <1>1, <2>1 DEF SetProtocol, Invalidate, DropSynthetic
  <2>2. ASSUME NEW learned, LearnDescriptor(learned) PROVE LedgerInv'
    BY <1>1, <2>2 DEF LearnDescriptor, Invalidate, DropSynthetic
  <2>3. ASSUME NEW learned, NEW b, Register(learned, b) PROVE LedgerInv'
    <3>1. /\ ~Registered /\ writer # "writing" /\ UNCHANGED <<synthetic, io>>
          /\ hostMotion' = [id \in 1 .. MaxItems |-> 0]
          /\ commanded' = [id \in 1 .. MaxItems |-> 0]
      BY <2>3 DEF Register, Registered, ThreadInv
    <3>2. synthetic' = <<>> /\ io'.item = NoItem
      BY <3>1 DEF FreshInv, IoShape, NoIo
    <3>3. HostInv'
      BY <3>1 DEF HostInv, Between
    <3>4. QED
      BY <3>2, <3>3 DEF LedgerInv, WireInv
  <2>4. CASE SeedMouseReport
    BY <1>1, <2>4 DEF SeedMouseReport
  <2>5. CASE BeginTerminate \/ Join
    BY <2>5 DEF BeginTerminate, Join, LedgerInv, HostInv, WireInv, Accounted, Registered
  <2>6. CASE Unregister
    BY <2>6 DEF Unregister, FreshEndpoint, DropSynthetic, LedgerInv, HostInv, WireInv, Registered
  <2>7. QED
    BY <1>8, <2>1, <2>2, <2>3, <2>4, <2>5, <2>6 DEF ControlStep
<1>9. QED
  BY <1>2, <1>3, <1>4, <1>5, <1>6, <1>7, <1>8 DEF Next, WriterStep

LEMMA LedgerCorrect == Spec => []LedgerInv
<1>1. Init => LedgerInv
  BY DEF Init, LedgerInv, HostInv, WireInv, NoIo, Between
<1>2. /\ TypeOK /\ ThreadInv /\ FreshInv /\ IoShape /\ InflightHeld /\ QueueOrder /\ QueueInv
      /\ LedgerInv /\ [Next]_vars
      => LedgerInv'
  BY LedgerStep
<1>3. QED
  BY <1>1, <1>2, TypeCorrect, ThreadCorrect, FreshCorrect, ShapeCorrect, InflightIsHeld,
     QueueIsOrdered, QueueCorrect, PTL DEF Spec

(* The host is never sent more of an accepted motion than was commanded,   *)
(* and what is left of a queued item is exactly what it has not been sent, *)
(* whatever is cleared, expired, failed and written again:                 *)
(* notify_mouse_report_written() takes a part off the queued item it       *)
(* belongs to and off no other.                                            *)
THEOREM MotionIsAccounted == Spec => []MotionLedger
<1>1. TypeOK /\ LedgerInv => MotionLedger
  <2>1. ASSUME TypeOK, LedgerInv PROVE MotionLedger
    BY <2>1, QueueLength DEF LedgerInv, HostInv, Accounted, MotionLedger
  <2>2. QED
    BY <2>1
<1>2. QED
  BY <1>1, TypeCorrect, LedgerCorrect, PTL
-----------------------------------------------------------------------------
(* Nothing is left undone.                                                 *)

Gone(id) == \A i \in DOMAIN synthetic' : synthetic'[i].id # id

LEMMA TakeSettles ==
  ASSUME TypeOK, QueueOrder, QueueInv, LedgerInv, Take,
         NEW j \in DOMAIN synthetic, Gone(synthetic[j].id)
  PROVE  Settled(synthetic[j])
<1>1. PICK cutoff \in 0 .. nextItem - 1 : \E k \in 0 .. Len(synthetic) : TakeReport(cutoff, k)
  BY DEF Take
<1>2. PICK k \in 0 .. Len(synthetic) : TakeReport(cutoff, k)
  BY <1>1
<1>3. /\ synthetic' = AfterExpiry(cutoff, k) /\ ExpireCut(cutoff, k)
      /\ UNCHANGED <<hostMotion, persistent, scheduled>>
  BY <1>2, TakeCases DEF TakeReport, TakeNothing, TakeKeeps
<1>4. j \in 1 .. Len(synthetic) /\ Len(synthetic) \in Nat
  BY QueueLength
<1>5. j \in 1 .. k
  <2>1. SUFFICES ASSUME j > k PROVE FALSE
    BY <1>4
  <2> DEFINE i == j - k
  <2>2. i \in 1 .. Len(synthetic) - k /\ k + i = j
    BY <1>4, <2>1
  <2>3. i \in DOMAIN synthetic'
    BY <1>3, <2>2, AfterExpiryProperties, LenProperties DEF TypeOK
  <2>4. synthetic'[i].id = synthetic[j].id
    BY <1>3, <2>2, ExpiryKeepsId
  <2>5. QED
    BY <2>3, <2>4 DEF Gone
<1> DEFINE item == synthetic[j]
<1>6. MotionLeft(item, cutoff) = 0 /\ ~NeedsButtons(item)
  BY <1>3, <1>5 DEF ExpireCut, FrontCut
<1>7. /\ Accounted(item) /\ (item.latest => item.kind = "MOVEMENT")
      /\ item.id \in 1 .. MaxItems /\ (item.committed => item.x # 0)
  BY <1>4 DEF LedgerInv, QueueInv, Sound, QueueOrder
<1> HIDE DEF item
<1>8. item.latest \/ item.x = 0
  BY <1>6 DEF MotionLeft, Expired
<1>9. item.latest \/ hostMotion'[item.id] = commanded[item.id]
  <2>1. SUFFICES ASSUME ~item.latest PROVE hostMotion[item.id] = commanded[item.id]
    BY <1>3
  <2>2. 0 = commanded[item.id] - hostMotion[item.id]
    BY <1>7, <1>8, <2>1 DEF Accounted
  <2>3. QED
    BY <1>7, <2>2, LedgerTypes
<1>10. item.kind \notin ForcedKinds
  <2>1. item.committed => item.latest
    BY <1>7, <1>8
  <2>2. QED
    BY <1>6, <1>7, <2>1 DEF NeedsButtons, ForcedKinds, TransactionKinds
<1>11. (item.persistent = persistent' /\ item.scheduled = scheduled') \/ item.committed
  BY <1>3, <1>6 DEF NeedsButtons
<1>12. QED
  BY <1>9, <1>10, <1>11 DEF Settled, item

LEMMA CompleteSettles ==
  ASSUME TypeOK, IoShape, InflightHeld, QueueOrder, QueueInv, LedgerInv,
         NEW success \in BOOLEAN, NEW exits \in BOOLEAN, Complete(success, exits),
         NEW j \in DOMAIN synthetic, Gone(synthetic[j].id)
  PROVE  Settled(synthetic[j])
<1>1. j \in 1 .. Len(synthetic) /\ Len(synthetic) \in Nat /\ DOMAIN synthetic = 1 .. Len(synthetic)
  BY QueueLength
<1>2. CASE synthetic' = synthetic
  BY <1>2 DEF Gone
<1>3. CASE Known /\ OfFront /\ success /\ CommitQueue(TRUE)
  <2>1. /\ Len(synthetic) > 0 /\ synthetic[1] \in Item /\ synthetic[1].id = io.item
        /\ CommittedFront.x = synthetic[1].x - io.x /\ CommittedFront.id = synthetic[1].id
    BY <1>3, CommittedFrontFields DEF OfFront
  <2>2. TypeOK'
    BY CompleteType
  <2>3. DOMAIN synthetic' = 1 .. Len(synthetic')
    BY <2>2, LenProperties DEF TypeOK
  <2>4. Finished(CommittedFront) /\ j = 1
    <3>1. CASE /\ Finished(CommittedFront)
               /\ Len(synthetic') = Len(synthetic) - 1
               /\ \A i \in 1 .. Len(synthetic) - 1 : synthetic'[i] = synthetic[i + 1]
      <4>1. ASSUME j # 1 PROVE FALSE
        <5>1. j - 1 \in 1 .. Len(synthetic) - 1 /\ (j - 1) + 1 = j
          BY <1>1, <4>1
        <5>2. j - 1 \in DOMAIN synthetic' /\ synthetic'[j - 1] = synthetic[j]
          BY <2>3, <3>1, <5>1
        <5>3. QED
          BY <5>2 DEF Gone
      <4>2. QED
        BY <3>1, <4>1
    <3>2. CASE /\ Len(synthetic') = Len(synthetic) /\ synthetic'[1] = CommittedFront
               /\ \A i \in 2 .. Len(synthetic) : synthetic'[i] = synthetic[i]
      <4>1. j \in DOMAIN synthetic' /\ (j = 1 \/ j \in 2 .. Len(synthetic))
        BY <1>1, <2>3, <3>2
      <4>2. synthetic'[j].id = synthetic[j].id
        BY <2>1, <3>2, <4>1
      <4>3. QED
        BY <4>1, <4>2 DEF Gone
    <3>3. QED
      BY <1>3, <3>1, <3>2, CommittedQueue
  <2> DEFINE item == synthetic[1]
  <2>5. Accounted(item) /\ Describes(item)
    BY <1>1, <1>3, <2>1, <2>4 DEF LedgerInv, QueueInv, OfFront
  <2>6. /\ persistent' = io.persistent /\ scheduled' = io.scheduled /\ HostReceives
    BY <1>3 DEF Complete, CommitQueue
  <2>7. io.item # NoItem /\ io.item \in 1 .. MaxItems
    BY <1>3 DEF OfFront, LedgerInv, WireInv
  <2>8. hostMotion'[io.item] = hostMotion[io.item] + io.x
    BY <2>6, <2>7 DEF HostReceives, TypeOK
  <2>9. hostButtons' = io.shown
    BY <2>6, <2>7 DEF HostReceives, IoShape
  <2> HIDE DEF item
  <2>10. item.latest \/ hostMotion'[item.id] = commanded[item.id]
    <3>1. SUFFICES ASSUME ~item.latest PROVE hostMotion'[item.id] = commanded[item.id]
      OBVIOUS
    <3>2. item.x = commanded[item.id] - hostMotion[item.id]
      BY <2>5, <3>1 DEF Accounted
    <3>3. item.x - io.x = 0 /\ item.id = io.item /\ item.x \in Int
      BY <2>1, <2>4, LedgerTypes DEF Finished, item
    <3>4. QED
      BY <2>7, <2>8, <3>2, <3>3, LedgerTypes
  <2>11. item.persistent = persistent' /\ item.scheduled = scheduled'
    BY <2>5, <2>6 DEF Describes
  <2>12. QED
    BY <2>1, <2>4, <2>9, <2>10, <2>11 DEF Settled, item
<1>4. QED
  BY <1>2, <1>3, CompletionCases

(* The writer thread takes an item off the queue only when its motion has  *)
(* reached the host, its masks are the applied ones and, if it is a forced *)
(* report such as the final release, its own report has been written: what *)
(* expire_front() passes over has nothing to write.                        *)
THEOREM NothingLeftUndone == Spec => WriterLeavesNothingUndone
<1>1. /\ TypeOK /\ IoShape /\ InflightHeld /\ QueueOrder /\ QueueInv /\ LedgerInv /\ [Next]_vars
      => (WriterStep /\ Registered =>
            \A j \in DOMAIN synthetic :
              (\A i \in DOMAIN synthetic' : synthetic'[i].id # synthetic[j].id)
                => Settled(synthetic[j]))
  <2>1. SUFFICES ASSUME TypeOK, IoShape, InflightHeld, QueueOrder, QueueInv, LedgerInv,
                        WriterStep, NEW j \in DOMAIN synthetic, Gone(synthetic[j].id)
                 PROVE  Settled(synthetic[j])
    BY DEF Gone
  <2>2. CASE Take
    BY <2>1, <2>2, TakeSettles
  <2>3. CASE WriteSucceeds \/ WriteFails \/ WriteFailsAndEnds
    BY <2>1, <2>3, CompleteSettles DEF WriteSucceeds, WriteFails, WriteFailsAndEnds
  <2>4. CASE AppendEvent \/ WriterStops
    BY <2>1, <2>4 DEF AppendEvent, WriterStops, Gone
  <2>5. QED
    BY <2>1, <2>2, <2>3, <2>4 DEF WriterStep
<1>2. QED
  BY <1>1, TypeCorrect, ShapeCorrect, InflightIsHeld, QueueIsOrdered, QueueCorrect, LedgerCorrect,
     PTL DEF Spec, WriterLeavesNothingUndone
=============================================================================
