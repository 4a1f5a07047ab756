----------------------- MODULE MixerRefinement_proofs -----------------------
(***************************************************************************)
(* Proof that the mixer and the threads that call it implement the         *)
(* abstract output, for all values of the constants.                       *)
(***************************************************************************)
EXTENDS MixerRefinement, MouseMixer_proofs

USE DEF layoutVars, endpointVars, physicalVars, writtenVars, queueVars,
        writerVars, eventVars, hostVars
-----------------------------------------------------------------------------
(* Physical reports are written in the order they were read in, and once   *)
(* one of this generation has been written none of an earlier one is left. *)

Current(r) == r.generation = generation

OrderInv ==
  /\ Len(stamped) <= 1
  /\ \A i, j \in 1 .. Len(fifo) : i < j => fifo[i].generation <= fifo[j].generation
  /\ \A i \in 1 .. Len(fifo), j \in 1 .. Len(stamped) :
       fifo[i].generation <= stamped[j].generation
  /\ \A j \in 1 .. Len(stamped) :
       stamped[j].generation \in 1 .. generation /\ (latestKnown => Current(stamped[j]))
  /\ \A i \in 1 .. Len(fifo) : fifo[i].generation \in 1 .. generation
  /\ writer = "writing" =>
       /\ io.generation \in 1 .. generation
       /\ \A i \in 1 .. Len(fifo) : io.generation <= fifo[i].generation
       /\ \A j \in 1 .. Len(stamped) : io.generation <= stamped[j].generation
  /\ templateKnown =>
       /\ \A i \in 1 .. Len(fifo) : Current(fifo[i])
       /\ \A j \in 1 .. Len(stamped) : Current(stamped[j])
       /\ writer = "writing" => Current(io)

LEMMA FifoLength ==
  ASSUME TypeOK
  PROVE  /\ fifo \in Seq(Report) /\ stamped \in Seq(Report)
         /\ Len(fifo) \in Nat /\ DOMAIN fifo = 1 .. Len(fifo) /\ (fifo = <<>> <=> Len(fifo) = 0)
         /\ Len(stamped) \in Nat /\ DOMAIN stamped = 1 .. Len(stamped)
         /\ (stamped = <<>> <=> Len(stamped) = 0)
         /\ \A i \in 1 .. Len(fifo) : fifo[i] \in Report /\ fifo[i].generation \in Nat
         /\ \A j \in 1 .. Len(stamped) : stamped[j] \in Report /\ stamped[j].generation \in Nat
         /\ fifo # <<>> => Head(fifo) = fifo[1]
         /\ stamped # <<>> => Head(stamped) = stamped[1]
         /\ generation \in Nat /\ nextGeneration \in Nat /\ io.generation \in Nat
<1>1. fifo \in Seq(Report) /\ stamped \in Seq(Report)
  BY DEF TypeOK
<1>2. \A r \in Report : r.generation \in Nat
  BY DEF Report
<1>3. generation \in Nat /\ nextGeneration \in Nat /\ io.generation \in Nat
  BY DEF TypeOK, Io
<1>4. QED
  BY <1>1, <1>2, <1>3, LenProperties, EmptySeq, ElementOfSeq, HeadTailProperties

(* A standalone report is only made when no report of an earlier           *)
(* generation is waiting.                                                  *)
LEMMA AloneIsCurrent ==
  ASSUME TypeOK, QueueInv, OrderInv, NEW cutoff, NEW k \in 0 .. Len(synthetic),
         AfterExpiry(cutoff, k) # <<>>,
         fifo = <<>> \/ Competes(AfterExpiry(cutoff, k))
  PROVE  /\ \A i \in 1 .. Len(fifo) : Current(fifo[i])
         /\ \A j \in 1 .. Len(stamped) : Current(stamped[j])
<1>1. Len(synthetic) > 0
  <2> DEFINE q == AfterExpiry(cutoff, k)
  <2>1. q \in Seq(Item) /\ Len(q) = Len(synthetic) - k
    BY AfterExpiryProperties, QueueLength
  <2>2. q # <<>>
    OBVIOUS
  <2> HIDE DEF q
  <2>3. Len(q) > 0
    BY <2>1, <2>2, EmptySeq, LenProperties
  <2>4. QED
    BY <2>1, <2>3, QueueLength
<1>2. latestKnown
  <2>1. 1 \in 1 .. Len(synthetic)
    BY <1>1, QueueLength
  <2>2. QED
    BY <2>1 DEF QueueInv, Sound
<1>3. fifo # <<>> => templateKnown
  BY DEF Competes
<1>4. QED
  BY <1>2, <1>3, FifoLength DEF OrderInv

(* When the oldest waiting report is of this generation, all are.          *)
LEMMA CurrentFront ==
  ASSUME TypeOK, OrderInv, fifo # <<>>, Current(Head(fifo))
  PROVE  /\ \A i \in 1 .. Len(fifo) : Current(fifo[i])
         /\ \A j \in 1 .. Len(stamped) : Current(stamped[j])
<1>1. 1 \in 1 .. Len(fifo) /\ fifo[1].generation = generation
  BY FifoLength DEF Current
<1>2. ASSUME NEW i \in 1 .. Len(fifo) PROVE Current(fifo[i])
  <2>1. i = 1 \/ 1 < i
    BY FifoLength
  <2>2. i = 1 \/ (generation <= fifo[i].generation /\ fifo[i].generation \in 1 .. generation)
    BY <1>1, <2>1 DEF OrderInv
  <2>3. QED
    BY <1>1, <2>2, FifoLength DEF Current
<1>3. ASSUME NEW j \in 1 .. Len(stamped) PROVE Current(stamped[j])
  <2>1. generation <= stamped[j].generation /\ stamped[j].generation \in 1 .. generation
    BY <1>1 DEF OrderInv
  <2>2. QED
    BY <2>1, FifoLength DEF Current
<1>4. QED
  BY <1>2, <1>3

LEMMA OrderReader ==
  ASSUME TypeOK, ThreadInv, PhysicalInv, OrderInv, ReaderStep
  PROVE  OrderInv'
<1>1. UNCHANGED <<writer, io, generation, templateKnown>> /\ TypeOK'
  BY ReaderType DEF ReaderStep, ReadPhysical, PushPhysical
<1>2. CASE \E r \in PhysicalReports : ReadPhysical(r)
  <2>1. PICK r \in PhysicalReports : ReadPhysical(r)
    BY <1>2
  <2> DEFINE read == [match |-> r.match, generation |-> generation,
                      buttons |-> r.buttons, x |-> r.x, overtaken |-> 0]
  <2>2. /\ stamped = <<>> /\ stamped' = <<read>> /\ fifo' = fifo
        /\ Registered /\ read.generation = generation
    BY <2>1 DEF ReadPhysical
  <2> HIDE DEF read
  <2>3. /\ Len(stamped') = 1 /\ \A j \in 1 .. 1 : stamped'[j] = read
    BY <2>2
  <2>4. generation \in 1 .. generation
    BY <2>2, FifoLength DEF ThreadInv, Registered
  <2>5. QED
    BY <1>1, <2>2, <2>3, <2>4, FifoLength DEF OrderInv, Current
<1>3. CASE PushPhysical
  <2>1. /\ stamped # <<>> /\ stamped' = <<>> /\ fifo' = Append(fifo, Head(stamped))
        /\ latestKnown' = latestKnown
    BY <1>3 DEF PushPhysical
  <2>2. /\ Head(stamped) = stamped[1] /\ stamped[1] \in Report /\ 1 \in 1 .. Len(stamped)
    BY <2>1, FifoLength
  <2>3. /\ Len(fifo') = Len(fifo) + 1 /\ fifo'[Len(fifo) + 1] = stamped[1]
        /\ \A i \in 1 .. Len(fifo) : fifo'[i] = fifo[i]
    BY <2>1, <2>2, FifoLength, AppendProperties
  <2>4. \A i \in 1 .. Len(fifo') :
          \/ i \in 1 .. Len(fifo) /\ fifo'[i] = fifo[i]
          \/ i = Len(fifo) + 1 /\ fifo'[i] = stamped[1]
    BY <2>3, FifoLength
  <2>5. \A i, j \in 1 .. Len(fifo') : i < j => fifo'[i].generation <= fifo'[j].generation
    <3>1. SUFFICES ASSUME NEW i \in 1 .. Len(fifo'), NEW j \in 1 .. Len(fifo'), i < j
                   PROVE  fifo'[i].generation <= fifo'[j].generation
      OBVIOUS
    <3>2. i \in 1 .. Len(fifo) /\ fifo'[i] = fifo[i]
      BY <2>3, <2>4, <3>1, FifoLength
    <3>3. QED
      BY <2>2, <2>4, <3>1, <3>2 DEF OrderInv
  <2>6. Len(stamped') = 0
    BY <2>1
  <2>7. \A i \in 1 .. Len(fifo') :
          /\ fifo'[i].generation \in 1 .. generation
          /\ writer = "writing" => io.generation <= fifo'[i].generation
          /\ templateKnown => Current(fifo'[i])
    BY <2>2, <2>4 DEF OrderInv
  <2>8. /\ writer = "writing" => io.generation \in 1 .. generation
        /\ templateKnown => (writer = "writing" => Current(io))
    BY DEF OrderInv
  <2>9. QED
    BY <1>1, <2>5, <2>6, <2>7, <2>8 DEF OrderInv, Current
<1>4. QED
  BY <1>2, <1>3 DEF ReaderStep

LEMMA OrderTake ==
  ASSUME TypeOK, ThreadInv, QueueInv, OrderInv, Take
  PROVE  OrderInv'
<1>1. PICK cutoff \in 0 .. nextItem - 1 : \E k \in 0 .. Len(synthetic) : TakeReport(cutoff, k)
  BY DEF Take
<1>2. PICK k \in 0 .. Len(synthetic) : TakeReport(cutoff, k)
  BY <1>1
<1>3. CASE TakeNothing(cutoff, k)
  BY <1>3 DEF TakeNothing, OrderInv, Current
<1>4. CASE TakePhysical(cutoff, k) \/ TakeStandalone(cutoff, k)
  <2> DEFINE q == AfterExpiry(cutoff, k)
  <2>1. /\ UNCHANGED <<generation, latestKnown, templateKnown, stamped>> /\ CanTake
        /\ AloneTaken(q) \/ FusedTaken(q) \/ PlainTaken
    BY <1>4, TakeCases DEF TakeKeeps
  <2>2. generation \in 1 .. generation
    BY <2>1, FifoLength DEF CanTake, Registered, ThreadInv
  <2>3. CASE AloneTaken(q)
    <3>1. /\ q # <<>> /\ fifo' = fifo /\ io'.generation = generation
          /\ fifo = <<>> \/ Competes(q)
      BY <2>3 DEF AloneTaken, ForFront
    <3> HIDE DEF q
    <3>2. /\ \A i \in 1 .. Len(fifo) : Current(fifo[i])
          /\ \A j \in 1 .. Len(stamped) : Current(stamped[j])
      BY <3>1, AloneIsCurrent DEF q
    <3>3. QED
      BY <2>1, <2>2, <3>1, <3>2 DEF OrderInv, Current
  <2> HIDE DEF q
  <2>4. CASE PhysicalTaken /\ io'.generation = Head(fifo).generation
    <3>1. /\ fifo # <<>> /\ fifo' = Tail(fifo) /\ io'.generation = fifo[1].generation
          /\ 1 \in 1 .. Len(fifo)
      BY <2>4, FifoLength DEF PhysicalTaken
    <3>2. Len(fifo') = Len(fifo) - 1 /\ \A i \in 1 .. Len(fifo) - 1 : fifo'[i] = fifo[i + 1]
      BY <3>1, FifoLength, HeadTailProperties
    <3>3. \A i \in 1 .. Len(fifo') :
            /\ i + 1 \in 1 .. Len(fifo) /\ 1 < i + 1 /\ fifo'[i] = fifo[i + 1]
      BY <3>2, FifoLength
    <3>4. \A i, j \in 1 .. Len(fifo') : i < j => fifo'[i].generation <= fifo'[j].generation
      <4>1. SUFFICES ASSUME NEW i \in 1 .. Len(fifo'), NEW j \in 1 .. Len(fifo'), i < j
                     PROVE  fifo'[i].generation <= fifo'[j].generation
        OBVIOUS
      <4>2. i + 1 < j + 1
        BY <3>2, <4>1, FifoLength
      <4>3. QED
        BY <3>3, <4>2 DEF OrderInv
    <3>5. \A i \in 1 .. Len(fifo') :
            /\ fifo'[i].generation \in 1 .. generation
            /\ io'.generation <= fifo'[i].generation
            /\ templateKnown => Current(fifo'[i])
            /\ \A j \in 1 .. Len(stamped) : fifo'[i].generation <= stamped[j].generation
      BY <3>1, <3>3 DEF OrderInv
    <3>6. /\ io'.generation \in 1 .. generation
          /\ \A j \in 1 .. Len(stamped) : io'.generation <= stamped[j].generation
          /\ templateKnown => io'.generation = generation
      BY <3>1 DEF OrderInv, Current
    <3>7. QED
      BY <2>1, <3>4, <3>5, <3>6 DEF OrderInv, Current
  <2>5. CASE FusedTaken(q)
    <3>1. PhysicalTaken /\ io'.generation = Head(fifo).generation
      BY <2>5 DEF FusedTaken, ForFront, Compatible
    <3>2. QED
      BY <2>4, <3>1
  <2>6. CASE PlainTaken
    BY <2>4, <2>6 DEF PlainTaken
  <2>7. QED
    BY <2>1, <2>3, <2>5, <2>6
<1>5. QED
  BY <1>2, <1>3, <1>4 DEF TakeReport

(* A completion changes no generation in the data queue.                   *)
LEMMA CompletionKeepsFifo ==
  ASSUME TypeOK, NEW success \in BOOLEAN, NEW exits \in BOOLEAN, Complete(success, exits)
  PROVE  /\ Len(fifo') = Len(fifo) /\ DOMAIN fifo' = DOMAIN fifo
         /\ \A i \in 1 .. Len(fifo) : /\ fifo'[i].generation = fifo[i].generation
                                      /\ fifo'[i].buttons = fifo[i].buttons
                                      /\ fifo'[i].match = fifo[i].match
<1>1. CASE fifo' = fifo
  BY <1>1
<1>2. CASE fifo # <<>> /\ fifo' = [fifo EXCEPT ![1].overtaken = @ + 1]
  <2> DEFINE r == [fifo[1] EXCEPT !.overtaken = @ + 1]
  <2>1. /\ 1 \in 1 .. Len(fifo) /\ fifo[1] \in Report
    BY <1>2, FifoLength
  <2>2. /\ r \in Report /\ r.generation = fifo[1].generation
        /\ r.buttons = fifo[1].buttons /\ r.match = fifo[1].match
    BY <2>1 DEF Report
  <2>3. fifo' = [fifo EXCEPT ![1] = r]
    BY <1>2
  <2> HIDE DEF r
  <2>4. /\ Len(fifo') = Len(fifo) /\ fifo' \in Seq(Report)
        /\ \A i \in 1 .. Len(fifo) : fifo'[i] = IF i = 1 THEN r ELSE fifo[i]
    BY <2>1, <2>2, <2>3, FifoLength, ExceptSeq
  <2>5. DOMAIN fifo' = DOMAIN fifo
    BY <2>4, FifoLength, LenProperties
  <2>6. QED
    BY <2>2, <2>4, <2>5
<1>3. QED
  BY <1>1, <1>2 DEF Complete, HostReceives

LEMMA OrderComplete ==
  ASSUME TypeOK, OrderInv, IoShape, NEW success \in BOOLEAN, NEW exits \in BOOLEAN,
         Complete(success, exits)
  PROVE  OrderInv'
<1>1. /\ writer = "writing" /\ writer' # "writing"
      /\ UNCHANGED <<stamped, generation, latestKnown>>
      /\ templateKnown' => templateKnown \/ Current(io)
  BY DEF Complete, CommitPhysical, CurrentLayout, Current
<1>2. /\ Len(fifo') = Len(fifo)
      /\ \A i \in 1 .. Len(fifo) : fifo'[i].generation = fifo[i].generation
  BY CompletionKeepsFifo
<1>3. ASSUME Current(io)
      PROVE  /\ \A i \in 1 .. Len(fifo) : Current(fifo[i])
             /\ \A j \in 1 .. Len(stamped) : Current(stamped[j])
  <2>1. /\ \A i \in 1 .. Len(fifo) :
             generation <= fifo[i].generation /\ fifo[i].generation \in 1 .. generation
        /\ \A j \in 1 .. Len(stamped) :
             generation <= stamped[j].generation /\ stamped[j].generation \in 1 .. generation
    BY <1>1, <1>3 DEF OrderInv, Current
  <2>2. QED
    BY <2>1, FifoLength DEF Current
<1>4. templateKnown' =>
        /\ \A i \in 1 .. Len(fifo') : Current(fifo[i])'
        /\ \A j \in 1 .. Len(stamped') : Current(stamped[j])'
  BY <1>1, <1>2, <1>3 DEF OrderInv, Current
<1>5. QED
  BY <1>1, <1>2, <1>4 DEF OrderInv, Current

LEMMA OrderStep ==
  ASSUME TypeOK, ThreadInv, FreshInv, IoShape, PhysicalInv, QueueInv, OrderInv, [Next]_vars
  PROVE  OrderInv'
<1>1. ASSUME UNCHANGED <<fifo, stamped, generation, latestKnown, templateKnown, writer, io>>
      PROVE  OrderInv'
  BY <1>1 DEF OrderInv, Current
<1>2. CASE UNCHANGED vars
  BY <1>1, <1>2 DEF vars
<1>3. CASE ClientStep
  <2>1. UNCHANGED <<fifo, stamped, generation, latestKnown, templateKnown, writer, io>>
    BY <1>3 DEF ClientStep, EnqueueOk, EnqueueQueueFull, ClearSynthetic, TakeWriterEvents,
                TakeWriterOverflow
  <2>2. QED
    BY <1>1, <2>1
<1>4. CASE ReaderStep
  BY <1>4, OrderReader
<1>5. CASE Take
  BY <1>5, OrderTake
<1>6. CASE WriteSucceeds \/ WriteFails \/ WriteFailsAndEnds
  BY <1>6, OrderComplete DEF WriteSucceeds, WriteFails, WriteFailsAndEnds
<1>7. CASE AppendEvent \/ WriterStops
  <2>1. /\ UNCHANGED <<fifo, stamped, generation, latestKnown, templateKnown>>
        /\ writer' # "writing"
    BY <1>7 DEF AppendEvent, WriterStops
  <2>2. QED
    BY <2>1 DEF OrderInv, Current
<1>8. CASE ControlStep
  <2>1. ASSUME UNCHANGED <<fifo, stamped, writer, io>>, generation' >= generation,
               generation' \in Nat, latestKnown' = FALSE, templateKnown' = FALSE
        PROVE  OrderInv'
    <3>1. \A g \in Nat : g \in 1 .. generation => g \in 1 .. generation'
      BY <2>1, FifoLength
    <3>2. /\ \A j \in 1 .. Len(stamped) : stamped[j].generation \in 1 .. generation'
          /\ \A i \in 1 .. Len(fifo) : fifo[i].generation \in 1 .. generation'
          /\ writer = "writing" => io.generation \in 1 .. generation'
      BY <3>1, FifoLength DEF OrderInv
    <3>3. /\ Len(stamped) <= 1
          /\ \A i, j \in 1 .. Len(fifo) : i < j => fifo[i].generation <= fifo[j].generation
          /\ \A i \in 1 .. Len(fifo), j \in 1 .. Len(stamped) :
               fifo[i].generation <= stamped[j].generation
          /\ writer = "writing" =>
               /\ \A i \in 1 .. Len(fifo) : io.generation <= fifo[i].generation
               /\ \A j \in 1 .. Len(stamped) : io.generation <= stamped[j].generation
      BY DEF OrderInv
    <3>4. QED
      BY <2>1, <3>2, <3>3 DEF OrderInv
  <2>2. ASSUME Invalidate PROVE OrderInv'
    <3>1. /\ generation' = nextGeneration + 1 /\ UNCHANGED <<fifo, stamped, writer, io>>
          /\ latestKnown' = FALSE /\ templateKnown' = FALSE
      BY <2>2 DEF Invalidate
    <3>2. generation' >= generation /\ generation' \in Nat
      BY <3>1, FifoLength DEF ThreadInv
    <3>3. QED
      BY <2>1, <3>1, <3>2
  <2>3. ASSUME NEW b, SetProtocol(b) PROVE OrderInv'
    BY <2>2, <2>3 DEF SetProtocol
  <2>4. ASSUME NEW learned, LearnDescriptor(learned) PROVE OrderInv'
    BY <1>1, <2>2, <2>4 DEF LearnDescriptor
  <2>5. ASSUME NEW learned, NEW b, Register(learned, b) PROVE OrderInv'
    <3>1. fifo' = <<>> /\ stamped' = <<>> /\ writer' = "idle"
      BY <2>5 DEF Register, ThreadInv
    <3>2. Len(fifo') = 0 /\ Len(stamped') = 0
      BY <3>1
    <3>3. QED
      BY <3>1, <3>2 DEF OrderInv
  <2>6. CASE SeedMouseReport
    <3>1. /\ fifo = <<>> /\ stamped = <<>> /\ UNCHANGED <<fifo, stamped, writer>>
          /\ writer = "idle"
      BY <2>6 DEF SeedMouseReport, PhysicalInv
    <3>2. Len(fifo') = 0 /\ Len(stamped') = 0
      BY <3>1
    <3>3. QED
      BY <3>1, <3>2 DEF OrderInv
  <2>7. CASE BeginTerminate
    BY <1>1, <2>7 DEF BeginTerminate
  <2>8. CASE Unregister
    <3>1. /\ UNCHANGED <<fifo, stamped, writer, io, generation>>
          /\ latestKnown' = FALSE /\ templateKnown' = FALSE
      BY <2>8 DEF Unregister, FreshEndpoint
    <3>2. generation' >= generation /\ generation' \in Nat
      BY <3>1, FifoLength
    <3>3. QED
      BY <2>1, <3>1, <3>2
  <2>9. CASE Join
    <3>1. fifo' = <<>> /\ stamped' = <<>> /\ writer' = "exited"
      BY <2>9 DEF Join
    <3>2. Len(fifo') = 0 /\ Len(stamped') = 0
      BY <3>1
    <3>3. QED
      BY <3>1, <3>2 DEF OrderInv
  <2>10. QED
    BY <1>8, <2>3, <2>4, <2>5, <2>6, <2>7, <2>8, <2>9 DEF ControlStep
<1>9. QED
  BY <1>2, <1>3, <1>4, <1>5, <1>6, <1>7, <1>8 DEF Next, WriterStep

LEMMA OrderCorrect == Spec => []OrderInv
<1>1. Init => OrderInv
  BY DEF Init, OrderInv
<1>2. /\ TypeOK /\ ThreadInv /\ FreshInv /\ IoShape /\ PhysicalInv /\ QueueInv /\ OrderInv
      /\ [Next]_vars
      => OrderInv'
  BY OrderStep
<1>3. QED
  BY <1>1, <1>2, TypeCorrect, ThreadCorrect, FreshCorrect, ShapeCorrect, PhysicalCorrect,
     QueueCorrect, PTL DEF Spec
-----------------------------------------------------------------------------
(* The layout in force has every button that is applied, waiting or being  *)
(* written under it.                                                       *)

Suits(r) == Compatible(r) => r.buttons \subseteq Supported

WireSuits ==
  /\ io.persistent \cup io.scheduled \subseteq Supported
  /\ io.match => io.physicalButtons \subseteq Supported
  /\ io.kind # "NONE" =>
       io.final = (IF io.physical THEN io.physicalButtons ELSE submittedPhysical)
                    \cup (io.persistent \cup io.scheduled)

SupportedInv ==
  Registered =>
    /\ persistent \cup scheduled \subseteq Supported
    /\ templateKnown => submittedPhysical \subseteq Supported
    /\ \A i \in 1 .. Len(fifo) : Suits(fifo[i])
    /\ \A j \in 1 .. Len(stamped) : Suits(stamped[j])
    /\ writer = "writing" /\ CurrentLayout => WireSuits

(* What a client's call leaves alone.                                      *)
supportedVars == <<phase, layout, generation, persistent, scheduled, templateKnown,
                   submittedPhysical, fifo, stamped, writer, io>>

LEMMA SupportedKept ==
  ASSUME SupportedInv, UNCHANGED supportedVars
  PROVE  SupportedInv'
BY DEF SupportedInv, supportedVars, Registered, Supported, Suits, Compatible, WireSuits,
       CurrentLayout

LEMMA SupportedReader ==
  ASSUME TypeOK, OrderInv, SupportedInv, ReaderStep
  PROVE  SupportedInv'
<1>1. /\ UNCHANGED <<phase, layout, generation, persistent, scheduled, templateKnown,
                     submittedPhysical, writer, io>>
      /\ Registered
  BY DEF ReaderStep, ReadPhysical, PushPhysical
<1>2. CASE \E r \in PhysicalReports : ReadPhysical(r)
  <2>1. PICK r \in PhysicalReports : ReadPhysical(r)
    BY <1>2
  <2> DEFINE read == [match |-> r.match, generation |-> generation,
                      buttons |-> r.buttons, x |-> r.x, overtaken |-> 0]
  <2>2. /\ stamped' = <<read>> /\ fifo' = fifo /\ read.match = r.match
        /\ read.buttons = r.buttons /\ (r.match => r.buttons \subseteq Supported)
    BY <2>1 DEF ReadPhysical
  <2> HIDE DEF read
  <2>3. Suits(read)
    BY <2>2 DEF Suits, Compatible
  <2>4. Len(stamped') = 1 /\ \A j \in 1 .. 1 : stamped'[j] = read
    BY <2>2
  <2>5. QED
    BY <1>1, <2>2, <2>3, <2>4
       DEF SupportedInv, Registered, Supported, Suits, Compatible, WireSuits, CurrentLayout
<1>3. CASE PushPhysical
  <2>1. /\ stamped # <<>> /\ stamped' = <<>> /\ fifo' = Append(fifo, Head(stamped))
    BY <1>3 DEF PushPhysical
  <2>2. /\ Head(stamped) = stamped[1] /\ stamped[1] \in Report /\ 1 \in 1 .. Len(stamped)
    BY <2>1, FifoLength
  <2>3. /\ Len(fifo') = Len(fifo) + 1 /\ fifo'[Len(fifo) + 1] = stamped[1]
        /\ \A i \in 1 .. Len(fifo) : fifo'[i] = fifo[i]
    BY <2>1, <2>2, FifoLength, AppendProperties
  <2>4. \A i \in 1 .. Len(fifo') : Suits(fifo'[i])
    <3>1. SUFFICES ASSUME NEW i \in 1 .. Len(fifo') PROVE Suits(fifo'[i])
      OBVIOUS
    <3>2. CASE i \in 1 .. Len(fifo)
      BY <1>1, <2>3, <3>2 DEF SupportedInv
    <3>3. CASE i = Len(fifo) + 1
      BY <1>1, <2>2, <2>3, <3>3 DEF SupportedInv
    <3>4. QED
      BY <2>3, <3>2, <3>3, FifoLength
  <2>5. Len(stamped') = 0
    BY <2>1
  <2>6. QED
    BY <1>1, <2>4, <2>5
       DEF SupportedInv, Registered, Supported, Suits, Compatible, WireSuits, CurrentLayout
<1>4. QED
  BY <1>2, <1>3 DEF ReaderStep

LEMMA SupportedTake ==
  ASSUME TypeOK, QueueInv, SupportedInv, Take
  PROVE  SupportedInv'
<1>1. PICK cutoff \in 0 .. nextItem - 1 : \E k \in 0 .. Len(synthetic) : TakeReport(cutoff, k)
  BY DEF Take
<1>2. PICK k \in 0 .. Len(synthetic) : TakeReport(cutoff, k)
  BY <1>1
<1>3. CASE TakeNothing(cutoff, k)
  <2>1. UNCHANGED supportedVars
    BY <1>3 DEF TakeNothing, supportedVars
  <2>2. QED
    BY <2>1, SupportedKept
<1>4. CASE TakePhysical(cutoff, k) \/ TakeStandalone(cutoff, k)
  <2> DEFINE q == synthetic'
  <2>1. /\ UNCHANGED <<phase, layout, generation, persistent, scheduled, templateKnown,
                       submittedPhysical, stamped>>
        /\ Registered /\ writer' = "writing"
        /\ AloneTaken(q) \/ FusedTaken(q) \/ PlainTaken
    BY <1>4, TakeCases DEF TakeKeeps, CanTake
  <2>2. ASSUME io'.item # NoItem PROVE io'.persistent \cup io'.scheduled \subseteq Supported
    <3>1. QueueInv'
      <4>1. Take
        OBVIOUS
      <4>2. QED
        BY <4>1, QueueTake
    <3>2. /\ 1 \in 1 .. Len(q) /\ io'.persistent = q[1].persistent
          /\ io'.scheduled = q[1].scheduled
      <4>1. Len(q) > 0 /\ Len(q) \in Nat
        BY <1>4, <2>2, TakenFront, TakeCases, AfterExpiryProperties, LenProperties DEF TypeOK
      <4>2. QED
        BY <1>4, <2>2, <4>1, TakenFront
    <3>3. Sound(synthetic[1])'
      BY <3>1, <3>2 DEF QueueInv
    <3>4. QED
      BY <2>1, <3>2, <3>3 DEF Sound, Encodable, Supported
  <2>3. ASSUME ForFront(q) PROVE io'.item # NoItem
    <3>1. Head(q) \in Item /\ io'.item = Head(q).id
      BY <1>4, <2>3, TakeCases, FrontItem DEF ForFront
    <3> HIDE DEF q
    <3>2. QED
      BY <3>1 DEF Item
  <2> HIDE DEF q
  <2>4. fifo # <<>> /\ fifo' = Tail(fifo) => \A i \in 1 .. Len(fifo') : Suits(fifo'[i])
    <3>1. SUFFICES ASSUME fifo # <<>>, fifo' = Tail(fifo), NEW i \in 1 .. Len(fifo')
                   PROVE  Suits(fifo'[i])
      OBVIOUS
    <3>2. i + 1 \in 1 .. Len(fifo) /\ fifo'[i] = fifo[i + 1]
      BY <3>1, FifoLength, HeadTailProperties
    <3>3. QED
      BY <2>1, <3>2 DEF SupportedInv
  <2>5. fifo # <<>> => Suits(Head(fifo))
    BY <2>1, FifoLength DEF SupportedInv
  <2>6. ASSUME \A i \in 1 .. Len(fifo') : Suits(fifo'[i]), WireSuits' \/ ~CurrentLayout'
        PROVE  SupportedInv'
    BY <2>1, <2>6 DEF SupportedInv, Registered, Supported, Suits, Compatible
  <2>7. CASE AloneTaken(q)
    <3>1. /\ fifo' = fifo /\ io'.match = FALSE /\ io'.physical = FALSE
          /\ io'.persistent = Head(q).persistent /\ io'.scheduled = Head(q).scheduled
          /\ io'.final = submittedPhysical \cup Head(q).persistent \cup Head(q).scheduled
      BY <2>7 DEF AloneTaken, ForFront
    <3>2. io'.final = submittedPhysical' \cup (io'.persistent \cup io'.scheduled)
      BY <2>1, <3>1
    <3>3. io'.persistent \cup io'.scheduled \subseteq Supported'
      BY <2>1, <2>2, <2>3, <2>7 DEF AloneTaken, Supported
    <3>4. WireSuits'
      BY <3>1, <3>2, <3>3 DEF WireSuits
    <3>5. QED
      BY <2>1, <2>6, <3>1, <3>4 DEF SupportedInv
  <2>8. CASE FusedTaken(q)
    <3>1. /\ fifo # <<>> /\ fifo' = Tail(fifo) /\ io'.physical
          /\ io'.physicalButtons = Head(fifo).buttons /\ Compatible(Head(fifo))
          /\ io'.persistent = Head(q).persistent /\ io'.scheduled = Head(q).scheduled
          /\ io'.final = Head(fifo).buttons \cup (Head(q).persistent \cup Head(q).scheduled)
      BY <2>8 DEF FusedTaken, PhysicalTaken, ForFront
    <3>2. io'.final = io'.physicalButtons \cup (io'.persistent \cup io'.scheduled)
      BY <3>1
    <3>3. io'.persistent \cup io'.scheduled \subseteq Supported'
      BY <2>1, <2>2, <2>3, <2>8 DEF FusedTaken, Supported
    <3>4. io'.physicalButtons \subseteq Supported'
      BY <2>1, <2>5, <3>1 DEF Suits, Supported
    <3>5. WireSuits'
      BY <3>1, <3>2, <3>3, <3>4 DEF WireSuits
    <3>6. QED
      BY <2>4, <2>6, <3>1, <3>5
  <2>9. CASE PlainTaken
    <3>1. /\ fifo # <<>> /\ fifo' = Tail(fifo) /\ io'.match = Head(fifo).match
          /\ io'.physicalButtons = Head(fifo).buttons
          /\ io'.generation = Head(fifo).generation
          /\ io'.kind = "NONE" /\ io'.persistent = {} /\ io'.scheduled = {}
      BY <2>9 DEF PlainTaken, PhysicalTaken
    <3>2. CurrentLayout' /\ io'.match => io'.physicalButtons \subseteq Supported'
      BY <2>1, <2>5, <3>1 DEF Suits, Compatible, CurrentLayout, Supported
    <3>3. WireSuits' \/ ~CurrentLayout'
      BY <3>1, <3>2 DEF WireSuits
    <3>4. QED
      BY <2>4, <2>6, <3>1, <3>3
  <2>10. QED
    BY <2>1, <2>7, <2>8, <2>9
<1>5. QED
  BY <1>2, <1>3, <1>4 DEF TakeReport

LEMMA SupportedComplete ==
  ASSUME TypeOK, ThreadInv, OrderInv, InflightHeld, SupportedInv, IoShape,
         NEW success \in BOOLEAN, NEW exits \in BOOLEAN, Complete(success, exits)
  PROVE  SupportedInv'
<1>1. /\ writer = "writing" /\ writer' # "writing"
      /\ UNCHANGED <<phase, layout, generation, stamped, instance>>
  BY DEF Complete
<1>2. SUFFICES ASSUME Registered PROVE SupportedInv'
  BY <1>1 DEF SupportedInv, Registered
<1>3. Known
  BY <1>1, <1>2 DEF Known, ThreadInv
<1>4. /\ Len(fifo') = Len(fifo)
      /\ \A i \in 1 .. Len(fifo) : Suits(fifo[i])'
  <2>1. \A i \in 1 .. Len(fifo) : Suits(fifo[i])
    BY <1>2 DEF SupportedInv
  <2>2. QED
    BY <1>1, <2>1, CompletionKeepsFifo DEF Suits, Compatible, Supported
<1>5. (persistent \cup scheduled \subseteq Supported)'
  <2>1. \/ UNCHANGED <<persistent, scheduled>>
        \/ CurrentLayout /\ persistent' = io.persistent /\ scheduled' = io.scheduled
    BY <1>3 DEF Complete, CommitQueue, OfFront
  <2>2. QED
    BY <1>1, <1>2, <2>1 DEF SupportedInv, Supported, WireSuits
<1>6. templateKnown' => (submittedPhysical \subseteq Supported)'
  <2>1. CommitPhysical(success)
    BY <1>3 DEF Complete
  <2>2. templateKnown' => CurrentLayout \/ (~success /\ templateKnown)
    BY <1>1, <2>1 DEF CommitPhysical, OrderInv, Current, CurrentLayout
  <2>3. CASE success /\ io.physical /\ io.match
    BY <1>1, <1>2, <2>1, <2>2, <2>3 DEF CommitPhysical, SupportedInv, WireSuits, Supported
  <2>4. CASE ~(success /\ io.physical /\ io.match)
    <3>1. submittedPhysical' = submittedPhysical /\ (templateKnown' => templateKnown)
      BY <2>1, <2>4 DEF CommitPhysical, IoShape
    <3>2. QED
      BY <1>1, <1>2, <3>1 DEF SupportedInv, Supported
  <2>5. QED
    BY <2>3, <2>4
<1>7. \A j \in 1 .. Len(stamped') : Suits(stamped[j])'
  BY <1>1, <1>2 DEF SupportedInv, Suits, Compatible, Supported
<1>8. QED
  BY <1>1, <1>4, <1>5, <1>6, <1>7 DEF SupportedInv

LEMMA SupportedStep ==
  ASSUME TypeOK, ThreadInv, FreshInv, IoShape, PhysicalInv, InflightHeld, QueueInv, OrderInv,
         SupportedInv, [Next]_vars
  PROVE  SupportedInv'
<1>1. CASE UNCHANGED vars
  BY <1>1, SupportedKept DEF vars, supportedVars
<1>2. CASE ClientStep
  <2>1. UNCHANGED supportedVars
    BY <1>2 DEF ClientStep, EnqueueOk, EnqueueQueueFull, ClearSynthetic, TakeWriterEvents,
                TakeWriterOverflow, supportedVars
  <2>2. QED
    BY <2>1, SupportedKept
<1>3. CASE ReaderStep
  BY <1>3, SupportedReader
<1>4. CASE Take
  BY <1>4, SupportedTake
<1>5. CASE WriteSucceeds \/ WriteFails \/ WriteFailsAndEnds
  BY <1>5, SupportedComplete DEF WriteSucceeds, WriteFails, WriteFailsAndEnds
<1>6. CASE AppendEvent \/ WriterStops
  <2>1. /\ UNCHANGED <<phase, layout, generation, persistent, scheduled, templateKnown,
                       submittedPhysical, fifo, stamped>>
        /\ writer' # "writing"
    BY <1>6 DEF AppendEvent, WriterStops
  <2>2. QED
    BY <2>1 DEF SupportedInv, Registered, Supported, Suits, Compatible
<1>7. CASE ControlStep
  <2>1. ASSUME Invalidate PROVE SupportedInv'
    <3>1. /\ generation' = nextGeneration + 1 /\ persistent' = {} /\ scheduled' = {}
          /\ templateKnown' = FALSE /\ UNCHANGED <<fifo, stamped, writer, io>>
      BY <2>1 DEF Invalidate
    <3>2. generation' > generation
      BY <3>1, FifoLength DEF ThreadInv
    <3>3. /\ \A i \in 1 .. Len(fifo) : fifo[i].generation # generation'
          /\ \A j \in 1 .. Len(stamped) : stamped[j].generation # generation'
          /\ writer = "writing" => io.generation # generation'
      BY <3>2, FifoLength DEF OrderInv
    <3>4. QED
      BY <3>1, <3>3 DEF SupportedInv, Suits, Compatible, CurrentLayout
  <2>2. ASSUME NEW b, SetProtocol(b) PROVE SupportedInv'
    BY <2>1, <2>2 DEF SetProtocol
  <2>3. ASSUME NEW learned, LearnDescriptor(learned) PROVE SupportedInv'
    <3>1. CASE boot
      BY <2>3, <3>1, SupportedKept DEF LearnDescriptor, supportedVars
    <3>2. CASE ~boot
      BY <2>1, <2>3, <3>2 DEF LearnDescriptor
    <3>3. QED
      BY <3>1, <3>2
  <2>4. ASSUME NEW learned, NEW b, Register(learned, b) PROVE SupportedInv'
    <3>1. /\ fifo' = <<>> /\ stamped' = <<>> /\ writer' = "idle" /\ ~Registered
          /\ UNCHANGED <<persistent, scheduled, templateKnown>>
      BY <2>4 DEF Register, ThreadInv, Registered
    <3>2. Len(fifo') = 0 /\ Len(stamped') = 0
      BY <3>1
    <3>3. persistent' = {} /\ scheduled' = {} /\ ~templateKnown'
      BY <3>1 DEF FreshInv
    <3>4. QED
      BY <3>1, <3>2, <3>3 DEF SupportedInv
  <2>5. CASE SeedMouseReport
    <3>1. /\ UNCHANGED <<phase, layout, generation, persistent, scheduled, fifo, stamped, writer>>
          /\ submittedPhysical' = {} /\ writer = "idle"
      BY <2>5 DEF SeedMouseReport
    <3>2. QED
      BY <3>1 DEF SupportedInv, Registered, Supported, Suits, Compatible
  <2>6. CASE BeginTerminate
    <3>1. /\ UNCHANGED <<layout, generation, persistent, scheduled, templateKnown,
                         submittedPhysical, fifo, stamped, writer, io>>
          /\ Registered
      BY <2>6 DEF BeginTerminate, Registered
    <3>2. QED
      BY <3>1 DEF SupportedInv, Supported, Suits, Compatible, WireSuits, CurrentLayout
  <2>7. CASE Unregister \/ Join
    BY <2>7 DEF Unregister, Join, SupportedInv, Registered
  <2>8. QED
    BY <1>7, <2>2, <2>3, <2>4, <2>5, <2>6, <2>7 DEF ControlStep
<1>8. QED
  BY <1>1, <1>2, <1>3, <1>4, <1>5, <1>6, <1>7 DEF Next, WriterStep

LEMMA SupportedCorrect == Spec => []SupportedInv
<1>1. Init => SupportedInv
  BY DEF Init, SupportedInv, Registered
<1>2. /\ TypeOK /\ ThreadInv /\ FreshInv /\ IoShape /\ PhysicalInv /\ InflightHeld /\ QueueInv
      /\ OrderInv /\ SupportedInv /\ [Next]_vars
      => SupportedInv'
  BY SupportedStep
<1>3. QED
  BY <1>1, <1>2, TypeCorrect, ThreadCorrect, FreshCorrect, ShapeCorrect, PhysicalCorrect,
     InflightIsHeld, QueueCorrect, OrderCorrect, PTL DEF Spec
-----------------------------------------------------------------------------
(* The mapping of sequences.                                               *)

Entry == [kind : Kinds, key : Nat, button : {NoButton} \cup Buttons,
          persistent : SUBSET Buttons, scheduled : SUBSET Buttons,
          latest : BOOLEAN, left : Int, committed : BOOLEAN]

LEMMA EntryType ==
  ASSUME NEW item \in Item
  PROVE  AbstractEntry(item) \in Entry
  BY DEF Item, AbstractEntry, Entry

LEMMA EntriesProperties ==
  ASSUME NEW q \in Seq(Item)
  PROVE  /\ AbstractEntries(q) \in Seq(Entry)
         /\ Len(AbstractEntries(q)) = Len(q)
         /\ \A j \in 1 .. Len(q) : AbstractEntries(q)[j] = AbstractEntry(q[j])
         /\ (q = <<>> <=> AbstractEntries(q) = <<>>)
<1>1. Len(q) \in Nat /\ DOMAIN q = 1 .. Len(q) /\ \A j \in 1 .. Len(q) : q[j] \in Item
  BY LenProperties, ElementOfSeq
<1>2. \A j \in 1 .. Len(q) : AbstractEntry(q[j]) \in Entry
  BY <1>1, EntryType
<1>3. AbstractEntries(q) = [j \in 1 .. Len(q) |-> AbstractEntry(q[j])]
  BY <1>1 DEF AbstractEntries
<1> HIDE DEF AbstractEntries
<1>4. AbstractEntries(q) \in Seq(Entry)
  BY <1>1, <1>2, <1>3 DEF Seq
<1>5. Len(AbstractEntries(q)) = Len(q)
  BY <1>1, <1>3, <1>4, LenProperties
<1>6. \A j \in 1 .. Len(q) : AbstractEntries(q)[j] = AbstractEntry(q[j])
  BY <1>3
<1>7. QED
  BY <1>4, <1>5, <1>6, EmptySeq

(* Two queues that hold the same entries are the same.                     *)
LEMMA SameEntries ==
  ASSUME NEW p \in Seq(Entry), NEW q \in Seq(Item), Len(p) = Len(q),
         \A j \in 1 .. Len(q) : p[j] = AbstractEntry(q[j])
  PROVE  p = AbstractEntries(q)
  BY EntriesProperties, SeqEqual

LEMMA AbstractQueueProperties ==
  ASSUME TypeOK
  PROVE  /\ AbstractQueue \in Seq(Entry) /\ Len(AbstractQueue) = Len(synthetic)
         /\ DOMAIN AbstractQueue = 1 .. Len(synthetic)
         /\ \A j \in 1 .. Len(synthetic) : AbstractQueue[j] = AbstractEntry(synthetic[j])
         /\ synthetic # <<>> => Head(AbstractQueue) = AbstractEntry(synthetic[1])
<1>1. synthetic \in Seq(Item)
  BY DEF TypeOK
<1>2. /\ AbstractQueue \in Seq(Entry) /\ Len(AbstractQueue) = Len(synthetic)
      /\ \A j \in 1 .. Len(synthetic) : AbstractQueue[j] = AbstractEntry(synthetic[j])
      /\ (synthetic = <<>> <=> AbstractQueue = <<>>)
  BY <1>1, EntriesProperties DEF AbstractQueue
<1>3. QED
  BY <1>2, QueueLength, LenProperties, HeadTailProperties

(* An entry has a report to be written exactly when its item has.          *)
LEMMA EntryToWrite ==
  ASSUME NEW item \in Item
  PROVE  /\ Output!HasMasksToWrite(AbstractEntry(item)) <=> NeedsButtons(item)
         /\ Output!Empty(AbstractEntry(item)) <=> item.x = 0 /\ ~NeedsButtons(item)
         /\ Output!Empty(Output!GivenUp(AbstractEntry(item))) <=> ~NeedsButtons(item)
         /\ AbstractEntry([item EXCEPT !.x = 0]) = Output!GivenUp(AbstractEntry(item))
<1>1. \A e \in Entry : /\ Output!GivenUp(e) \in Entry
                       /\ Output!GivenUp(e).left = 0
                       /\ Output!HasMasksToWrite(Output!GivenUp(e)) <=> Output!HasMasksToWrite(e)
  BY DEF Output!GivenUp, Output!HasMasksToWrite, Output!Masks, Entry
<1>2. Output!HasMasksToWrite(AbstractEntry(item)) <=> NeedsButtons(item)
  BY DEF Output!HasMasksToWrite, Output!Masks, Output!Forced, AbstractEntry, AppliedMasks,
         NeedsButtons, ForcedKinds, TransactionKinds
<1>3. AbstractEntry([item EXCEPT !.x = 0]) = Output!GivenUp(AbstractEntry(item))
  BY DEF Item, AbstractEntry, Output!GivenUp
<1>4. AbstractEntry(item).left = item.x
  BY DEF AbstractEntry
<1>5. QED
  BY <1>1, <1>2, <1>3, <1>4, EntryType DEF Output!Empty
-----------------------------------------------------------------------------
(* What a step that leaves the mixer's variables alone leaves alone.       *)

Step == Output!CallerStep(Commands) \/ Output!OutputStep \/ Output!Seed
Stutter == UNCHANGED Output!outputVars

LEMMA WireKept ==
  ASSUME UNCHANGED <<writer, io>>
  PROVE  AbstractWire' = AbstractWire
  BY DEF AbstractWire, AbstractReport

LEMMA ToldKept ==
  ASSUME UNCHANGED <<pendingEvent, eventVars>>
  PROVE  AbstractTold' = AbstractTold /\ AbstractLog' = AbstractLog
  BY DEF AbstractTold, AbstractLog

LEMMA StaleKept ==
  ASSUME UNCHANGED <<nextGeneration, fifo, stamped>>
  PROVE  StaleWaiting' = StaleWaiting
  BY DEF StaleWaiting, Waiting

LEMMA QueueKept ==
  ASSUME UNCHANGED synthetic
  PROVE  AbstractQueue' = AbstractQueue
  BY DEF AbstractQueue

LEMMA MasksKept ==
  ASSUME UNCHANGED <<persistent, scheduled>>
  PROVE  AppliedMasks' = AppliedMasks
  BY DEF AppliedMasks

LEMMA ReadyKept ==
  ASSUME UNCHANGED <<phase, selected, latestKnown>>
  PROVE  Ready' = Ready
  BY DEF Ready, Registered

LEMMA HeldKept ==
  ASSUME UNCHANGED inflight
  PROVE  Held' = Held
  BY DEF Held

LEMMA OutputKept ==
  ASSUME UNCHANGED <<phase, selected, latestKnown, nextGeneration, synthetic, inflight,
                     writer, io, templateKnown, persistent, scheduled, submittedPhysical,
                     hostButtons, pendingEvent, eventVars>>,
         StaleWaiting' = StaleWaiting
  PROVE  Stutter
  BY WireKept, ToldKept, QueueKept, MasksKept, ReadyKept, HeldKept DEF Stutter, Output!outputVars

LEMMA StuttersKept ==
  ASSUME UNCHANGED vars
  PROVE  Stutter
  BY OutputKept, StaleKept DEF vars

-----------------------------------------------------------------------------
(* The callers.                                                            *)

LEMMA EnqueueAccepts ==
  ASSUME TypeOK, ThreadInv, InflightHeld, NEW c \in Commands,
         NEW a \in {NoGuard} \cup 0 .. activity, NEW g, EnqueueOk(c, a, g)
  PROVE  Output!Accept(c)
<1>1. PICK k \in 0 .. Len(synthetic) :
        /\ \A j \in k + 1 .. Len(synthetic) : Superseded(c, synthetic[j])
        /\ k < MaxSynthetic
        /\ Len(synthetic') = k + 1 /\ synthetic'[k + 1] = NewItem(c, a)
        /\ \A i \in 1 .. k : synthetic'[i] = synthetic[i]
  BY AcceptedQueue
<1>2. synthetic \in Seq(Item) /\ Len(synthetic) \in Nat
  BY QueueLength
<1>3. Ready
  BY DEF EnqueueOk, Accepts
<1>4. AbstractEntry(NewItem(c, a)) = Output!Queued(c)
  BY DEF AbstractEntry, NewItem, Output!Queued
<1>5. synthetic' \in Seq(Item)
  <2>1. PICK m \in 0 .. Len(synthetic) :
          synthetic' = Append(SubSeq(synthetic, 1, m), NewItem(c, a))
    BY DEF EnqueueOk
  <2>2. SubSeq(synthetic, 1, m) \in Seq(Item)
    BY <1>2, FrontProperties
  <2>3. QED
    BY <2>1, <2>2, NewItemType, AppendProperties
<1>6. AbstractQueue' = Append(SubSeq(AbstractQueue, 1, k), Output!Queued(c))
  <2> DEFINE front == SubSeq(AbstractQueue, 1, k)
             p == Append(front, Output!Queued(c))
  <2>1. /\ AbstractQueue \in Seq(Entry) /\ Len(AbstractQueue) = Len(synthetic)
        /\ \A j \in 1 .. Len(synthetic) : AbstractQueue[j] = AbstractEntry(synthetic[j])
    BY AbstractQueueProperties
  <2>2. front \in Seq(Entry) /\ Len(front) = k /\ \A i \in 1 .. k : front[i] = AbstractQueue[i]
    BY <2>1, FrontProperties
  <2>3. Output!Queued(c) \in Entry
    BY <1>4, NewItemType, EntryType
  <2> HIDE DEF front
  <2>4. /\ p \in Seq(Entry) /\ Len(p) = k + 1 /\ p[k + 1] = Output!Queued(c)
        /\ \A i \in 1 .. k : p[i] = front[i]
    BY <2>2, <2>3, AppendProperties
  <2> HIDE DEF p
  <2>5. \A j \in 1 .. Len(synthetic') : p[j] = AbstractEntry(synthetic'[j])
    <3>1. \A j \in 1 .. k : p[j] = AbstractEntry(synthetic'[j])
      BY <1>1, <1>2, <2>1, <2>2, <2>4
    <3>2. p[k + 1] = AbstractEntry(synthetic'[k + 1])
      BY <1>1, <1>4, <2>4
    <3>3. QED
      BY <1>1, <1>2, <3>1, <3>2
  <2>6. p = AbstractEntries(synthetic')
    BY <1>1, <1>5, <2>4, <2>5, SameEntries
  <2>7. QED
    BY <2>6 DEF AbstractQueue, p, front
<1>7. k = Len(AbstractQueue) \/ Output!Replaceable(c, k)
  <2>1. CASE k = Len(synthetic)
    BY <2>1, AbstractQueueProperties
  <2>2. CASE k # Len(synthetic)
    <3>1. k + 1 \in k + 1 .. Len(synthetic)
      BY <1>1, <1>2, <2>2
    <3>2. c.latest
      BY <1>1, <3>1 DEF Superseded
    <3>3. Held => k > 0
      <4>1. ASSUME Held, k = 0 PROVE FALSE
        <5>1. Head(synthetic).id = inflight /\ synthetic # <<>>
          BY <4>1 DEF Held, InflightHeld
        <5>2. Superseded(c, synthetic[1])
          BY <1>1, <3>1, <4>1
        <5>3. QED
          BY <5>1, <5>2, QueueLength DEF Superseded
      <4>2. QED
        BY <1>1, <4>1
    <3>4. \A j \in k + 1 .. Len(AbstractQueue) :
            AbstractQueue[j].latest /\ AbstractQueue[j].kind = "MOVEMENT"
      <4>1. \A j \in k + 1 .. Len(synthetic) :
              AbstractQueue[j] = AbstractEntry(synthetic[j])
              /\ synthetic[j].latest /\ synthetic[j].kind = "MOVEMENT"
        BY <1>1, <1>2, AbstractQueueProperties DEF Superseded
      <4>2. QED
        BY <4>1, AbstractQueueProperties DEF AbstractEntry
    <3>5. QED
      BY <3>2, <3>3, <3>4 DEF Output!Replaceable
  <2>3. QED
    BY <2>1, <2>2
<1>8. k \in 0 .. Len(AbstractQueue)
  BY <1>1, AbstractQueueProperties
<1>9. UNCHANGED <<nextGeneration, Ready, StaleWaiting, Held, AbstractWire, templateKnown,
                  AppliedMasks, submittedPhysical, hostButtons, AbstractTold, AbstractLog,
                  overflow>>
  <2>1. UNCHANGED <<layoutVars, endpointVars, physicalVars, writtenVars, inflight,
                 fifo, stamped, writerVars, eventVars, hostVars>>
    BY DEF EnqueueOk
  <2>2. QED
    BY <2>1, WireKept, ToldKept, StaleKept, MasksKept, ReadyKept, HeldKept
<1>10. QED
  BY <1>1, <1>3, <1>6, <1>7, <1>8, <1>9 DEF Output!Accept

LEMMA RefusedStutters ==
  ASSUME TypeOK, QueueInv, NEW c, NEW a, NEW g, EnqueueQueueFull(c, a, g)
  PROVE  Stutter
<1>1. PICK k \in 0 .. Len(synthetic) :
        k >= MaxSynthetic /\ synthetic' = SubSeq(synthetic, 1, k)
  BY RefusedQueue
<1>2. k = Len(synthetic)
  <2>1. Len(synthetic) \in Nat /\ MaxSynthetic \in Nat /\ Len(synthetic) <= MaxSynthetic
    BY QueueLength, LimitsAssumption DEF QueueInv
  <2>2. QED
    BY <1>1, <2>1
<1>3. synthetic' = synthetic
  BY <1>1, <1>2, QueueLength, SubSeqFull
<1>4. QED
  BY <1>3, OutputKept, StaleKept DEF EnqueueQueueFull

LEMMA ClientRefines ==
  ASSUME TypeOK, ThreadInv, InflightHeld, QueueInv, ClientStep
  PROVE  Step \/ Stutter
<1>1. CASE \E c \in Commands, a \in {NoGuard} \cup 0 .. activity, g \in 0 .. generation :
             EnqueueOk(c, a, g) \/ EnqueueQueueFull(c, a, g)
  <2>1. PICK c \in Commands, a \in {NoGuard} \cup 0 .. activity, g \in 0 .. generation :
          EnqueueOk(c, a, g) \/ EnqueueQueueFull(c, a, g)
    BY <1>1
  <2>2. CASE EnqueueOk(c, a, g)
    BY <2>2, EnqueueAccepts DEF Step, Output!CallerStep
  <2>3. CASE EnqueueQueueFull(c, a, g)
    BY <2>3, RefusedStutters
  <2>4. QED
    BY <2>1, <2>2, <2>3
<1>2. CASE ClearSynthetic
  <2>1. CASE Registered /\ selected
    <3>1. AbstractQueue' = <<>>
      <4>1. synthetic' = <<>>
        BY <1>2, <2>1 DEF ClearSynthetic, DropSynthetic
      <4>2. <<>> \in Seq(Item)
        OBVIOUS
      <4>3. QED
        BY <4>1, <4>2, EntriesProperties DEF AbstractQueue
    <3>2. Held' = FALSE
      BY <1>2, <2>1 DEF ClearSynthetic, DropSynthetic, Held
    <3>3. UNCHANGED <<nextGeneration, Ready, StaleWaiting, AbstractWire, templateKnown,
                      AppliedMasks, submittedPhysical, hostButtons, AbstractTold, AbstractLog,
                      overflow>>
      BY <1>2, WireKept, ToldKept, StaleKept, MasksKept, ReadyKept DEF ClearSynthetic
    <3>4. Output!Clear
      BY <3>1, <3>2, <3>3 DEF Output!Clear
    <3>5. QED
      BY <3>4 DEF Step, Output!CallerStep
  <2>2. CASE ~(Registered /\ selected)
    BY <1>2, <2>2, OutputKept, StaleKept DEF ClearSynthetic
  <2>3. QED
    BY <2>1, <2>2
<1>3. CASE TakeWriterEvents
  <2>1. AbstractLog' = <<>>
    BY <1>3 DEF TakeWriterEvents, AbstractLog, AbstractEvents
  <2>2. AbstractTold' = AbstractTold
    BY <1>3 DEF TakeWriterEvents, AbstractTold
  <2>3. UNCHANGED <<nextGeneration, Ready, StaleWaiting, AbstractQueue, Held, AbstractWire,
                    templateKnown, AppliedMasks, submittedPhysical, hostButtons, overflow>>
    BY <1>3, WireKept, StaleKept, QueueKept, MasksKept, ReadyKept, HeldKept DEF TakeWriterEvents
  <2>4. Output!TakeEvents
    BY <2>1, <2>2, <2>3 DEF Output!TakeEvents
  <2>5. QED
    BY <2>4 DEF Step, Output!CallerStep
<1>4. CASE TakeWriterOverflow
  <2>1. AbstractLog' = AbstractLog /\ AbstractTold' = AbstractTold /\ overflow' = FALSE
    BY <1>4 DEF TakeWriterOverflow, AbstractTold, AbstractLog
  <2>2. UNCHANGED <<nextGeneration, Ready, StaleWaiting, AbstractQueue, Held, AbstractWire,
                    templateKnown, AppliedMasks, submittedPhysical, hostButtons>>
    BY <1>4, WireKept, StaleKept, QueueKept, MasksKept, ReadyKept, HeldKept
       DEF TakeWriterOverflow
  <2>3. Output!TakeOverflow
    BY <2>1, <2>2 DEF Output!TakeOverflow
  <2>4. QED
    BY <2>3 DEF Step, Output!CallerStep
<1>5. QED
  BY <1>1, <1>2, <1>3, <1>4 DEF ClientStep

-----------------------------------------------------------------------------
(* The reader.                                                             *)

LEMMA ReadRefines ==
  ASSUME TypeOK, ThreadInv, NEW r \in PhysicalReports, ReadPhysical(r)
  PROVE  Step \/ Stutter
<1>1. StaleWaiting' = StaleWaiting
  <2>1. stamped = <<>> /\ DOMAIN stamped' = {1} /\ stamped'[1].generation = nextGeneration
    BY DEF ReadPhysical, ThreadInv
  <2>2. fifo' = fifo /\ nextGeneration' = nextGeneration /\ nextGeneration \in Nat
    BY DEF ReadPhysical, TypeOK
  <2>3. DOMAIN stamped = {}
    BY <2>1
  <2>4. Waiting' = Waiting \cup {stamped'[1]}
    BY <2>1, <2>2, <2>3 DEF Waiting
  <2>5. QED
    BY <2>1, <2>2, <2>4 DEF StaleWaiting
<1>2. UNCHANGED <<phase, nextGeneration, synthetic, inflight, writer, io, templateKnown,
                  persistent, scheduled, submittedPhysical, hostButtons, pendingEvent, eventVars>>
  BY DEF ReadPhysical
<1>3. CASE r.match /\ ~Ready
  <2>1. Ready'
    BY <1>3 DEF ReadPhysical, Ready, Registered
  <2>2. nextGeneration > 0
    BY DEF ReadPhysical, ThreadInv, Registered
  <2>3. UNCHANGED <<AbstractQueue, Held, AbstractWire, AppliedMasks, AbstractTold, AbstractLog>>
    BY <1>2, WireKept, ToldKept, QueueKept, MasksKept, HeldKept
  <2>4. Output!BecomeReady
    BY <1>1, <1>2, <1>3, <2>1, <2>2, <2>3 DEF Output!BecomeReady
  <2>5. QED
    BY <2>4 DEF Step, Output!OutputStep
<1>4. CASE r.match /\ Ready
  <2>1. UNCHANGED <<phase, selected, latestKnown>>
    BY <1>4 DEF ReadPhysical, Ready, TypeOK
  <2>2. QED
    BY <1>1, <1>2, <2>1, OutputKept
<1>5. CASE ~r.match
  <2>1. UNCHANGED <<phase, selected, latestKnown>>
    BY <1>5 DEF ReadPhysical
  <2>2. QED
    BY <1>1, <1>2, <2>1, OutputKept
<1>6. QED
  BY <1>3, <1>4, <1>5

LEMMA PushStutters ==
  ASSUME TypeOK, OrderInv, PushPhysical
  PROVE  Stutter
<1>1. /\ fifo \in Seq(Report) /\ stamped \in Seq(Report) /\ Len(stamped) <= 1
      /\ Len(fifo) \in Nat /\ Len(stamped) \in Nat /\ stamped # <<>>
      /\ DOMAIN fifo = 1 .. Len(fifo) /\ DOMAIN stamped = 1 .. Len(stamped)
      /\ Head(stamped) = stamped[1] /\ Len(stamped) # 0
  BY FifoLength DEF OrderInv, PushPhysical
<1>2. DOMAIN stamped = {1} /\ stamped[1] \in Report
  BY <1>1, FifoLength
<1>3. /\ Len(fifo') = Len(fifo) + 1 /\ fifo' \in Seq(Report)
      /\ \A i \in 1 .. Len(fifo) : fifo'[i] = fifo[i]
      /\ fifo'[Len(fifo) + 1] = stamped[1]
  BY <1>1, <1>2, AppendProperties DEF PushPhysical
<1>4. DOMAIN fifo' = 1 .. Len(fifo) + 1
  BY <1>3, LenProperties
<1>5. stamped' = <<>>
  BY DEF PushPhysical
<1>6. DOMAIN stamped' = {}
  BY <1>5
<1>7. Waiting' = Waiting
  <2>1. {fifo'[i] : i \in 1 .. Len(fifo) + 1} = {fifo[i] : i \in 1 .. Len(fifo)} \cup {stamped[1]}
    BY <1>1, <1>3
  <2>2. {stamped[j] : j \in DOMAIN stamped} = {stamped[1]}
    BY <1>2
  <2>3. {stamped'[j] : j \in DOMAIN stamped'} = {}
    BY <1>6
  <2>4. QED
    BY <1>1, <1>4, <2>1, <2>2, <2>3 DEF Waiting
<1>8. StaleWaiting' = StaleWaiting
  BY <1>7 DEF StaleWaiting, PushPhysical
<1>9. QED
  BY <1>8, OutputKept DEF PushPhysical

-----------------------------------------------------------------------------
(* The ep0 thread and the replay program.                                  *)

LEMMA EmptyQueue ==
  ASSUME synthetic' = <<>>
  PROVE  AbstractQueue' = <<>>
  BY DEF AbstractQueue, AbstractEntries

LEMMA NothingStale ==
  ASSUME fifo' = <<>>, stamped' = <<>>
  PROVE  ~StaleWaiting'
  BY DEF StaleWaiting, Waiting

(* What a new generation forgets.                                          *)
LEMMA Resets ==
  ASSUME nextGeneration < MaxGenerations, nextGeneration' = nextGeneration + 1,
         ~Ready', StaleWaiting' => nextGeneration > 0,
         synthetic' = <<>>, inflight' = NoItem, ~templateKnown',
         persistent' = {}, scheduled' = {},
         submittedPhysical' = submittedPhysical \/ submittedPhysical' = {},
         hostButtons' = hostButtons \/ hostButtons' = {},
         AbstractWire' = AbstractWire, UNCHANGED <<pendingEvent, eventVars>>,
         TypeOK'
  PROVE  Step
<1>1. Held' = FALSE /\ Ready' = FALSE /\ templateKnown' = FALSE
  BY DEF Held, TypeOK
<1>2. AppliedMasks' = Output!NoMasks
  BY DEF AppliedMasks, Output!NoMasks
<1>3. AbstractQueue' = <<>>
  BY EmptyQueue
<1>4. AbstractTold' = AbstractTold /\ AbstractLog' = AbstractLog /\ overflow' = overflow
  BY ToldKept
<1>5. StaleWaiting' \in BOOLEAN
  BY DEF StaleWaiting
<1>6. Output!Reset
  BY <1>1, <1>2, <1>3, <1>4, <1>5 DEF Output!Reset
<1>7. QED
  BY <1>6 DEF Step, Output!OutputStep

LEMMA InvalidateResets ==
  ASSUME TypeOK', ThreadInv, phase = "up", Invalidate
  PROVE  Step
<1>1. nextGeneration > 0
  BY DEF ThreadInv
<1>2. ~Ready'
  BY DEF Invalidate, Ready
<1>3. AbstractWire' = AbstractWire
  BY WireKept DEF Invalidate
<1>4. QED
  BY <1>1, <1>2, <1>3, Resets DEF Invalidate, DropSynthetic

LEMMA UnregisterResets ==
  ASSUME TypeOK', ThreadInv, Unregister
  PROVE  Step
<1>1. nextGeneration > 0 /\ nextGeneration < MaxGenerations
  BY DEF ThreadInv, Unregister
<1>2. ~Ready'
  BY DEF Unregister, FreshEndpoint, Ready
<1>3. AbstractWire' = AbstractWire
  BY WireKept DEF Unregister
<1>4. QED
  BY <1>1, <1>2, <1>3, Resets DEF Unregister, FreshEndpoint, DropSynthetic

LEMMA RegisterResets ==
  ASSUME TypeOK', ThreadInv, FreshInv, InflightHeld, NEW learned, NEW b, Register(learned, b)
  PROVE  Step
<1>1. ~Registered /\ writer = "exited" /\ writer' = "idle" /\ fifo = <<>> /\ stamped = <<>>
  BY DEF Register, ThreadInv, Registered
<1>2. /\ ~latestKnown /\ ~templateKnown /\ persistent = {} /\ scheduled = {}
      /\ synthetic = <<>> /\ inflight = NoItem
  BY <1>1 DEF FreshInv, InflightHeld
<1>3. ~Ready'
  BY <1>2 DEF Register, Ready
<1>4. AbstractWire' = AbstractWire
  BY <1>1 DEF AbstractWire
<1>5. ~StaleWaiting'
  <2>1. fifo' = <<>> /\ stamped' = <<>>
    BY <1>1 DEF Register
  <2>2. QED
    BY <2>1, NothingStale
<1>6. QED
  BY <1>2, <1>3, <1>4, <1>5, Resets DEF Register

LEMMA SeedRefines ==
  ASSUME ThreadInv, SeedMouseReport
  PROVE  Step
<1>1. ~Ready /\ Ready' /\ nextGeneration > 0
  BY DEF SeedMouseReport, Ready, Registered, ThreadInv
<1>2. UNCHANGED <<nextGeneration, StaleWaiting, AbstractQueue, Held, AbstractWire,
                  AppliedMasks, hostButtons, AbstractTold, AbstractLog, overflow>>
  BY WireKept, ToldKept, StaleKept, QueueKept, MasksKept, HeldKept DEF SeedMouseReport
<1>3. Output!Seed
  BY <1>1, <1>2 DEF Output!Seed, SeedMouseReport
<1>4. QED
  BY <1>3 DEF Step

LEMMA JoinRefines ==
  ASSUME Join
  PROVE  Step \/ Stutter
<1>1. StaleWaiting' = FALSE
  BY NothingStale DEF Join
<1>2. Ready' = Ready
  BY DEF Join, Ready, Registered
<1>3. UNCHANGED <<nextGeneration, AbstractQueue, Held, AbstractWire, templateKnown, AppliedMasks,
                  submittedPhysical, hostButtons, AbstractTold, AbstractLog, overflow>>
  BY WireKept, ToldKept, QueueKept, MasksKept, HeldKept DEF Join
<1>4. CASE StaleWaiting
  <2>1. Output!Discard
    BY <1>1, <1>2, <1>3, <1>4 DEF Output!Discard
  <2>2. QED
    BY <2>1 DEF Step, Output!OutputStep
<1>5. CASE ~StaleWaiting
  <2>1. StaleWaiting = FALSE
    BY <1>5 DEF StaleWaiting
  <2>2. QED
    BY <1>1, <1>2, <1>3, <2>1 DEF Stutter, Output!outputVars
<1>6. QED
  BY <1>4, <1>5

LEMMA ControlRefines ==
  ASSUME TypeOK', ThreadInv, FreshInv, InflightHeld, ControlStep
  PROVE  Step \/ Stutter
<1>1. CASE \E b \in BOOLEAN : SetProtocol(b)
  BY <1>1, InvalidateResets DEF SetProtocol
<1>2. CASE \E learned \in {"none", "report"} : LearnDescriptor(learned)
  <2>1. PICK learned \in {"none", "report"} : LearnDescriptor(learned)
    BY <1>2
  <2>2. CASE boot
    BY <2>1, <2>2, OutputKept, StaleKept DEF LearnDescriptor
  <2>3. CASE ~boot
    BY <2>1, <2>3, InvalidateResets DEF LearnDescriptor
  <2>4. QED
    BY <2>2, <2>3
<1>3. CASE \E learned \in {"none", "report"}, b \in BOOLEAN : Register(learned, b)
  BY <1>3, RegisterResets
<1>4. CASE SeedMouseReport
  BY <1>4, SeedRefines
<1>5. CASE BeginTerminate
  <2>1. Ready' = Ready
    BY <1>5 DEF BeginTerminate, Ready, Registered
  <2>2. UNCHANGED <<nextGeneration, StaleWaiting, AbstractQueue, Held, AbstractWire, templateKnown,
                    AppliedMasks, submittedPhysical, hostButtons, AbstractTold, AbstractLog,
                    overflow>>
    BY <1>5, WireKept, ToldKept, StaleKept, QueueKept, MasksKept, HeldKept DEF BeginTerminate
  <2>3. QED
    BY <2>1, <2>2 DEF Stutter, Output!outputVars
<1>6. CASE Unregister
  BY <1>6, UnregisterResets
<1>7. CASE Join
  BY <1>7, JoinRefines
<1>8. QED
  BY <1>1, <1>2, <1>3, <1>4, <1>5, <1>6, <1>7 DEF ControlStep

-----------------------------------------------------------------------------
(* The writer thread tells of a completion, and ends.                      *)

LEMMA EventsProperties ==
  ASSUME NEW es \in Seq(WriterEvent)
  PROVE  /\ AbstractEvents(es) \in Seq({AbstractEvent(e) : e \in WriterEvent})
         /\ Len(AbstractEvents(es)) = Len(es)
         /\ \A j \in 1 .. Len(es) : AbstractEvents(es)[j] = AbstractEvent(es[j])
         /\ (es = <<>> <=> AbstractEvents(es) = <<>>)
<1> DEFINE T == {AbstractEvent(e) : e \in WriterEvent}
<1>1. Len(es) \in Nat /\ DOMAIN es = 1 .. Len(es) /\ \A j \in 1 .. Len(es) : es[j] \in WriterEvent
  BY LenProperties, ElementOfSeq
<1>2. \A j \in 1 .. Len(es) : AbstractEvent(es[j]) \in T
  BY <1>1
<1>3. AbstractEvents(es) = [j \in 1 .. Len(es) |-> AbstractEvent(es[j])]
  BY <1>1 DEF AbstractEvents
<1> HIDE DEF AbstractEvents, T
<1>4. AbstractEvents(es) \in Seq(T)
  BY <1>1, <1>2, <1>3
<1>5. Len(AbstractEvents(es)) = Len(es)
  BY <1>1, <1>3, <1>4, LenProperties
<1>6. \A j \in 1 .. Len(es) : AbstractEvents(es)[j] = AbstractEvent(es[j])
  BY <1>3
<1>7. QED
  BY <1>4, <1>5, <1>6, EmptySeq DEF T

LEMMA EventsAppended ==
  ASSUME NEW p \in Seq(WriterEvent), NEW q \in Seq(WriterEvent)
  PROVE  AbstractEvents(p \o q) = AbstractEvents(p) \o AbstractEvents(q)
<1> DEFINE T == {AbstractEvent(e) : e \in WriterEvent}
           a == AbstractEvents(p)
           b == AbstractEvents(q)
           c == p \o q
<1>1. /\ a \in Seq(T) /\ Len(a) = Len(p) /\ \A j \in 1 .. Len(p) : a[j] = AbstractEvent(p[j])
      /\ b \in Seq(T) /\ Len(b) = Len(q) /\ \A j \in 1 .. Len(q) : b[j] = AbstractEvent(q[j])
  BY EventsProperties
<1>2. Len(p) \in Nat /\ Len(q) \in Nat
  BY LenProperties
<1>3. /\ c \in Seq(WriterEvent) /\ Len(c) = Len(p) + Len(q)
      /\ \A j \in 1 .. Len(p) + Len(q) : c[j] = IF j <= Len(p) THEN p[j] ELSE q[j - Len(p)]
  BY ConcatProperties
<1> HIDE DEF c
<1>4. /\ AbstractEvents(c) \in Seq(T) /\ Len(AbstractEvents(c)) = Len(c)
      /\ \A j \in 1 .. Len(c) : AbstractEvents(c)[j] = AbstractEvent(c[j])
  BY <1>3, EventsProperties
<1> HIDE DEF a, b, T
<1>5. /\ a \o b \in Seq(T) /\ Len(a \o b) = Len(p) + Len(q)
      /\ \A j \in 1 .. Len(p) + Len(q) : (a \o b)[j] = IF j <= Len(p) THEN a[j] ELSE b[j - Len(p)]
  <2>1. /\ a \o b \in Seq(T) /\ Len(a \o b) = Len(a) + Len(b)
        /\ \A j \in 1 .. Len(a) + Len(b) : (a \o b)[j] = IF j <= Len(a) THEN a[j] ELSE b[j - Len(a)]
    <3>1. a \in Seq(T) /\ b \in Seq(T)
      BY <1>1
    <3>2. QED
      BY ONLY <3>1, ConcatProperties
  <2>2. QED
    BY ONLY <1>1, <2>1
<1>6. \A j \in 1 .. Len(p) + Len(q) : AbstractEvents(c)[j] = (a \o b)[j]
  <2>1. ASSUME NEW j \in 1 .. Len(p) + Len(q) PROVE AbstractEvents(c)[j] = (a \o b)[j]
    <3>1. CASE j <= Len(p)
      BY <1>1, <1>2, <1>3, <1>4, <1>5, <3>1
    <3>2. CASE ~(j <= Len(p))
      <4>1. j - Len(p) \in 1 .. Len(q)
        BY <1>2, <3>2
      <4>2. QED
        BY <1>1, <1>2, <1>3, <1>4, <1>5, <3>2, <4>1
    <3>3. QED
      BY <3>1, <3>2
  <2>2. QED
    BY <2>1
<1>7. AbstractEvents(c) = a \o b
  BY <1>3, <1>4, <1>5, <1>6, SeqEqual
<1>8. QED
  BY <1>7 DEF a, b, c

LEMMA AppendRefines ==
  ASSUME TypeOK, AppendEvent
  PROVE  Step \/ Stutter
<1>1. events \in Seq(WriterEvent) /\ pendingEvent \in Seq(WriterEvent) /\ overflow \in BOOLEAN
  BY DEF TypeOK
<1>2. AbstractWire' = AbstractWire
  BY DEF AppendEvent, AbstractWire
<1>3. AbstractTold' = <<>>
  BY DEF AppendEvent, AbstractTold, AbstractEvents
<1>4. UNCHANGED <<nextGeneration, Ready, StaleWaiting, AbstractQueue, Held, templateKnown,
                  AppliedMasks, submittedPhysical, hostButtons>>
  BY StaleKept, QueueKept, MasksKept, ReadyKept, HeldKept DEF AppendEvent
<1>5. CASE pendingEvent = <<>>
  <2>1. AbstractTold' = AbstractTold
    BY <1>5 DEF AppendEvent, AbstractTold
  <2>2. AbstractLog' = AbstractLog /\ overflow' = overflow
    BY <1>5 DEF AppendEvent, AbstractLog
  <2>3. QED
    BY <1>2, <1>4, <2>1, <2>2 DEF Stutter, Output!outputVars
<1>6. CASE pendingEvent # <<>>
  <2>1. AbstractTold # <<>> /\ Len(AbstractLog) = Len(events)
    BY <1>1, <1>6, EventsProperties DEF AbstractTold, AbstractLog
  <2>2. CASE Len(events) >= MaxEvents
    <3>1. overflow' = TRUE /\ AbstractLog' = AbstractLog
      BY <1>6, <2>2 DEF AppendEvent, AbstractLog
    <3>2. ~(Len(AbstractLog) < MaxEvents)
      BY <1>1, <2>1, <2>2, LimitsAssumption, LenProperties
    <3>3. Output!Tell
      BY <1>2, <1>3, <1>4, <2>1, <3>1, <3>2 DEF Output!Tell
    <3>4. QED
      BY <3>3 DEF Step, Output!OutputStep
  <2>3. CASE ~(Len(events) >= MaxEvents)
    <3>1. overflow' = overflow /\ AbstractLog' = AbstractLog \o AbstractTold
      BY <1>1, <1>6, <2>3, EventsAppended DEF AppendEvent, AbstractLog, AbstractTold
    <3>2. Len(AbstractLog) < MaxEvents
      BY <1>1, <2>1, <2>3, LimitsAssumption, LenProperties
    <3>3. Output!Tell
      BY <1>2, <1>3, <1>4, <2>1, <3>1, <3>2 DEF Output!Tell
    <3>4. QED
      BY <3>3 DEF Step, Output!OutputStep
  <2>4. QED
    BY <2>2, <2>3
<1>7. QED
  BY <1>5, <1>6

LEMMA StopStutters ==
  ASSUME WriterStops
  PROVE  Stutter
<1>1. AbstractWire' = AbstractWire
  BY DEF WriterStops, AbstractWire
<1>2. UNCHANGED <<nextGeneration, Ready, StaleWaiting, AbstractQueue, Held, templateKnown,
                  AppliedMasks, submittedPhysical, hostButtons, AbstractTold, AbstractLog,
                  overflow>>
  BY StaleKept, ToldKept, QueueKept, MasksKept, ReadyKept, HeldKept DEF WriterStops
<1>3. QED
  BY <1>1, <1>2 DEF Stutter, Output!outputVars

-----------------------------------------------------------------------------
(* The writer thread reports a completion.                                 *)

LEMMA WrittenFields ==
  ASSUME TypeOK, IoShape, writer = "writing"
  PROVE  LET w == Output!Written
         IN  /\ AbstractWire # <<>> /\ w = AbstractReport
             /\ w.generation = io.generation /\ w.kind = io.kind /\ w.key = io.key
             /\ w.button = io.button /\ w.blocked = io.blocked /\ w.motion = io.x
             /\ w.masks = [persistent |-> io.persistent, scheduled |-> io.scheduled]
             /\ Output!ButtonsOf(w.masks) = io.persistent \cup io.scheduled
             /\ w.carries = io.match
             /\ w.buttons = (IF io.match THEN io.physicalButtons ELSE {})
             /\ w.shown = (IF io.physical /\ ~io.match THEN {} ELSE io.shown)
             /\ (w.kind = "NONE" <=> io.item = NoItem)
<1>1. AbstractWire = <<AbstractReport>>
  BY DEF AbstractWire
<1> DEFINE w == Output!Written
<1>2. w = AbstractReport /\ AbstractWire # <<>>
  BY <1>1 DEF Output!Written
<1> HIDE DEF w
<1>3. /\ w.generation = io.generation /\ w.kind = io.kind /\ w.key = io.key
      /\ w.button = io.button /\ w.blocked = io.blocked /\ w.motion = io.x
      /\ w.masks = [persistent |-> io.persistent, scheduled |-> io.scheduled]
      /\ w.carries = (io.physical /\ io.match)
      /\ w.buttons = (IF io.match THEN io.physicalButtons ELSE {})
      /\ w.shown = (IF io.physical /\ ~io.match THEN {} ELSE io.shown)
  BY <1>2 DEF AbstractReport
<1>4. (io.physical /\ io.match) = io.match
  <2>1. io.match => io.physical
    BY DEF IoShape
  <2>2. io.match \in BOOLEAN /\ io.physical \in BOOLEAN
    BY DEF TypeOK, Io
  <2>3. QED
    BY <2>1, <2>2
<1>5. Output!ButtonsOf(w.masks) = io.persistent \cup io.scheduled
  BY <1>3 DEF Output!ButtonsOf
<1>6. io.kind = "NONE" <=> io.item = NoItem
  BY DEF IoShape
<1>7. QED
  BY <1>2, <1>3, <1>4, <1>5, <1>6 DEF w

(* A completion nobody knows of comes from an endpoint that has gone.      *)
LEMMA UnknownIsOld ==
  ASSUME TypeOK, ThreadInv, OrderInv, writer = "writing"
  PROVE  /\ io.generation \in Nat /\ nextGeneration \in Nat
         /\ Known => generation = nextGeneration /\ Registered
         /\ ~Known => io.generation < nextGeneration
<1>1. io.generation \in Nat /\ nextGeneration \in Nat /\ generation \in Nat
  BY FifoLength
<1>2. ASSUME Known PROVE generation = nextGeneration /\ Registered
  BY <1>2 DEF Known, ThreadInv
<1>3. ASSUME ~Known PROVE io.generation < nextGeneration
  <2>1. phase = "stopping"
    BY <1>3 DEF Known, ThreadInv, Registered, TypeOK
  <2>2. generation < nextGeneration /\ io.generation <= generation
    BY <2>1 DEF ThreadInv, OrderInv
  <2>3. QED
    BY <1>1, <2>2
<1>4. QED
  BY <1>1, <1>2, <1>3

LEMMA CompletionShown ==
  ASSUME TypeOK, ThreadInv, IoShape, OrderInv, NEW success \in BOOLEAN, NEW exits \in BOOLEAN,
         Complete(success, exits)
  PROVE  Output!HostSees(success)
<1>1. writer = "writing"
  BY DEF Complete
<1> DEFINE w == Output!Written
<1>2. /\ w.generation = io.generation /\ w.kind = io.kind /\ w.carries = io.match
      /\ w.buttons = (IF io.match THEN io.physicalButtons ELSE {})
      /\ w.shown = (IF io.physical /\ ~io.match THEN {} ELSE io.shown)
      /\ (w.kind = "NONE" <=> io.item = NoItem)
  BY <1>1, WrittenFields
<1>3. /\ io.match \in BOOLEAN /\ io.physical \in BOOLEAN /\ templateKnown \in BOOLEAN
  BY DEF TypeOK, Io
<1>4. hostButtons' = IF success /\ (w.carries \/ w.kind # "NONE") THEN w.shown ELSE hostButtons
  <2>1. CASE ~success
    BY <2>1 DEF Complete
  <2>2. CASE success /\ io.physical /\ ~io.match
    <3>1. w.kind = "NONE"
      BY <1>2, <2>2 DEF IoShape
    <3>2. hostButtons' = hostButtons
      BY <2>2 DEF Complete, HostReceives
    <3>3. QED
      BY <1>2, <2>2, <3>1, <3>2
  <2>3. CASE success /\ ~(io.physical /\ ~io.match)
    <3>1. w.carries \/ w.kind # "NONE"
      BY <1>1, <1>2, <1>3, <2>3 DEF IoShape
    <3>2. hostButtons' = io.shown
      BY <2>3 DEF Complete, HostReceives
    <3>3. QED
      BY <1>2, <2>3, <3>1, <3>2
  <2>4. QED
    BY <2>1, <2>2, <2>3
<1>5. IF success /\ w.carries
      THEN \/ submittedPhysical' = w.buttons
           \/ w.generation < nextGeneration /\ UNCHANGED submittedPhysical
      ELSE UNCHANGED submittedPhysical
  <2>1. CASE Known
    BY <1>2, <1>3, <2>1 DEF Complete, CommitPhysical, IoShape
  <2>2. CASE ~Known
    <3>1. w.generation < nextGeneration /\ UNCHANGED submittedPhysical
      BY <1>1, <1>2, <2>2, UnknownIsOld DEF Complete
    <3>2. QED
      BY <3>1
  <2>3. QED
    BY <2>1, <2>2
<1>6. templateKnown' = (templateKnown \/ (success /\ w.carries /\ w.generation = nextGeneration))
  <2>1. CASE Known
    <3>1. generation = nextGeneration
      BY <1>1, <2>1, UnknownIsOld
    <3>2. QED
      BY <1>2, <2>1, <3>1 DEF Complete, CommitPhysical, CurrentLayout
  <2>2. CASE ~Known
    <3>1. w.generation # nextGeneration
      BY <1>1, <1>2, <2>2, UnknownIsOld
    <3>2. templateKnown' = templateKnown
      BY <2>2 DEF Complete
    <3>3. QED
      BY <1>3, <3>1, <3>2
  <2>3. QED
    BY <2>1, <2>2
<1>7. QED
  BY <1>4, <1>5, <1>6 DEF Output!HostSees

LEMMA HeldIsFront ==
  ASSUME TypeOK, InflightHeld, writer = "writing"
  PROVE  /\ Held => Known /\ OfFront
         /\ Known /\ OfFront => Held
<1>1. ASSUME Held PROVE Known /\ OfFront
  BY <1>1 DEF Held, InflightHeld, Known, OfFront, CurrentLayout
<1>2. ASSUME OfFront PROVE Held
  BY <1>2 DEF OfFront, Held
<1>3. QED
  BY <1>1, <1>2

LEMMA EntriesDiffer ==
  ASSUME NEW p \in Entry, NEW q \in Entry,
         p.kind = q.kind, p.key = q.key, p.button = q.button, p.persistent = q.persistent,
         p.scheduled = q.scheduled, p.latest = q.latest, p.left = q.left,
         p.committed = q.committed
  PROVE  p = q
  BY DEF Entry

LEMMA EntryCommits ==
  ASSUME NEW item \in Item, NEW m \in Int
  PROVE  AbstractEntry([item EXCEPT !.committed = TRUE, !.x = m])
           = [AbstractEntry(item) EXCEPT !.committed = TRUE, !.left = m]
<1> DEFINE e == [item EXCEPT !.committed = TRUE, !.x = m]
           r == [kind |-> item.kind, key |-> item.key, button |-> item.button,
                 persistent |-> item.persistent, scheduled |-> item.scheduled,
                 latest |-> item.latest, left |-> m, committed |-> TRUE]
<1>1. /\ e.kind = item.kind /\ e.key = item.key /\ e.button = item.button
      /\ e.persistent = item.persistent /\ e.scheduled = item.scheduled
      /\ e.latest = item.latest /\ e.x = m /\ e.committed = TRUE
  BY DEF Item
<1> HIDE DEF e
<1>2. AbstractEntry(e) = r
  BY <1>1 DEF AbstractEntry
<1>3. [AbstractEntry(item) EXCEPT !.committed = TRUE, !.left = m] = r
  <2> DEFINE a == AbstractEntry(item)
             b == [a EXCEPT !.committed = TRUE, !.left = m]
  <2>1. /\ a \in Entry /\ a.kind = item.kind /\ a.key = item.key /\ a.button = item.button
        /\ a.persistent = item.persistent /\ a.scheduled = item.scheduled
        /\ a.latest = item.latest
    BY EntryType DEF AbstractEntry
  <2> HIDE DEF a
  <2>2. /\ b \in Entry
        /\ b.kind = a.kind /\ b.key = a.key /\ b.button = a.button
        /\ b.persistent = a.persistent /\ b.scheduled = a.scheduled
        /\ b.latest = a.latest /\ b.left = m /\ b.committed = TRUE
    BY <2>1 DEF Entry
  <2> HIDE DEF b
  <2>3. r \in Entry
    BY DEF Item, Entry
  <2>4. b = r
    BY <2>1, <2>2, <2>3, EntriesDiffer
  <2>5. QED
    BY <2>4 DEF a, b
<1>4. QED
  BY <1>2, <1>3 DEF e

(* The front entry after its report is the one the mixer commits.          *)
LEMMA RewrittenFront ==
  ASSUME TypeOK, IoShape, writer = "writing", OfFront
  PROVE  /\ Output!Rewritten = AbstractEntry(CommittedFront)
         /\ Output!Rewritten.left = 0 <=> Finished(CommittedFront)
<1>1. /\ Len(synthetic) > 0 /\ Head(synthetic) = synthetic[1] /\ synthetic[1] \in Item
      /\ CommittedFront.committed /\ CommittedFront.x = synthetic[1].x - io.x
      /\ CommittedFront \in Item
  BY CommittedFrontFields
<1>2. Head(AbstractQueue) = AbstractEntry(synthetic[1])
  BY <1>1, AbstractQueueProperties DEF OfFront
<1>3. Output!Written.motion = io.x
  BY WrittenFields
<1> DEFINE m == synthetic[1].x - io.x
<1>4. /\ CommittedFront = [synthetic[1] EXCEPT !.committed = TRUE, !.x = m]
      /\ m \in Int
  <2>1. io.x \in Int /\ synthetic[1].x \in Int
    BY <1>1 DEF TypeOK, Io, Item
  <2>2. m \in Int
    BY <2>1
  <2>3. Head(synthetic) = synthetic[1]
    BY <1>1
  <2>4. CommittedFront = [synthetic[1] EXCEPT !.committed = TRUE, !.x = m]
    BY <2>3 DEF CommittedFront
  <2>5. QED
    BY <2>2, <2>4
<1>5. Output!Rewritten = [AbstractEntry(synthetic[1]) EXCEPT !.committed = TRUE, !.left = m]
  <2>1. AbstractEntry(synthetic[1]).left = synthetic[1].x
    BY DEF AbstractEntry
  <2>2. QED
    BY <1>2, <1>3, <2>1 DEF Output!Rewritten
<1> HIDE DEF m
<1>6. Output!Rewritten = AbstractEntry(CommittedFront)
  <2>1. AbstractEntry([synthetic[1] EXCEPT !.committed = TRUE, !.x = m])
          = [AbstractEntry(synthetic[1]) EXCEPT !.committed = TRUE, !.left = m]
    BY <1>1, <1>4, EntryCommits
  <2>2. QED
    BY <1>4, <1>5, <2>1
<1>7. AbstractEntry(CommittedFront).left = CommittedFront.x
  BY DEF AbstractEntry
<1>8. QED
  BY <1>1, <1>6, <1>7 DEF Finished

LEMMA CompletionQueue ==
  ASSUME TypeOK, TypeOK', ThreadInv, IoShape, InflightHeld, QueueOrder,
         NEW success \in BOOLEAN, NEW exits \in BOOLEAN, Complete(success, exits)
  PROVE  /\ Held' = FALSE
         /\ IF Held /\ success
            THEN /\ AppliedMasks' = Output!Written.masks
                 /\ AbstractQueue' = IF Output!Rewritten.left = 0 THEN Tail(AbstractQueue)
                                     ELSE [AbstractQueue EXCEPT ![1] = Output!Rewritten]
            ELSE UNCHANGED <<AppliedMasks, AbstractQueue>>
<1>1. writer = "writing"
  BY DEF Complete
<1>2. inflight' = NoItem
  BY CompletionCases
<1>3. Held' = FALSE
  BY <1>2 DEF Held
<1>4. CASE Held /\ success
  <2>1. Known /\ OfFront /\ CommitQueue(TRUE)
    BY <1>1, <1>4, HeldIsFront DEF Complete
  <2>2. AppliedMasks' = Output!Written.masks
    BY <1>1, <2>1, WrittenFields DEF CommitQueue, AppliedMasks
  <2>3. /\ Output!Rewritten = AbstractEntry(CommittedFront)
        /\ Output!Rewritten.left = 0 <=> Finished(CommittedFront)
    BY <1>1, <2>1, RewrittenFront
  <2>4. /\ AbstractQueue \in Seq(Entry) /\ Len(AbstractQueue) = Len(synthetic)
        /\ \A j \in 1 .. Len(synthetic) : AbstractQueue[j] = AbstractEntry(synthetic[j])
        /\ Len(synthetic) \in Nat /\ Len(synthetic) > 0
    BY <2>1, AbstractQueueProperties, CommittedFrontFields, QueueLength
  <2>5. synthetic' \in Seq(Item)
    BY DEF TypeOK
  <2>6. CASE Finished(CommittedFront)
    <3>1. /\ Len(synthetic') = Len(synthetic) - 1
          /\ \A i \in 1 .. Len(synthetic) - 1 : synthetic'[i] = synthetic[i + 1]
      BY <2>1, <2>6, CommittedQueue
    <3> DEFINE p == Tail(AbstractQueue)
    <3>2. /\ p \in Seq(Entry) /\ Len(p) = Len(synthetic) - 1
          /\ \A i \in 1 .. Len(synthetic) - 1 : p[i] = AbstractQueue[i + 1]
      <4>1. AbstractQueue # <<>>
        BY <2>4, EmptySeq
      <4>2. QED
        BY <2>4, <4>1, HeadTailProperties
    <3> HIDE DEF p
    <3>3. \A i \in 1 .. Len(synthetic') : p[i] = AbstractEntry(synthetic'[i])
      <4>1. ASSUME NEW i \in 1 .. Len(synthetic') PROVE p[i] = AbstractEntry(synthetic'[i])
        <5>1. i \in 1 .. Len(synthetic) - 1 /\ i + 1 \in 1 .. Len(synthetic)
          BY <2>4, <3>1
        <5>2. QED
          BY <2>4, <3>1, <3>2, <5>1
      <4>2. QED
        BY <4>1
    <3>4. p = AbstractEntries(synthetic')
      BY <2>5, <3>1, <3>2, <3>3, SameEntries
    <3>5. AbstractQueue' = Tail(AbstractQueue)
      BY <3>4 DEF AbstractQueue, p
    <3>6. QED
      BY <1>3, <1>4, <2>2, <2>3, <2>6, <3>5
  <2>7. CASE ~Finished(CommittedFront)
    <3>1. /\ Len(synthetic') = Len(synthetic) /\ synthetic'[1] = CommittedFront
          /\ \A i \in 2 .. Len(synthetic) : synthetic'[i] = synthetic[i]
      BY <2>1, <2>7, CommittedQueue
    <3> DEFINE e == Output!Rewritten
               p == [AbstractQueue EXCEPT ![1] = e]
    <3>2. e \in Entry
      BY <2>1, <2>3, CommittedFrontFields, EntryType
    <3> HIDE DEF e
    <3>3. /\ p \in Seq(Entry) /\ Len(p) = Len(synthetic)
          /\ \A i \in 1 .. Len(synthetic) : p[i] = IF i = 1 THEN e ELSE AbstractQueue[i]
      <4>1. 1 \in 1 .. Len(AbstractQueue)
        BY <2>4
      <4>2. QED
        BY <2>4, <3>2, <4>1, ExceptSeq
    <3> HIDE DEF p
    <3>4. \A i \in 1 .. Len(synthetic') : p[i] = AbstractEntry(synthetic'[i])
      <4>1. ASSUME NEW i \in 1 .. Len(synthetic') PROVE p[i] = AbstractEntry(synthetic'[i])
        <5>1. i \in 1 .. Len(synthetic) /\ (i = 1 \/ i \in 2 .. Len(synthetic))
          BY <2>4, <3>1
        <5>2. CASE i = 1
          BY <2>3, <3>1, <3>3, <5>1, <5>2 DEF e
        <5>3. CASE i # 1
          BY <2>4, <3>1, <3>3, <5>1, <5>3
        <5>4. QED
          BY <5>2, <5>3
      <4>2. QED
        BY <4>1
    <3>5. p = AbstractEntries(synthetic')
      BY <2>5, <3>1, <3>3, <3>4, SameEntries
    <3>6. AbstractQueue' = [AbstractQueue EXCEPT ![1] = Output!Rewritten]
      BY <3>5 DEF AbstractQueue, p, e
    <3>7. QED
      BY <1>3, <1>4, <2>2, <2>3, <2>7, <3>6
  <2>8. QED
    BY <2>6, <2>7
<1>5. CASE ~(Held /\ success)
  <2>1. UNCHANGED <<persistent, scheduled, synthetic>>
    <3>1. CASE Known /\ OfFront
      BY <1>1, <1>5, <3>1, HeldIsFront DEF Complete, CommitQueue
    <3>2. CASE Known /\ ~OfFront
      BY <3>2 DEF Complete, CommitQueue
    <3>3. CASE ~Known
      BY <3>3 DEF Complete
    <3>4. QED
      BY <3>1, <3>2, <3>3
  <2>2. QED
    BY <1>3, <1>5, <2>1, MasksKept, QueueKept
<1>6. QED
  BY <1>4, <1>5

(* The event of a completion the mixer knows of.                           *)
LEMMA EventTold ==
  ASSUME TypeOK, ThreadInv, IoShape, InflightHeld, SupportedInv, writer = "writing",
         Known, CurrentLayout, NEW success \in BOOLEAN
  PROVE  Output!EventOf(success) = AbstractEvent(CompletionEvent(success))
<1> DEFINE w == Output!Written
           final == IF io.kind = "NONE" THEN {} ELSE io.final
<1>1. /\ w.generation = io.generation /\ w.kind = io.kind /\ w.key = io.key
      /\ w.button = io.button /\ w.blocked = io.blocked /\ w.motion = io.x
      /\ w.carries = io.match
      /\ Output!ButtonsOf(w.masks) = io.persistent \cup io.scheduled
      /\ w.buttons = (IF io.match THEN io.physicalButtons ELSE {})
  BY WrittenFields
<1>2. (success /\ Held /\ Output!Rewritten.left = 0)
        = (success /\ OfFront /\ Finished(CommittedFront))
  <2>1. Held <=> OfFront
    BY HeldIsFront
  <2>2. OfFront => (Output!Rewritten.left = 0 <=> Finished(CommittedFront))
    BY RewrittenFront
  <2>3. QED
    BY <2>1, <2>2
<1>3. (IF w.kind = "NONE" THEN {} ELSE Output!FinalButtons) = final
  <2>1. CASE io.kind = "NONE"
    BY <1>1, <2>1
  <2>2. CASE io.kind # "NONE"
    <3>1. io.final = (IF io.physical THEN io.physicalButtons ELSE submittedPhysical)
                       \cup (io.persistent \cup io.scheduled)
      BY <2>2 DEF SupportedInv, Known, WireSuits
    <3>2. io.match <=> io.physical
      BY <2>2 DEF IoShape, TypeOK, Io
    <3>3. Output!FinalButtons = io.final
      BY <1>1, <3>1, <3>2 DEF Output!FinalButtons
    <3>4. QED
      BY <1>1, <2>2, <3>3
  <2>3. QED
    BY <2>1, <2>2
<1> DEFINE finished == success /\ OfFront /\ Finished(CommittedFront)
<1>4. AbstractEvent(CompletionEvent(success))
        = [key |-> io.key, generation |-> io.generation, kind |-> io.kind,
           button |-> io.button, blocked |-> io.blocked, success |-> success,
           final |-> final, motion |-> io.x, finished |-> finished]
  BY DEF AbstractEvent, CompletionEvent
<1>5. Output!EventOf(success)
        = [key |-> io.key, generation |-> io.generation, kind |-> io.kind,
           button |-> io.button, blocked |-> io.blocked, success |-> success,
           final |-> final, motion |-> io.x, finished |-> finished]
  <2> HIDE DEF w, final, finished
  <2>1. Output!EventOf(success)
          = [key |-> w.key, generation |-> w.generation, kind |-> w.kind,
             button |-> w.button, blocked |-> w.blocked, success |-> success,
             final |-> IF w.kind = "NONE" THEN {} ELSE Output!FinalButtons,
             motion |-> w.motion,
             finished |-> success /\ Held /\ Output!Rewritten.left = 0]
    BY DEF Output!EventOf, w
  <2>2. (success /\ Held /\ Output!Rewritten.left = 0) = finished
    BY <1>2 DEF finished
  <2>3. QED
    BY <1>1, <1>3, <2>1, <2>2
<1>6. QED
  BY <1>4, <1>5

LEMMA CompletionTold ==
  ASSUME TypeOK, ThreadInv, IoShape, InflightHeld, OrderInv, SupportedInv,
         NEW success \in BOOLEAN, NEW exits \in BOOLEAN, Complete(success, exits)
  PROVE  AbstractTold' =
           IF Output!Written.generation = nextGeneration
              /\ (Output!Written.kind \in Output!Reported \/ ~success)
           THEN <<Output!EventOf(success)>> ELSE <<>>
<1>1. writer = "writing"
  BY DEF Complete
<1>2. Output!Written.generation = io.generation /\ Output!Written.kind = io.kind
  BY <1>1, WrittenFields
<1>3. Output!Reported = EventKinds
  BY DEF Output!Reported, Output!Forced, EventKinds, ForcedKinds, TransactionKinds
<1>4. ASSUME pendingEvent' = <<>> PROVE AbstractTold' = <<>>
  BY <1>4 DEF AbstractTold, AbstractEvents
<1>5. ASSUME NEW e \in WriterEvent, pendingEvent' = <<e>> PROVE AbstractTold' = <<AbstractEvent(e)>>
  BY <1>5 DEF AbstractTold, AbstractEvents
<1>6. CASE Known /\ CurrentLayout /\ (io.kind \in EventKinds \/ ~success)
  <2>1. pendingEvent' = <<CompletionEvent(success)>>
    BY <1>6 DEF Complete
  <2>2. AbstractTold' = <<Output!EventOf(success)>>
    BY <1>1, <1>5, <1>6, <2>1, CompletionEventType, EventTold
  <2>3. io.generation = nextGeneration
    BY <1>1, <1>6, UnknownIsOld DEF CurrentLayout
  <2>4. QED
    BY <1>2, <1>3, <1>6, <2>2, <2>3
<1>7. CASE ~(Known /\ CurrentLayout /\ (io.kind \in EventKinds \/ ~success))
  <2>1. pendingEvent' = <<>>
    BY <1>7 DEF Complete
  <2>2. ~(io.generation = nextGeneration /\ (io.kind \in EventKinds \/ ~success))
    <3>1. CASE Known
      BY <1>1, <1>7, <3>1, UnknownIsOld DEF CurrentLayout
    <3>2. CASE ~Known
      BY <1>1, <3>2, UnknownIsOld
    <3>3. QED
      BY <3>1, <3>2
  <2>3. QED
    BY <1>2, <1>3, <1>4, <2>1, <2>2
<1>8. QED
  BY <1>6, <1>7

LEMMA CompleteRefines ==
  ASSUME TypeOK, TypeOK', ThreadInv, IoShape, InflightHeld, QueueOrder, OrderInv, SupportedInv,
         NEW success \in BOOLEAN, NEW exits \in BOOLEAN, Complete(success, exits)
  PROVE  Step
<1>1. AbstractWire # <<>>
  BY WrittenFields DEF Complete
<1>2. AbstractWire' = <<>>
  BY DEF Complete, AbstractWire
<1>3. StaleWaiting' = StaleWaiting
  <2>1. /\ DOMAIN fifo' = DOMAIN fifo /\ DOMAIN fifo = 1 .. Len(fifo)
        /\ \A i \in 1 .. Len(fifo) : fifo'[i].generation = fifo[i].generation
    BY CompletionKeepsFifo, FifoLength
  <2>2. UNCHANGED <<stamped, nextGeneration>>
    BY DEF Complete
  <2>3. QED
    BY <2>1, <2>2 DEF StaleWaiting, Waiting
<1>4. UNCHANGED <<nextGeneration, Ready, AbstractLog, overflow>>
  BY ReadyKept DEF Complete, AbstractLog
<1>5. Output!Finish(success)
  BY <1>1, <1>2, <1>3, <1>4, CompletionShown, CompletionQueue, CompletionTold DEF Output!Finish
<1>6. QED
  BY <1>5 DEF Step, Output!OutputStep, Output!WriterFinishes

-----------------------------------------------------------------------------
(* The writer thread takes a report.                                       *)

(* The motion of the item that becomes the front one is given up.          *)
GivesUp(cutoff, k) == k < Len(synthetic) /\ Expired(synthetic[k + 1], cutoff)

LEMMA ExpirySkips ==
  ASSUME TypeOK, NEW cutoff, NEW k \in 0 .. Len(synthetic), ExpireCut(cutoff, k)
  PROVE  /\ Output!Skippable(k)
         /\ GivesUp(cutoff, k) => Output!MayGiveUp(k)
<1>1. /\ Len(AbstractQueue) = Len(synthetic) /\ Len(synthetic) \in Nat
      /\ \A j \in 1 .. Len(synthetic) : AbstractQueue[j] = AbstractEntry(synthetic[j])
      /\ \A j \in 1 .. Len(synthetic) : synthetic[j] \in Item
  BY AbstractQueueProperties, QueueLength
<1>2. \A j \in 1 .. k : MotionLeft(synthetic[j], cutoff) = 0 /\ ~NeedsButtons(synthetic[j])
  BY DEF ExpireCut, FrontCut
<1>3. k < Len(synthetic) =>
        ~(MotionLeft(synthetic[k + 1], cutoff) = 0 /\ ~NeedsButtons(synthetic[k + 1]))
  BY DEF ExpireCut, FrontCut
<1>4. ASSUME NEW j \in 1 .. k
      PROVE  \/ Output!Empty(AbstractQueue[j])
             \/ AbstractQueue[j].latest /\ Output!Empty(Output!GivenUp(AbstractQueue[j]))
  <2>1. j \in 1 .. Len(synthetic)
    BY <1>1
  <2>2. synthetic[j] \in Item /\ AbstractQueue[j] = AbstractEntry(synthetic[j])
    BY <1>1, <2>1
  <2>3. AbstractQueue[j].latest = synthetic[j].latest
    BY <2>2 DEF AbstractEntry
  <2>4. CASE Expired(synthetic[j], cutoff)
    <3>1. synthetic[j].latest
      BY <2>4 DEF Expired
    <3>2. Output!Empty(Output!GivenUp(AbstractQueue[j]))
      BY <1>2, <2>2, EntryToWrite
    <3>3. QED
      BY <2>3, <3>1, <3>2
  <2>5. CASE ~Expired(synthetic[j], cutoff)
    <3>1. synthetic[j].x = 0
      BY <1>2, <2>5 DEF MotionLeft
    <3>2. QED
      BY <1>2, <2>2, <3>1, EntryToWrite
  <2>6. QED
    BY <2>4, <2>5
<1>5. ASSUME k < Len(synthetic)
      PROVE  /\ ~Output!Empty(AbstractQueue[k + 1])
             /\ Expired(synthetic[k + 1], cutoff) =>
                  AbstractQueue[k + 1].latest /\ Output!HasMasksToWrite(AbstractQueue[k + 1])
  <2>1. k + 1 \in 1 .. Len(synthetic)
    BY <1>1, <1>5
  <2>2. synthetic[k + 1] \in Item /\ AbstractQueue[k + 1] = AbstractEntry(synthetic[k + 1])
    BY <1>1, <2>1
  <2>3. AbstractQueue[k + 1].latest = synthetic[k + 1].latest
    BY <2>2 DEF AbstractEntry
  <2>4. ~(synthetic[k + 1].x = 0 /\ ~NeedsButtons(synthetic[k + 1]))
    BY <1>3, <1>5 DEF MotionLeft
  <2>5. ASSUME Expired(synthetic[k + 1], cutoff)
        PROVE  synthetic[k + 1].latest /\ NeedsButtons(synthetic[k + 1])
    BY <1>3, <1>5, <2>5 DEF MotionLeft, Expired
  <2>6. QED
    BY <2>2, <2>3, <2>4, <2>5, EntryToWrite
<1>6. Output!Skippable(k)
  BY <1>1, <1>4, <1>5 DEF Output!Skippable
<1>7. QED
  BY <1>1, <1>5, <1>6 DEF GivesUp, Output!MayGiveUp

LEMMA ExpiredQueue ==
  ASSUME TypeOK, NEW cutoff, NEW k \in 0 .. Len(synthetic)
  PROVE  Output!AfterSkip(k, GivesUp(cutoff, k)) = AbstractEntries(AfterExpiry(cutoff, k))
<1>1. /\ AbstractQueue \in Seq(Entry) /\ Len(AbstractQueue) = Len(synthetic)
      /\ Len(synthetic) \in Nat /\ synthetic \in Seq(Item)
      /\ \A j \in 1 .. Len(synthetic) : AbstractQueue[j] = AbstractEntry(synthetic[j])
      /\ \A j \in 1 .. Len(synthetic) : synthetic[j] \in Item
  BY AbstractQueueProperties, QueueLength
<1> DEFINE q == AfterExpiry(cutoff, k)
           rest == SubSeq(AbstractQueue, k + 1, Len(AbstractQueue))
           n == Len(synthetic) - k
<1>2. /\ q \in Seq(Item) /\ Len(q) = n
      /\ \A i \in 1 .. n : q[i] = IF i = 1 /\ Expired(synthetic[k + 1], cutoff)
                                  THEN [synthetic[k + 1] EXCEPT !.x = 0] ELSE synthetic[k + i]
  BY <1>1, AfterExpiryProperties
<1>3. rest \in Seq(Entry) /\ Len(rest) = n /\ \A i \in 1 .. n : rest[i] = AbstractQueue[k + i]
  <2>1. k \in 0 .. Len(AbstractQueue)
    BY <1>1
  <2>2. rest = Rest(AbstractQueue, k)
    BY DEF Rest
  <2>3. QED
    BY <1>1, <2>1, <2>2, RestProperties
<1> HIDE DEF q, rest
<1>4. CASE GivesUp(cutoff, k)
  <2> DEFINE e == Output!GivenUp(rest[1])
             p == [rest EXCEPT ![1] = e]
  <2>1. n > 0 /\ 1 \in 1 .. n /\ k + 1 \in 1 .. Len(synthetic)
    BY <1>1, <1>4 DEF GivesUp
  <2>2. rest[1] = AbstractEntry(synthetic[k + 1]) /\ synthetic[k + 1] \in Item
    BY <1>1, <1>3, <2>1
  <2>3. q[1] = [synthetic[k + 1] EXCEPT !.x = 0]
    BY <1>2, <1>4, <2>1 DEF GivesUp
  <2>4. e = AbstractEntry(q[1])
    BY <2>2, <2>3, EntryToWrite
  <2>5. e \in Entry
    <3>1. q[1] \in Item
      BY <2>2, <2>3, ItemExpires
    <3>2. QED
      BY <2>4, <3>1, EntryType
  <2> HIDE DEF e
  <2>6. /\ p \in Seq(Entry) /\ Len(p) = n
        /\ \A i \in 1 .. n : p[i] = IF i = 1 THEN e ELSE rest[i]
    BY <1>3, <2>1, <2>5, ExceptSeq
  <2>7. Output!AfterSkip(k, GivesUp(cutoff, k)) = p
    BY <1>4 DEF Output!AfterSkip, p, e, rest
  <2> HIDE DEF p
  <2>8. \A i \in 1 .. Len(q) : p[i] = AbstractEntry(q[i])
    <3>1. ASSUME NEW i \in 1 .. n PROVE p[i] = AbstractEntry(q[i])
      <4>1. CASE i = 1
        BY <2>4, <2>6, <4>1
      <4>2. CASE i # 1
        <5>1. p[i] = AbstractQueue[k + i] /\ q[i] = synthetic[k + i]
          BY <1>2, <1>3, <2>6, <4>2
        <5>2. k + i \in 1 .. Len(synthetic)
          BY <1>1
        <5>3. QED
          BY <1>1, <5>1, <5>2
      <4>3. QED
        BY <4>1, <4>2
    <3>2. QED
      BY <1>2, <3>1
  <2>9. p = AbstractEntries(q)
    BY <1>2, <2>6, <2>8, SameEntries
  <2>10. QED
    BY <2>7, <2>9 DEF q
<1>5. CASE ~GivesUp(cutoff, k)
  <2>1. Output!AfterSkip(k, GivesUp(cutoff, k)) = rest
    BY <1>5 DEF Output!AfterSkip, rest
  <2>2. \A i \in 1 .. Len(q) : rest[i] = AbstractEntry(q[i])
    <3>1. ASSUME NEW i \in 1 .. n PROVE rest[i] = AbstractEntry(q[i])
      <4>1. k + i \in 1 .. Len(synthetic) /\ k < Len(synthetic)
        BY <1>1
      <4>2. q[i] = synthetic[k + i]
        BY <1>2, <1>5, <4>1 DEF GivesUp
      <4>3. QED
        BY <1>1, <1>3, <4>1, <4>2
    <3>2. QED
      BY <1>2, <3>1
  <2>3. rest = AbstractEntries(q)
    BY <1>2, <1>3, <2>2, SameEntries
  <2>4. QED
    BY <2>1, <2>3 DEF q
<1>6. QED
  BY <1>4, <1>5

LEMMA TakeSkips ==
  ASSUME TypeOK, ThreadInv, NEW cutoff, NEW k \in 0 .. Len(synthetic), CanTake,
         ExpireCut(cutoff, k), synthetic' = AfterExpiry(cutoff, k)
  PROVE  /\ Output!Skips(k, GivesUp(cutoff, k))
         /\ GivesUp(cutoff, k) \in BOOLEAN /\ k \in 0 .. Len(AbstractQueue)
<1>1. AbstractWire = <<>> /\ ~Held
  BY DEF CanTake, AbstractWire, Held
<1>2. AbstractTold = <<>>
  BY DEF CanTake, ThreadInv, AbstractTold, AbstractEvents
<1>3. AbstractQueue' = Output!AfterSkip(k, GivesUp(cutoff, k))
  BY ExpiredQueue DEF AbstractQueue
<1>4. GivesUp(cutoff, k) \in BOOLEAN
  BY DEF GivesUp
<1>5. k \in 0 .. Len(AbstractQueue)
  BY AbstractQueueProperties
<1>6. QED
  BY <1>1, <1>2, <1>3, <1>4, <1>5, ExpirySkips DEF Output!Skips, Output!WriterFree

LEMMA NothingRefines ==
  ASSUME TypeOK, ThreadInv, NEW cutoff, NEW k \in 0 .. Len(synthetic), TakeNothing(cutoff, k)
  PROVE  Step
<1>1. /\ Output!Skips(k, GivesUp(cutoff, k))
      /\ GivesUp(cutoff, k) \in BOOLEAN /\ k \in 0 .. Len(AbstractQueue)
  BY TakeSkips DEF TakeNothing
<1>2. UNCHANGED <<nextGeneration, Ready, StaleWaiting, Held, AbstractWire, templateKnown,
                  AppliedMasks, submittedPhysical, hostButtons, AbstractTold, AbstractLog,
                  overflow>>
  <2>1. UNCHANGED <<layoutVars, endpointVars, physicalVars, writtenVars, inflight, fifo,
                    stamped, writerVars, eventVars, hostVars>>
    BY DEF TakeNothing
  <2>2. QED
    BY <2>1, WireKept, ToldKept, StaleKept, MasksKept, ReadyKept, HeldKept
<1>3. Output!PassOver(k, GivesUp(cutoff, k))
  BY <1>1, <1>2 DEF Output!PassOver
<1>4. Output!WriterTakes
  BY <1>1, <1>3 DEF Output!WriterTakes
<1>5. QED
  BY <1>4 DEF Step, Output!OutputStep

(* What stays the same when a report is taken.                             *)
LEMMA TakenKeeps ==
  ASSUME TakeKeeps
  PROVE  UNCHANGED <<nextGeneration, Ready, templateKnown, AppliedMasks, submittedPhysical,
                     hostButtons, AbstractTold, AbstractLog, overflow>>
  BY ToldKept, MasksKept, ReadyKept DEF TakeKeeps

(* A report taken from the data queue leaves the others waiting.           *)
LEMMA LessWaits ==
  ASSUME TypeOK, nextGeneration' = nextGeneration, stamped' = stamped,
         fifo' = fifo \/ (fifo # <<>> /\ fifo' = Tail(fifo))
  PROVE  StaleWaiting' => StaleWaiting
<1>1. Waiting' \subseteq Waiting
  <2>1. CASE fifo' = fifo
    BY <2>1 DEF Waiting
  <2>2. CASE fifo # <<>> /\ fifo' = Tail(fifo)
    <3>1. /\ fifo \in Seq(Report) /\ Len(fifo) \in Nat /\ DOMAIN fifo = 1 .. Len(fifo)
      BY FifoLength
    <3>2. /\ fifo' \in Seq(Report) /\ Len(fifo') = Len(fifo) - 1
          /\ \A i \in 1 .. Len(fifo) - 1 : fifo'[i] = fifo[i + 1]
      BY <2>2, <3>1, HeadTailProperties
    <3>3. DOMAIN fifo' = 1 .. Len(fifo) - 1
      BY <3>2, LenProperties
    <3>4. {fifo'[i] : i \in DOMAIN fifo'} \subseteq {fifo[i] : i \in DOMAIN fifo}
      <4>1. \A i \in 1 .. Len(fifo) - 1 : i + 1 \in 1 .. Len(fifo)
        BY <3>1
      <4>2. QED
        BY <3>1, <3>2, <3>3, <4>1
    <3>5. QED
      BY <3>4 DEF Waiting
  <2>3. QED
    BY <2>1, <2>2
<1>2. QED
  BY <1>1 DEF StaleWaiting

LEMMA CurrentIsNotStale ==
  ASSUME TypeOK, generation = nextGeneration,
         \A i \in 1 .. Len(fifo) : Current(fifo[i]),
         \A j \in 1 .. Len(stamped) : Current(stamped[j])
  PROVE  StaleWaiting = FALSE
<1>1. \A r \in Waiting : r.generation = nextGeneration
  BY FifoLength DEF Waiting, Current
<1>2. nextGeneration \in Nat
  BY DEF TypeOK
<1>3. QED
  BY <1>1, <1>2 DEF StaleWaiting

(* The report of an entry, taken with or without a physical report.        *)
LEMMA EntryStarts ==
  ASSUME TypeOK, TypeOK', ThreadInv, QueueInv, QueueInv', OrderInv,
         NEW cutoff, NEW k \in 0 .. Len(synthetic),
         TakePhysical(cutoff, k) \/ TakeStandalone(cutoff, k),
         ForFront(synthetic'), ~StaleWaiting, NEW carries \in BOOLEAN,
         (io'.physical /\ io'.match) = carries, io'.physical => io'.match,
         NEW buttons \in SUBSET Supported, carries \/ Output!Remembered(buttons),
         io'.physicalButtons = (IF carries THEN buttons ELSE {}),
         io'.match = carries,
         io'.shown = (buttons \cup (io'.persistent \cup io'.scheduled)) \cap Supported,
         fifo' = fifo \/ (fifo # <<>> /\ fifo' = Tail(fifo))
  PROVE  Step
<1>1. /\ CanTake /\ ExpireCut(cutoff, k) /\ TakeKeeps
      /\ writer' = "writing" /\ synthetic' = AfterExpiry(cutoff, k)
      /\ inflight' = io'.item
  BY TakeCases
<1>2. /\ Output!Skips(k, GivesUp(cutoff, k))
      /\ GivesUp(cutoff, k) \in BOOLEAN /\ k \in 0 .. Len(AbstractQueue)
  BY <1>1, TakeSkips
<1> DEFINE front == Head(synthetic')
           entry == Head(Output!AfterSkip(k, GivesUp(cutoff, k)))
<1>3. front \in Item /\ Len(synthetic') > 0 /\ synthetic' \in Seq(Item) /\ front = synthetic'[1]
  <2>1. synthetic' \in Seq(Item) /\ synthetic' # <<>>
    BY DEF TypeOK, ForFront
  <2>2. Len(synthetic') \in Nat /\ Len(synthetic') # 0 /\ front = synthetic'[1]
    BY <2>1, LenProperties, EmptySeq, HeadTailProperties
  <2>3. 1 \in 1 .. Len(synthetic')
    BY <2>2
  <2>4. QED
    BY <2>1, <2>2, <2>3, ElementOfSeq
<1>4. entry = AbstractEntry(front)
  <2>1. Output!AfterSkip(k, GivesUp(cutoff, k)) = AbstractEntries(synthetic')
    BY <1>1, ExpiredQueue
  <2>2. 1 \in 1 .. Len(synthetic') /\ synthetic' # <<>>
    BY <1>3, LenProperties DEF ForFront
  <2>3. /\ AbstractEntries(synthetic') \in Seq(Entry) /\ AbstractEntries(synthetic') # <<>>
        /\ AbstractEntries(synthetic')[1] = AbstractEntry(synthetic'[1])
    BY <1>3, <2>2, EntriesProperties
  <2>4. Head(AbstractEntries(synthetic')) = AbstractEntries(synthetic')[1]
    BY <2>3, HeadTailProperties
  <2>5. QED
    BY <1>3, <2>1, <2>3, <2>4
<1>5. k < Len(AbstractQueue)
  <2>1. Len(AbstractQueue) = Len(synthetic) /\ Len(synthetic) \in Nat
    BY AbstractQueueProperties, QueueLength
  <2>2. Len(synthetic') = Len(synthetic) - k
    BY <1>1, QueueLength, AfterExpiryProperties
  <2>3. QED
    BY <1>3, <2>1, <2>2
<1> HIDE DEF front, entry
<1>6. generation = nextGeneration
  BY <1>1 DEF CanTake, ThreadInv
<1>7. /\ io'.generation = nextGeneration /\ io'.kind = entry.kind /\ io'.key = entry.key
      /\ io'.button = entry.button
      /\ io'.persistent = entry.persistent /\ io'.scheduled = entry.scheduled
  BY <1>4, <1>6 DEF ForFront, AbstractEntry, front
<1>8. io'.x \in Output!Moves(entry)
  <2>1. io'.x \in Int /\ Between(0, io'.x, front.x) /\ front.x \in Int
    BY <1>3, CarriedIsPart DEF ForFront, front, Item
  <2>2. entry.left = front.x
    BY <1>4 DEF AbstractEntry
  <2>3. QED
    BY <2>1, <2>2 DEF Output!Moves, Between
<1>9. io'.blocked = (entry.kind \in Output!Presses
                     /\ entry.button \in submittedPhysical \cup Output!ButtonsOf(AppliedMasks))
  <2>1. Output!Presses = PressKinds
    BY DEF Output!Presses, PressKinds
  <2>2. PreviouslyVisible = submittedPhysical \cup Output!ButtonsOf(AppliedMasks)
    BY DEF PreviouslyVisible, Output!ButtonsOf, AppliedMasks
  <2>3. entry.kind = front.kind /\ entry.button = front.button
    BY <1>4 DEF AbstractEntry
  <2>4. QED
    BY <2>1, <2>2, <2>3 DEF ForFront, front
<1>10. Output!ButtonsOf(Output!Masks(entry)) = io'.persistent \cup io'.scheduled
  BY <1>7 DEF Output!ButtonsOf, Output!Masks
<1>11. io'.shown = buttons \cup Output!ButtonsOf(Output!Masks(entry))
  <2>1. io'.persistent \cup io'.scheduled \subseteq Supported'
    <3>1. Len(synthetic') \in Nat /\ 1 \in 1 .. Len(synthetic')
      BY <1>3, LenProperties
    <3>2. Sound(synthetic[1])'
      BY <3>1 DEF QueueInv
    <3>3. Encodable(synthetic[1].x, synthetic[1].persistent \cup synthetic[1].scheduled)'
      BY <3>2 DEF Sound
    <3>4. synthetic'[1].persistent \cup synthetic'[1].scheduled \subseteq Supported'
      BY <3>3 DEF Encodable
    <3>5. QED
      BY <1>3, <3>4 DEF ForFront, front
  <2>2. Supported' = Supported
    BY <1>1 DEF TakeKeeps, Supported
  <2>3. QED
    BY <1>10, <2>1, <2>2
<1>12. AbstractWire' = <<Output!EntryReport(entry, io'.x, carries, buttons)>>
  <2>1. AbstractWire' = <<AbstractReport'>>
    BY <1>1 DEF AbstractWire
  <2> DEFINE masks == [persistent |-> io'.persistent, scheduled |-> io'.scheduled]
             shown == IF io'.physical /\ ~io'.match THEN {} ELSE io'.shown
             seen == IF io'.match THEN io'.physicalButtons ELSE {}
  <2>2. masks = Output!Masks(entry)
    BY <1>7 DEF Output!Masks
  <2>3. shown = buttons \cup Output!ButtonsOf(Output!Masks(entry))
    BY <1>11
  <2>4. seen = IF carries THEN buttons ELSE {}
    OBVIOUS
  <2>5. AbstractReport'
          = [generation |-> io'.generation, kind |-> io'.kind, key |-> io'.key,
             button |-> io'.button, masks |-> masks, motion |-> io'.x,
             carries |-> io'.physical /\ io'.match, buttons |-> seen,
             blocked |-> io'.blocked, shown |-> shown]
    BY DEF AbstractReport
  <2> HIDE DEF masks, shown, seen
  <2>6. AbstractReport' = Output!EntryReport(entry, io'.x, carries, buttons)
    BY <1>7, <1>9, <2>2, <2>3, <2>4, <2>5 DEF Output!EntryReport
  <2>7. QED
    BY <2>1, <2>6
<1>13. Held' = TRUE
  <2>1. front.id # NoItem
    BY <1>3 DEF Item
  <2>2. QED
    BY <1>1, <2>1 DEF ForFront, Held, front
<1>14. StaleWaiting = FALSE /\ StaleWaiting' = StaleWaiting
  <2>1. StaleWaiting' => StaleWaiting
    BY <1>1, LessWaits DEF TakeKeeps
  <2>2. QED
    BY <2>1 DEF StaleWaiting
<1>15. Output!Start(Output!EntryReport(entry, io'.x, carries, buttons))
  BY <1>1, <1>12, TakenKeeps DEF Output!Start
<1>16. Output!StartEntry(k, GivesUp(cutoff, k), carries, buttons)
  BY <1>2, <1>5, <1>8, <1>13, <1>14, <1>15 DEF Output!StartEntry, entry
<1>17. buttons \in SUBSET Buttons
  BY ButtonsAssumption DEF Supported
<1>18. Output!WriterTakes
  BY <1>2, <1>16, <1>17 DEF Output!WriterTakes
<1>19. QED
  BY <1>18 DEF Step, Output!OutputStep

LEMMA AloneRefines ==
  ASSUME TypeOK, TypeOK', ThreadInv, QueueInv, QueueInv', OrderInv, SupportedInv,
         NEW cutoff, NEW k \in 0 .. Len(synthetic),
         TakePhysical(cutoff, k) \/ TakeStandalone(cutoff, k), AloneTaken(synthetic')
  PROVE  Step
<1>1. CanTake /\ synthetic' = AfterExpiry(cutoff, k)
  BY TakeCases
<1>2. ForFront(synthetic') /\ (fifo = <<>> \/ Competes(synthetic')) /\ fifo' = fifo
  BY DEF AloneTaken
<1>3. AfterExpiry(cutoff, k) # <<>>
  BY <1>1, <1>2 DEF ForFront
<1>4. /\ \A i \in 1 .. Len(fifo) : Current(fifo[i])
      /\ \A j \in 1 .. Len(stamped) : Current(stamped[j])
  BY <1>1, <1>2, <1>3, AloneIsCurrent
<1>5. ~StaleWaiting
  BY <1>1, <1>4, CurrentIsNotStale DEF CanTake, ThreadInv
<1> DEFINE buttons == submittedPhysical \cap Supported
<1>6. Output!Remembered(buttons)
  <2>1. templateKnown => submittedPhysical \subseteq Supported
    BY <1>1 DEF CanTake, SupportedInv
  <2>2. QED
    BY <2>1 DEF Output!Remembered
<1>7. buttons \in SUBSET Supported
  OBVIOUS
<1>8. /\ io'.physical = FALSE /\ io'.match = FALSE /\ io'.physicalButtons = {}
      /\ io'.shown = (submittedPhysical \cup Head(synthetic').persistent
                        \cup Head(synthetic').scheduled) \cap Supported
      /\ io'.persistent = Head(synthetic').persistent
      /\ io'.scheduled = Head(synthetic').scheduled
  BY DEF AloneTaken, ForFront
<1>9. io'.shown = (buttons \cup (io'.persistent \cup io'.scheduled)) \cap Supported
  BY <1>8
<1> HIDE DEF buttons
<1>10. (io'.physical /\ io'.match) = FALSE
  BY <1>8
<1>11. QED
  BY <1>2, <1>5, <1>6, <1>7, <1>8, <1>9, <1>10, EntryStarts

LEMMA FusedRefines ==
  ASSUME TypeOK, TypeOK', ThreadInv, QueueInv, QueueInv', OrderInv, SupportedInv,
         NEW cutoff, NEW k \in 0 .. Len(synthetic),
         TakePhysical(cutoff, k) \/ TakeStandalone(cutoff, k), FusedTaken(synthetic')
  PROVE  Step
<1>1. CanTake
  BY TakeCases
<1>2. /\ ForFront(synthetic') /\ Compatible(Head(fifo))
      /\ fifo # <<>> /\ fifo' = Tail(fifo)
      /\ io'.physical /\ io'.match = Head(fifo).match
      /\ io'.physicalButtons = Head(fifo).buttons
  BY DEF FusedTaken, PhysicalTaken
<1>3. Head(fifo) = fifo[1] /\ 1 \in 1 .. Len(fifo) /\ Head(fifo) \in Report
  BY <1>2, FifoLength
<1>4. ~StaleWaiting
  BY <1>1, <1>2, CurrentFront, CurrentIsNotStale DEF Compatible, Current, CanTake, ThreadInv
<1> DEFINE buttons == Head(fifo).buttons
<1>5. buttons \in SUBSET Supported
  BY <1>1, <1>2, <1>3 DEF CanTake, SupportedInv, Suits
<1>6. io'.match = TRUE
  <2>1. Head(fifo).match /\ Head(fifo).match \in BOOLEAN
    BY <1>2, <1>3 DEF Compatible, Report
  <2>2. QED
    BY <1>2, <2>1
<1>7. (io'.physical /\ io'.match) = TRUE /\ (io'.physical => io'.match)
  BY <1>2, <1>6
<1>8. io'.shown = (buttons \cup (io'.persistent \cup io'.scheduled)) \cap Supported
  BY DEF FusedTaken, ForFront
<1>9. io'.physicalButtons = buttons
  BY <1>2
<1> HIDE DEF buttons
<1>10. QED
  BY <1>2, <1>4, <1>5, <1>6, <1>7, <1>8, <1>9, EntryStarts

(* A physical report without a command, of this or an earlier generation.  *)
LEMMA PlainRefines ==
  ASSUME TypeOK, TypeOK', ThreadInv, OrderInv, SupportedInv,
         NEW cutoff, NEW k \in 0 .. Len(synthetic),
         TakePhysical(cutoff, k) \/ TakeStandalone(cutoff, k), PlainTaken
  PROVE  Step
<1>1. /\ CanTake /\ ExpireCut(cutoff, k) /\ TakeKeeps
      /\ writer' = "writing" /\ synthetic' = AfterExpiry(cutoff, k)
      /\ inflight' = io'.item
  BY TakeCases
<1>2. /\ Output!Skips(k, GivesUp(cutoff, k))
      /\ GivesUp(cutoff, k) \in BOOLEAN /\ k \in 0 .. Len(AbstractQueue)
  BY <1>1, TakeSkips
<1> DEFINE r == Head(fifo)
           g == r.generation
<1>3. /\ fifo # <<>> /\ fifo' = Tail(fifo)
      /\ io'.physical /\ io'.match = r.match /\ io'.physicalButtons = r.buttons
      /\ io'.generation = g
      /\ io'.item = NoItem /\ io'.x = 0 /\ io'.persistent = {} /\ io'.scheduled = {}
      /\ io'.kind = "NONE" /\ io'.key = 0 /\ io'.button = NoButton /\ io'.blocked = FALSE
      /\ io'.shown = (IF Compatible(r)
                      THEN (r.buttons \cup (persistent \cup scheduled)) \cap Supported
                      ELSE r.buttons)
  BY DEF PlainTaken, PhysicalTaken
<1>4. /\ r = fifo[1] /\ 1 \in 1 .. Len(fifo) /\ r \in Report
      /\ g \in 1 .. generation /\ g \in Nat /\ generation = nextGeneration /\ nextGeneration \in Nat
  BY <1>1, <1>3, FifoLength DEF OrderInv, CanTake, ThreadInv
<1>5. r.match \in BOOLEAN /\ r.buttons \in SUBSET Buttons
  BY <1>4 DEF Report
<1> HIDE DEF r
<1>6. Output!InOrder(g)
  <2>1. StaleWaiting' => StaleWaiting
    BY <1>1, <1>3, LessWaits DEF TakeKeeps
  <2>2. StaleWaiting \in BOOLEAN /\ StaleWaiting' \in BOOLEAN
    BY DEF StaleWaiting
  <2>3. CASE g = nextGeneration
    <3>1. Current(Head(fifo))
      BY <1>4, <2>3 DEF Current, r
    <3>2. StaleWaiting = FALSE
      BY <1>3, <1>4, <3>1, CurrentFront, CurrentIsNotStale
    <3>3. QED
      BY <2>1, <2>2, <2>3, <3>2 DEF Output!InOrder
  <2>4. CASE g # nextGeneration
    <3>1. r \in Waiting
      BY <1>4, FifoLength DEF Waiting
    <3>2. g < nextGeneration
      BY <1>4, <2>4
    <3>3. StaleWaiting
      BY <3>1, <3>2 DEF StaleWaiting
    <3>4. QED
      BY <2>2, <2>4, <3>3 DEF Output!InOrder
  <2>5. QED
    BY <2>3, <2>4
<1>7. UNCHANGED Held
  BY <1>1, <1>3 DEF CanTake, Held
<1> DEFINE shown == IF io'.physical /\ ~io'.match THEN {} ELSE io'.shown
           seen == IF io'.match THEN io'.physicalButtons ELSE {}
           carries == io'.physical /\ io'.match
<1>8. AbstractWire'
        = << [generation |-> g, kind |-> "NONE", key |-> 0, button |-> 0,
              masks |-> Output!NoMasks, motion |-> 0, carries |-> carries, buttons |-> seen,
              blocked |-> FALSE, shown |-> shown] >>
  <2>1. AbstractWire' = <<AbstractReport'>>
    BY <1>1 DEF AbstractWire
  <2>2. AbstractReport'
          = [generation |-> io'.generation, kind |-> io'.kind, key |-> io'.key,
             button |-> io'.button,
             masks |-> [persistent |-> io'.persistent, scheduled |-> io'.scheduled],
             motion |-> io'.x, carries |-> carries, buttons |-> seen,
             blocked |-> io'.blocked, shown |-> shown]
    BY DEF AbstractReport
  <2>3. [persistent |-> io'.persistent, scheduled |-> io'.scheduled] = Output!NoMasks
    BY <1>3 DEF Output!NoMasks
  <2> HIDE DEF shown, seen, carries
  <2>4. QED
    BY <1>3, <2>1, <2>2, <2>3 DEF NoButton
<1>9. g \in 1 .. nextGeneration
  BY <1>4
<1>10. CASE r.match
  <2>1. carries = TRUE /\ seen = r.buttons
    BY <1>3, <1>5, <1>10
  <2>2. shown = IF g = nextGeneration THEN r.buttons \cup Output!ButtonsOf(AppliedMasks)
                ELSE r.buttons
    <3>1. shown = io'.shown
      BY <1>3, <1>5, <1>10
    <3>2. Output!ButtonsOf(AppliedMasks) = persistent \cup scheduled
      BY DEF Output!ButtonsOf, AppliedMasks
    <3>3. Compatible(r) <=> g = nextGeneration
      BY <1>4, <1>10 DEF Compatible
    <3>4. Compatible(r) => r.buttons \cup (persistent \cup scheduled) \subseteq Supported
      BY <1>1, <1>4 DEF CanTake, SupportedInv, Suits
    <3>5. QED
      BY <1>3, <3>1, <3>2, <3>3, <3>4
  <2> HIDE DEF shown, seen, carries
  <2>3. AbstractWire' = <<Output!PhysicalReport(g, r.buttons)>>
    BY <1>8, <2>1, <2>2 DEF Output!PhysicalReport
  <2>4. Output!Start(Output!PhysicalReport(g, r.buttons))
    BY <1>1, <2>3, TakenKeeps DEF Output!Start
  <2>5. Output!StartPhysical(k, GivesUp(cutoff, k), g, r.buttons)
    BY <1>2, <1>6, <1>7, <2>4 DEF Output!StartPhysical
  <2>6. Output!WriterTakes
    BY <1>2, <1>5, <1>9, <2>5 DEF Output!WriterTakes
  <2>7. QED
    BY <2>6 DEF Step, Output!OutputStep
<1>11. CASE ~r.match
  <2>1. carries = FALSE /\ seen = {} /\ shown = {}
    BY <1>3, <1>5, <1>11
  <2> HIDE DEF shown, seen, carries
  <2>2. AbstractWire' = <<Output!ForeignReport(g)>>
    BY <1>8, <2>1 DEF Output!ForeignReport
  <2>3. Output!Start(Output!ForeignReport(g))
    BY <1>1, <2>2, TakenKeeps DEF Output!Start
  <2>4. Output!StartForeign(k, GivesUp(cutoff, k), g)
    BY <1>2, <1>6, <1>7, <2>3 DEF Output!StartForeign
  <2>5. Output!WriterTakes
    BY <1>2, <1>9, <2>4 DEF Output!WriterTakes
  <2>6. QED
    BY <2>5 DEF Step, Output!OutputStep
<1>12. QED
  BY <1>10, <1>11

LEMMA WriterRefines ==
  ASSUME TypeOK, TypeOK', ThreadInv, IoShape, InflightHeld, QueueOrder, QueueInv, QueueInv',
         OrderInv, SupportedInv, WriterStep
  PROVE  Step \/ Stutter
<1>1. CASE Take
  <2>1. PICK cutoff \in 0 .. nextItem - 1, k \in 0 .. Len(synthetic) : TakeReport(cutoff, k)
    BY <1>1 DEF Take
  <2>2. CASE TakeNothing(cutoff, k)
    BY <2>2, NothingRefines
  <2>3. CASE TakePhysical(cutoff, k) \/ TakeStandalone(cutoff, k)
    <3>1. AloneTaken(synthetic') \/ FusedTaken(synthetic') \/ PlainTaken
      BY <2>3, TakeCases
    <3>2. QED
      BY <2>3, <3>1, AloneRefines, FusedRefines, PlainRefines
  <2>4. QED
    BY <2>1, <2>2, <2>3 DEF TakeReport
<1>2. CASE WriteSucceeds \/ WriteFails \/ WriteFailsAndEnds
  BY <1>2, CompleteRefines DEF WriteSucceeds, WriteFails, WriteFailsAndEnds
<1>3. CASE AppendEvent
  BY <1>3, AppendRefines
<1>4. CASE WriterStops
  BY <1>4, StopStutters
<1>5. QED
  BY <1>1, <1>2, <1>3, <1>4 DEF WriterStep

LEMMA InitRefines ==
  ASSUME Init
  PROVE  Output!OutputInit
<1>1. nextGeneration = 0 /\ Ready = FALSE /\ Held = FALSE
  BY DEF Init, Ready, Registered, Held
<1>2. StaleWaiting = FALSE
  BY DEF Init, StaleWaiting, Waiting
<1>3. AbstractQueue = <<>>
  BY DEF Init, AbstractQueue, AbstractEntries
<1>4. AbstractWire = <<>>
  BY DEF Init, AbstractWire
<1>5. AbstractTold = <<>> /\ AbstractLog = <<>>
  BY DEF Init, AbstractTold, AbstractLog, AbstractEvents
<1>6. AppliedMasks = Output!NoMasks
  BY DEF Init, AppliedMasks, Output!NoMasks
<1>7. templateKnown = FALSE /\ submittedPhysical = {} /\ hostButtons = {} /\ overflow = FALSE
  BY DEF Init
<1>8. QED
  BY <1>1, <1>2, <1>3, <1>4, <1>5, <1>6, <1>7 DEF Output!OutputInit

LEMMA StepRefines ==
  ASSUME TypeOK, TypeOK', ThreadInv, FreshInv, IoShape, InflightHeld, QueueOrder,
         QueueInv, QueueInv', OrderInv, SupportedInv, [Next]_vars
  PROVE  Step \/ Stutter
<1>1. CASE ClientStep
  BY <1>1, ClientRefines
<1>2. CASE ReaderStep
  BY <1>2, ReadRefines, PushStutters DEF ReaderStep
<1>3. CASE WriterStep
  BY <1>3, WriterRefines
<1>4. CASE ControlStep
  BY <1>4, ControlRefines
<1>5. CASE UNCHANGED vars
  BY <1>5, StuttersKept
<1>6. QED
  BY <1>1, <1>2, <1>3, <1>4, <1>5 DEF Next

(* The mixer with the reader, writer and ep0 threads of its endpoint       *)
(* implements the abstract output the UDP server is modelled on: whatever  *)
(* they interleave, every call of mouse_mixer.cpp, every write and every   *)
(* new generation is a step SyntheticOutput allows, or none it can see.    *)
THEOREM MixerImplementsOutput == Spec => ImplementsOutput
<1>1. Init => Output!OutputInit
  BY InitRefines
<1>2. /\ TypeOK /\ TypeOK' /\ ThreadInv /\ FreshInv /\ IoShape /\ InflightHeld /\ QueueOrder
      /\ QueueInv /\ QueueInv' /\ OrderInv /\ SupportedInv /\ [Next]_vars
      => [Output!CallerStep(Commands) \/ Output!OutputStep \/ Output!Seed]_(Output!outputVars)
  BY StepRefines DEF Step, Stutter
<1>3. QED
  BY <1>1, <1>2, TypeCorrect, ThreadCorrect, FreshCorrect, ShapeCorrect, InflightIsHeld,
     QueueIsOrdered, QueueCorrect, OrderCorrect, SupportedCorrect, PTL
     DEF Spec, ImplementsOutput
=============================================================================
