--------------------------- MODULE UdpServer_proofs ---------------------------
(***************************************************************************)
(* Proofs about the server loop and the output it stands on, for all       *)
(* values of the constants.  The lemmas are about single actions, so that  *)
(* a specification that takes these actions together with others can cite  *)
(* them as well.                                                           *)
(***************************************************************************)
EXTENDS UdpServer, SequenceTheorems, WellFoundedInduction, TLAPS

-----------------------------------------------------------------------------
(* Types.                                                                  *)

AllButtons == {0, ClickButton} \cup (UNION Holds) \cup PhysicalButtons
ReportKinds == Reported \cup {"MOVEMENT", "PERSISTENT"}
KeyPairs == (Keys \cup {NoKey}) \X Nat

CommandSet ==
  [kind : ReportKinds, key : KeyPairs, persistent : SUBSET AllButtons,
   scheduled : SUBSET AllButtons, button : AllButtons, x : Int, latest : BOOLEAN]
EntrySet ==
  [kind : ReportKinds, key : KeyPairs, button : AllButtons,
   persistent : SUBSET AllButtons, scheduled : SUBSET AllButtons,
   latest : BOOLEAN, left : Int, committed : BOOLEAN]
MaskSet == [persistent : SUBSET AllButtons, scheduled : SUBSET AllButtons]
WireSet ==
  [generation : Nat, kind : ReportKinds \cup {"NONE"}, key : KeyPairs \cup {NullKey},
   button : AllButtons, masks : MaskSet, motion : Int, carries : BOOLEAN,
   buttons : SUBSET PhysicalButtons, blocked : BOOLEAN, shown : SUBSET AllButtons]
EventSet ==
  [key : KeyPairs \cup {NullKey}, generation : Nat, kind : ReportKinds \cup {"NONE"},
   button : AllButtons, blocked : BOOLEAN, success : BOOLEAN, final : SUBSET AllButtons,
   motion : Int, finished : BOOLEAN]

(* The output: its flags, its queues, the buttons it knows of, and the     *)
(* mark of the front command.                                              *)
GenerationType == generation \in 0 .. ResetLimit
FlagTypes ==
  /\ ready \in BOOLEAN /\ stale \in BOOLEAN /\ held \in BOOLEAN
  /\ fresh \in BOOLEAN /\ overflow \in BOOLEAN
QueueTypes == queue \in Seq(EntrySet) /\ Len(queue) <= QueueLimit
WireTypes == wire \in Seq(WireSet) /\ Len(wire) <= 1
ToldTypes == told \in Seq(EventSet) /\ Len(told) <= 1
EventTypes == events \in Seq(EventSet) /\ Len(events) <= EventLimit
ButtonTypes ==
  /\ applied \in MaskSet
  /\ physical \in SUBSET PhysicalButtons /\ host \in SUBSET AllButtons
HeldIsFront == held => wire # <<>> /\ queue # <<>>

OutputTypes ==
  /\ GenerationType /\ FlagTypes /\ QueueTypes /\ WireTypes /\ ToldTypes /\ EventTypes /\ ButtonTypes
  /\ HeldIsFront

-----------------------------------------------------------------------------
(* The output's own steps.                                                 *)

LEMMA EmptyTyped ==
  ASSUME NEW S
  PROVE  <<>> \in Seq(S) /\ Len(<<>>) = 0
  OBVIOUS

LEMMA OneTyped ==
  ASSUME NEW S, NEW e \in S
  PROVE  <<e>> \in Seq(S) /\ Len(<<e>>) <= 1
  OBVIOUS

LEMMA MasksTyped ==
  ASSUME NEW e \in EntrySet
  PROVE  Masks(e) \in MaskSet /\ ButtonsOf(Masks(e)) \in SUBSET AllButtons
  BY DEF EntrySet, MaskSet, Masks, ButtonsOf

LEMMA GivenUpTyped ==
  ASSUME NEW e \in EntrySet
  PROVE  GivenUp(e) \in EntrySet
  BY DEF EntrySet, GivenUp

LEMMA OutputInitTyped == OutputInit => OutputTypes
<1> SUFFICES ASSUME OutputInit PROVE OutputTypes
  OBVIOUS
<1>1. FlagTypes /\ HeldIsFront
  BY Zenon DEF OutputInit, FlagTypes, HeldIsFront
<1>4. GenerationType
  BY OutputLimits DEF OutputInit, GenerationType
<1>2. ButtonTypes
  BY DEF OutputInit, ButtonTypes, NoMasks, MaskSet
<1>3. QueueTypes /\ WireTypes /\ ToldTypes /\ EventTypes
  BY OutputLimits, EmptyTyped DEF OutputInit, QueueTypes, WireTypes, ToldTypes, EventTypes
<1> QED
  BY <1>1, <1>2, <1>3, <1>4 DEF OutputTypes

LEMMA AcceptTyped ==
  ASSUME OutputTypes, NEW c \in CommandSet, Accept(c)
  PROVE  OutputTypes'
<1>1. Queued(c) \in EntrySet
  BY DEF Queued, CommandSet, EntrySet
<1>2. PICK k \in 0 .. Len(queue) :
        /\ k < QueueLimit
        /\ queue' = Append(SubSeq(queue, 1, k), Queued(c))
  BY DEF Accept
<1> DEFINE kept == SubSeq(queue, 1, k)
<1>3. kept \in Seq(EntrySet) /\ Len(kept) = k
  BY DEF OutputTypes, QueueTypes
<1> HIDE DEF kept
<1>4. queue' = Append(kept, Queued(c))
  BY <1>2 DEF kept
<1> HIDE DEF Queued
<1>5. /\ queue' \in Seq(EntrySet) /\ Len(queue') = k + 1 /\ queue' # <<>>
  BY <1>1, <1>3, <1>4
<1>6. Len(queue') <= QueueLimit
  BY <1>2, <1>5, OutputLimits
<1>7. QueueTypes' /\ HeldIsFront'
  BY <1>5, <1>6 DEF Accept, OutputTypes, QueueTypes, HeldIsFront
<1> QED
  BY <1>7 DEF Accept, OutputTypes, GenerationType, FlagTypes, WireTypes, ToldTypes, EventTypes, ButtonTypes

LEMMA OutputKept ==
  ASSUME OutputTypes, UNCHANGED outputVars
  PROVE  OutputTypes'
  BY DEF outputVars, OutputTypes, GenerationType, FlagTypes, QueueTypes, WireTypes, ToldTypes, EventTypes,
         ButtonTypes, HeldIsFront

LEMMA CallsTyped ==
  ASSUME OutputTypes, Clear \/ TakeEvents \/ TakeOverflow
  PROVE  OutputTypes'
<1>1. CASE Clear
  <2>1. QueueTypes'
    BY <1>1, EmptyTyped, OutputLimits DEF Clear, QueueTypes
  <2>2. HeldIsFront' /\ FlagTypes'
    BY <1>1, Zenon DEF Clear, OutputTypes, HeldIsFront, FlagTypes
  <2> QED
    BY <1>1, <2>1, <2>2 DEF Clear, OutputTypes, GenerationType, WireTypes, ToldTypes, EventTypes, ButtonTypes
<1>2. CASE TakeEvents
  <2>1. EventTypes'
    BY <1>2, EmptyTyped, OutputLimits DEF TakeEvents, EventTypes
  <2> QED
    BY <1>2, <2>1 DEF TakeEvents, OutputTypes, GenerationType, FlagTypes, QueueTypes, WireTypes, ToldTypes,
                      ButtonTypes, HeldIsFront
<1>3. CASE TakeOverflow
  BY <1>3 DEF TakeOverflow, OutputTypes, GenerationType, FlagTypes, QueueTypes, WireTypes, ToldTypes,
              EventTypes, ButtonTypes, HeldIsFront
<1> QED
  BY <1>1, <1>2, <1>3

(* What a take leaves of the queue.                                        *)
LEMMA SkipsTyped ==
  ASSUME OutputTypes, NEW k \in 0 .. Len(queue), NEW giveUp \in BOOLEAN,
         Skips(k, giveUp)
  PROVE  /\ queue' = AfterSkip(k, giveUp)
         /\ queue' \in Seq(EntrySet) /\ Len(queue') = Len(queue) - k
         /\ Len(queue') <= QueueLimit
         /\ k < Len(queue) => Head(queue') \in EntrySet /\ queue' # <<>>
<1> DEFINE rest == SubSeq(queue, k + 1, Len(queue))
<1>1. rest \in Seq(EntrySet) /\ Len(rest) = Len(queue) - k
  BY DEF OutputTypes, QueueTypes
<1>2. queue' = IF giveUp THEN [rest EXCEPT ![1] = GivenUp(@)] ELSE rest
  BY DEF Skips, AfterSkip
<1>3. giveUp => k < Len(queue)
  BY DEF Skips, MayGiveUp
<1> HIDE DEF rest
<1>4. queue' \in Seq(EntrySet) /\ Len(queue') = Len(queue) - k
  <2>1. CASE giveUp
    <3>1. 1 \in 1 .. Len(rest) /\ rest[1] \in EntrySet
      BY <1>1, <1>3, <2>1 DEF OutputTypes, QueueTypes
    <3>2. GivenUp(rest[1]) \in EntrySet
      BY <3>1, GivenUpTyped
    <3> QED
      BY <1>1, <1>2, <2>1, <3>1, <3>2
  <2> QED
    BY <1>1, <1>2, <2>1
<1>5. k < Len(queue) => Head(queue') \in EntrySet /\ queue' # <<>>
  BY <1>4 DEF OutputTypes, QueueTypes
<1>6. Len(queue') <= QueueLimit
  BY <1>4, OutputLimits DEF OutputTypes, QueueTypes
<1> QED
  BY <1>4, <1>5, <1>6 DEF Skips

(* A step that skips entries and, perhaps, starts a report.                *)
LEMMA StartTyped ==
  ASSUME OutputTypes, NEW k \in 0 .. Len(queue), NEW giveUp \in BOOLEAN,
         Skips(k, giveUp), NEW report \in WireSet, Start(report),
         stale' \in BOOLEAN, held' \in BOOLEAN, held' => queue' # <<>>
  PROVE  OutputTypes'
<1>1. QueueTypes'
  BY SkipsTyped DEF QueueTypes
<1>2. WireTypes' /\ wire' # <<>>
  BY DEF Start, WireTypes
<1>3. HeldIsFront'
  BY <1>2 DEF HeldIsFront
<1>4. FlagTypes'
  BY Zenon DEF Start, OutputTypes, FlagTypes
<1> QED
  BY <1>1, <1>2, <1>3, <1>4 DEF Start, OutputTypes, GenerationType, ToldTypes, EventTypes,
                                ButtonTypes

LEMMA PassOverTyped ==
  ASSUME OutputTypes, NEW k \in 0 .. Len(queue), NEW giveUp \in BOOLEAN,
         PassOver(k, giveUp)
  PROVE  OutputTypes'
<1>1. QueueTypes' /\ ~held /\ Skips(k, giveUp)
  BY SkipsTyped DEF PassOver, Skips, QueueTypes
<1> QED
  BY <1>1 DEF PassOver, OutputTypes, GenerationType, FlagTypes, WireTypes, ToldTypes, EventTypes,
              ButtonTypes, HeldIsFront

LEMMA ReportsTyped ==
  ASSUME OutputTypes, NEW buttons \in SUBSET PhysicalButtons
  PROVE  /\ \A entry \in EntrySet, carries \in BOOLEAN : \A motion \in Moves(entry) :
              EntryReport(entry, motion, carries, buttons) \in WireSet
         /\ \A g \in Nat : PhysicalReport(g, buttons) \in WireSet /\ ForeignReport(g) \in WireSet
<1>1. generation \in Nat /\ applied \in MaskSet /\ buttons \in SUBSET AllButtons
      /\ 0 \in AllButtons /\ ButtonsOf(applied) \in SUBSET AllButtons
  BY OutputLimits DEF OutputTypes, GenerationType, ButtonTypes, AllButtons, MaskSet, ButtonsOf
<1>2. ASSUME NEW entry \in EntrySet, NEW carries \in BOOLEAN, NEW motion \in Moves(entry)
      PROVE  EntryReport(entry, motion, carries, buttons) \in WireSet
  <2>1. motion \in Int
    BY DEF Moves, EntrySet
  <2>2. /\ entry.kind \in ReportKinds /\ entry.key \in KeyPairs /\ entry.button \in AllButtons
        /\ Masks(entry) \in MaskSet /\ ButtonsOf(Masks(entry)) \in SUBSET AllButtons
    BY MasksTyped DEF EntrySet
  <2>3. (IF carries THEN buttons ELSE {}) \in SUBSET PhysicalButtons
    OBVIOUS
  <2>4. buttons \cup ButtonsOf(Masks(entry)) \in SUBSET AllButtons
    BY <1>1, <2>2
  <2>5. (/\ entry.kind \in Presses
         /\ entry.button \in physical \cup ButtonsOf(applied)) \in BOOLEAN
    OBVIOUS
  <2> QED
    BY <1>1, <2>1, <2>2, <2>3, <2>4, <2>5 DEF EntryReport, WireSet
<1>3. ASSUME NEW g \in Nat
      PROVE  PhysicalReport(g, buttons) \in WireSet /\ ForeignReport(g) \in WireSet
  <2>1. NoMasks \in MaskSet
    BY DEF NoMasks, MaskSet
  <2>2. (IF g = generation THEN buttons \cup ButtonsOf(applied) ELSE buttons) \in SUBSET AllButtons
    BY <1>1
  <2>3. PhysicalReport(g, buttons) \in WireSet
    BY <1>1, <2>1, <2>2 DEF PhysicalReport, WireSet
  <2>4. ForeignReport(g) \in WireSet
    BY <1>1, <2>1 DEF ForeignReport, WireSet
  <2> QED
    BY <2>3, <2>4
<1> QED
  BY <1>2, <1>3

LEMMA WriterTakesTyped ==
  ASSUME OutputTypes, WriterTakes
  PROVE  OutputTypes'
<1>1. PICK k \in 0 .. Len(queue), giveUp \in BOOLEAN :
        \/ PassOver(k, giveUp)
        \/ \E carries \in BOOLEAN, buttons \in SUBSET PhysicalButtons :
             StartEntry(k, giveUp, carries, buttons)
        \/ \E g \in 1 .. generation, buttons \in SUBSET PhysicalButtons :
             StartPhysical(k, giveUp, g, buttons)
        \/ \E g \in 1 .. generation : StartForeign(k, giveUp, g)
  BY DEF WriterTakes
<1>2. CASE PassOver(k, giveUp)
  BY <1>2, PassOverTyped
<1>3. ASSUME NEW carries \in BOOLEAN, NEW buttons \in SUBSET PhysicalButtons,
             StartEntry(k, giveUp, carries, buttons)
      PROVE  OutputTypes'
  <2>1. Skips(k, giveUp) /\ k < Len(queue) /\ held' = TRUE /\ stale' = stale
    BY <1>3 DEF StartEntry
  <2>2. Head(AfterSkip(k, giveUp)) \in EntrySet /\ queue' # <<>>
    BY <2>1, SkipsTyped
  <2>3. PICK motion \in Moves(Head(AfterSkip(k, giveUp))) :
          Start(EntryReport(Head(AfterSkip(k, giveUp)), motion, carries, buttons))
    BY <1>3 DEF StartEntry
  <2>4. EntryReport(Head(AfterSkip(k, giveUp)), motion, carries, buttons) \in WireSet
    BY <2>2, ReportsTyped
  <2>5. stale' \in BOOLEAN /\ held' \in BOOLEAN
    BY <2>1, Zenon DEF OutputTypes, FlagTypes
  <2> QED
    BY <2>1, <2>2, <2>3, <2>4, <2>5, StartTyped
<1>4. ASSUME NEW g \in 1 .. generation, NEW report \in WireSet, Skips(k, giveUp),
             InOrder(g), Start(report), held' = held
      PROVE  OutputTypes'
  <2>1. stale' \in BOOLEAN
    BY <1>4, Zenon DEF InOrder, OutputTypes, FlagTypes
  <2>2. held' = FALSE
    BY <1>4, Zenon DEF Skips, OutputTypes, FlagTypes
  <2>3. held' \in BOOLEAN /\ (held' => queue' # <<>>)
    BY <2>2, Zenon
  <2> QED
    BY <1>4, <2>1, <2>3, StartTyped
<1>5. \A g \in 1 .. generation : g \in Nat
  BY OutputLimits DEF OutputTypes, GenerationType
<1>6. ASSUME NEW g \in 1 .. generation, NEW buttons \in SUBSET PhysicalButtons,
             StartPhysical(k, giveUp, g, buttons)
      PROVE  OutputTypes'
  BY <1>4, <1>5, <1>6, ReportsTyped DEF StartPhysical
<1>7. ASSUME NEW g \in 1 .. generation, StartForeign(k, giveUp, g)
      PROVE  OutputTypes'
  BY <1>4, <1>5, <1>7, ReportsTyped DEF StartForeign
<1> QED
  BY <1>1, <1>2, <1>3, <1>6, <1>7

LEMMA RewrittenTyped ==
  ASSUME OutputTypes, wire # <<>>, queue # <<>>
  PROVE  /\ Rewritten \in EntrySet /\ Written \in WireSet /\ Head(queue) \in EntrySet
         /\ Rewritten.left = Head(queue).left - Written.motion
         /\ Rewritten = [Head(queue) EXCEPT !.committed = TRUE,
                                            !.left = Head(queue).left - Written.motion]
<1>1. Head(queue) \in EntrySet /\ Written \in WireSet
  BY DEF OutputTypes, QueueTypes, WireTypes, Written
<1>2. Written.motion \in Int /\ Head(queue).left \in Int
  BY <1>1 DEF WireSet, EntrySet
<1> HIDE DEF Written
<1> DEFINE front == Head(queue)
<1> HIDE DEF front
<1>3. front \in EntrySet /\ front.left - Written.motion \in Int
  BY <1>1, <1>2 DEF front
<1>4. Rewritten = [front EXCEPT !.committed = TRUE, !.left = front.left - Written.motion]
  BY <1>3 DEF Rewritten, front, EntrySet
<1>5. /\ Rewritten \in EntrySet
      /\ Rewritten.left = front.left - Written.motion
  BY <1>3, <1>4 DEF EntrySet
<1> QED
  BY <1>1, <1>4, <1>5 DEF front

LEMMA FinishTyped ==
  ASSUME OutputTypes, NEW success \in BOOLEAN, Finish(success)
  PROVE  OutputTypes'
<1>1. /\ wire # <<>> /\ wire' = <<>> /\ held' = FALSE
      /\ HostSees(success)
      /\ IF held /\ success
         THEN /\ applied' = Written.masks
              /\ queue' = IF Rewritten.left = 0 THEN Tail(queue)
                          ELSE [queue EXCEPT ![1] = Rewritten]
         ELSE UNCHANGED <<applied, queue>>
      /\ told' = <<EventOf(success)>> \/ told' = <<>>
      /\ UNCHANGED <<generation, ready, stale, events, overflow>>
  BY DEF Finish
<1>2. Written \in WireSet
  BY <1>1 DEF OutputTypes, WireTypes, Written
<1> HIDE DEF Written
<1>3. /\ Written.key \in KeyPairs \cup {NullKey} /\ Written.generation \in Nat
      /\ Written.kind \in ReportKinds \cup {"NONE"} /\ Written.button \in AllButtons
      /\ Written.masks \in MaskSet /\ Written.motion \in Int /\ Written.blocked \in BOOLEAN
      /\ Written.buttons \in SUBSET PhysicalButtons /\ Written.shown \in SUBSET AllButtons
  BY <1>2 DEF WireSet
<1>4. QueueTypes'
  <2>1. CASE held /\ success
    <3>1. queue # <<>>
      BY <2>1 DEF OutputTypes, HeldIsFront
    <3>2. Rewritten \in EntrySet
      BY <1>1, <3>1, RewrittenTyped
    <3>3. queue \in Seq(EntrySet) /\ Len(queue) <= QueueLimit /\ QueueLimit \in Nat
      BY OutputLimits DEF OutputTypes, QueueTypes
    <3>4. \/ queue' = Tail(queue)
          \/ queue' = [queue EXCEPT ![1] = Rewritten]
      BY <1>1, <2>1
    <3>5. /\ Tail(queue) \in Seq(EntrySet) /\ Len(Tail(queue)) = Len(queue) - 1
      BY <3>1, <3>3
    <3>6. /\ [queue EXCEPT ![1] = Rewritten] \in Seq(EntrySet)
          /\ Len([queue EXCEPT ![1] = Rewritten]) = Len(queue)
      BY <3>1, <3>2, <3>3
    <3> QED
      BY <3>3, <3>4, <3>5, <3>6 DEF QueueTypes
  <2> QED
    BY <1>1, <2>1 DEF OutputTypes, QueueTypes
<1>5. ToldTypes'
  <2>1. (success /\ held /\ Rewritten.left = 0) \in BOOLEAN
    OBVIOUS
  <2>2. (IF Written.kind = "NONE" THEN {} ELSE FinalButtons) \in SUBSET AllButtons
    <3>1. ButtonsOf(Written.masks) \in SUBSET AllButtons
      BY <1>3 DEF MaskSet, ButtonsOf
    <3>2. (IF Written.carries THEN Written.buttons ELSE physical) \in SUBSET AllButtons
      BY <1>3 DEF OutputTypes, ButtonTypes, AllButtons
    <3> QED
      BY <3>1, <3>2 DEF FinalButtons
  <2>3. EventOf(success) \in EventSet
    BY <1>3, <2>1, <2>2 DEF EventOf, EventSet
  <2>4. /\ <<EventOf(success)>> \in Seq(EventSet) /\ Len(<<EventOf(success)>>) <= 1
    BY <2>3, OneTyped
  <2>5. <<>> \in Seq(EventSet) /\ Len(<<>>) = 0
    BY EmptyTyped
  <2>6. CASE told' = <<>>
    BY <2>5, <2>6 DEF ToldTypes
  <2>7. CASE told' = <<EventOf(success)>>
    BY <2>4, <2>7, Zenon DEF ToldTypes
  <2> QED
    BY <1>1, <2>6, <2>7
<1>6. ButtonTypes'
  <2>1. applied' \in MaskSet
    BY <1>1, <1>3 DEF OutputTypes, ButtonTypes
  <2>2. host' \in SUBSET AllButtons /\ physical' \in SUBSET PhysicalButtons
    BY <1>1, <1>3 DEF HostSees, OutputTypes, ButtonTypes
  <2> QED
    BY <2>1, <2>2 DEF ButtonTypes
<1>7. WireTypes'
  BY <1>1, EmptyTyped DEF WireTypes
<1>8. FlagTypes' /\ HeldIsFront'
  <2>1. fresh' \in BOOLEAN
    BY <1>1, Zenon DEF HostSees
  <2> QED
    BY <1>1, <2>1, Zenon DEF OutputTypes, FlagTypes, HeldIsFront
<1> QED
  BY <1>1, <1>4, <1>5, <1>6, <1>7, <1>8 DEF OutputTypes, GenerationType, EventTypes

LEMMA TellTyped ==
  ASSUME OutputTypes, Tell
  PROVE  OutputTypes'
<1>1. ToldTypes'
  BY EmptyTyped DEF Tell, ToldTypes
<1>2. EventTypes'
  <2>1. CASE Len(events) < EventLimit
    <3>1. told \in Seq(EventSet) /\ Len(told) <= 1 /\ events \in Seq(EventSet)
      BY DEF OutputTypes, ToldTypes, EventTypes
    <3>2. events' = events \o told
      BY <2>1 DEF Tell
    <3>3. events \o told \in Seq(EventSet) /\ Len(events \o told) <= Len(events) + 1
      BY <3>1
    <3>4. Len(events \o told) <= EventLimit
      BY <2>1, <3>1, <3>3, OutputLimits
    <3> QED
      BY <3>2, <3>3, <3>4 DEF EventTypes
  <2> QED
    BY <2>1 DEF Tell, OutputTypes, EventTypes
<1>3. FlagTypes'
  BY Zenon DEF Tell, OutputTypes, FlagTypes
<1> QED
  BY <1>1, <1>2, <1>3 DEF Tell, OutputTypes, GenerationType, QueueTypes, WireTypes, ButtonTypes,
                          HeldIsFront

LEMMA EndpointTyped ==
  ASSUME OutputTypes, BecomeReady \/ Discard \/ Reset
  PROVE  OutputTypes'
<1>1. CASE BecomeReady \/ Discard
  <2>1. FlagTypes'
    BY <1>1, Zenon DEF BecomeReady, Discard, OutputTypes, FlagTypes
  <2> QED
    BY <1>1, <2>1 DEF BecomeReady, Discard, OutputTypes, GenerationType, QueueTypes, WireTypes,
                      ToldTypes, EventTypes, ButtonTypes, HeldIsFront
<1>2. CASE Reset
  <2>1. FlagTypes' /\ HeldIsFront'
    BY <1>2, Zenon DEF Reset, OutputTypes, FlagTypes, HeldIsFront
  <2>2. GenerationType'
    BY <1>2, OutputLimits DEF Reset, OutputTypes, GenerationType
  <2>3. QueueTypes'
    BY <1>2, EmptyTyped, OutputLimits DEF Reset, QueueTypes
  <2>4. ButtonTypes'
    BY <1>2 DEF Reset, OutputTypes, ButtonTypes, NoMasks, MaskSet
  <2> QED
    BY <1>2, <2>1, <2>2, <2>3, <2>4 DEF Reset, OutputTypes, WireTypes, ToldTypes, EventTypes
<1> QED
  BY <1>1, <1>2

-----------------------------------------------------------------------------
(* The server loop: types, and how the command cache, the click queue and  *)
(* the release that is owed go together.                                   *)

AnyKey == {NoKey} \cup Keys
ClickSet ==
  [key : AnyKey, button : {ClickButton}, count : Nat, index : Nat, phase : Phases,
   due : BOOLEAN, blocked : BOOLEAN]
RecordSet ==
  [key : Keys, kind : {"schedule", "release"}, count : Nat, completed : Nat,
   status : {"accepted", "cancelled", "completed", "button_active"}, terminal : BOOLEAN]
RequestSet ==
  [peer : Peers \cup {NoPeer}, next : SUBSET AllButtons, moves : BOOLEAN, text : BOOLEAN]

WorkTypes == work \in Seq(ClickSet) /\ Len(work) <= ClickLimit
RecordTypes == records \in Seq(RecordSet) /\ Len(records) <= RecordLimit
LeaseTypes ==
  /\ owner \in Peers \cup {NoPeer}
  /\ persistentButtons \in SUBSET AllButtons /\ scheduledButtons \in SUBSET AllButtons
KeyTypes == latest \in 0 .. CommandLimit /\ releaseKey \in AnyKey
LoopTypes ==
  /\ tracked \in 0 .. generation /\ seen \in 0 .. generation
  /\ batch \in Seq(EventSet) /\ asked \in RequestSet

(* The loop handles an event it has, and presses for a click it has.       *)
CallsReady ==
  /\ pc = "handle" => batch # <<>>
  /\ pc = "press" => work # <<>>

ServerTypes ==
  /\ OutputTypes /\ WorkTypes /\ RecordTypes /\ LeaseTypes /\ KeyTypes /\ LoopTypes
  /\ CallsReady

(* The commands whose end is still to be told.                             *)
OpenKeys == WorkKeys \cup ({releaseKey} \ {NoKey})

OneRecord ==
  \A i, j \in DOMAIN records : records[i].key = records[j].key => i = j
OneClick ==
  \A i, j \in DOMAIN work : work[i].key = work[j].key /\ work[i].key # NoKey => i = j

(* Every key in use was accepted before, a record that is terminal has     *)
(* nothing left to come, and a release is no click command.                *)
KeysInv ==
  /\ OneRecord /\ OneClick
  /\ \A j \in DOMAIN work : work[j].key <= latest
  /\ releaseKey <= latest /\ releaseKey \notin WorkKeys
  /\ \A j \in DOMAIN records :
       /\ records[j].key <= latest
       /\ records[j].terminal => records[j].key \notin OpenKeys

ServerInv == ServerTypes /\ KeysInv

FinalStep ==
  \A i \in DOMAIN records, j \in DOMAIN records' :
    records[i].terminal /\ records'[j].key = records[i].key => records'[j] = records[i]

-----------------------------------------------------------------------------
(* Sequences: what an edit of the first element, a tail and an append do.  *)

LEMMA FirstEdited ==
  ASSUME NEW S, NEW q \in Seq(S), q # <<>>, NEW e \in S
  PROVE  /\ [q EXCEPT ![1] = e] \in Seq(S)
         /\ Len([q EXCEPT ![1] = e]) = Len(q)
         /\ DOMAIN [q EXCEPT ![1] = e] = DOMAIN q
         /\ [q EXCEPT ![1] = e] # <<>>
         /\ \A j \in DOMAIN q : [q EXCEPT ![1] = e][j] = IF j = 1 THEN e ELSE q[j]
<1>1. 1 \in DOMAIN q /\ DOMAIN q = 1 .. Len(q) /\ Len(q) \in Nat
  OBVIOUS
<1>2. /\ [q EXCEPT ![1] = e] \in Seq(S)
      /\ Len([q EXCEPT ![1] = e]) = Len(q)
  OBVIOUS
<1> QED
  BY <1>1, <1>2

LEMMA TailElements ==
  ASSUME NEW S, NEW q \in Seq(S), q # <<>>
  PROVE  /\ Tail(q) \in Seq(S) /\ Len(Tail(q)) = Len(q) - 1
         /\ Head(q) = q[1] /\ q[1] \in S /\ 1 \in DOMAIN q
         /\ \A j \in DOMAIN Tail(q) :
              j \in Nat \ {0} /\ j + 1 \in DOMAIN q /\ Tail(q)[j] = q[j + 1]
  OBVIOUS

LEMMA AppendElements ==
  ASSUME NEW S, NEW q \in Seq(S), NEW e \in S
  PROVE  /\ Append(q, e) \in Seq(S) /\ Len(Append(q, e)) = Len(q) + 1
         /\ \A j \in DOMAIN q : j \in DOMAIN Append(q, e) /\ Append(q, e)[j] = q[j]
         /\ \A j \in DOMAIN Append(q, e) :
              \/ j \in DOMAIN q
              \/ j = Len(q) + 1 /\ Append(q, e)[j] = e
         /\ Len(q) + 1 \notin DOMAIN q
<1>1. DOMAIN q = 1 .. Len(q) /\ Len(q) \in Nat
  OBVIOUS
<1>2. /\ Append(q, e) \in Seq(S) /\ Len(Append(q, e)) = Len(q) + 1
      /\ \A j \in 1 .. Len(q) : Append(q, e)[j] = q[j]
      /\ Append(q, e)[Len(q) + 1] = e
  OBVIOUS
<1>3. DOMAIN Append(q, e) = 1 .. Len(q) + 1
  BY <1>2
<1> HIDE DEF Append
<1> QED
  BY <1>1, <1>2, <1>3

LEMMA SuffixElements ==
  ASSUME NEW S, NEW q \in Seq(S), NEW k \in 0 .. Len(q)
  PROVE  /\ SubSeq(q, k + 1, Len(q)) \in Seq(S) /\ Len(SubSeq(q, k + 1, Len(q))) = Len(q) - k
         /\ \A j \in 1 .. Len(q) - k : SubSeq(q, k + 1, Len(q))[j] = q[k + j]
<1> DEFINE m == k + 1
           n == Len(q)
           b == SubSeq(q, m, n)
<1>1. m \in Int /\ n \in Nat /\ k \in Nat /\ k <= n /\ m = k + 1 /\ \A j \in m .. n : q[j] \in S
  OBVIOUS
<1>2. /\ b \in Seq(S) /\ Len(b) = IF m <= n THEN n - m + 1 ELSE 0
      /\ \A j \in 1 .. n - m + 1 : b[j] = q[m + j - 1]
  BY <1>1, SubSeqProperties
<1> HIDE DEF b, m, n
<1>3. n - m + 1 = n - k /\ (IF m <= n THEN n - m + 1 ELSE 0) = n - k
  BY <1>1
<1>4. \A j \in 1 .. n - k : m + j - 1 = k + j
  BY <1>1
<1> QED
  BY <1>2, <1>3, <1>4 DEF b, m, n

(* A set of numbers that is not empty has a least one.                     *)
LEMMA Least ==
  ASSUME NEW S \in SUBSET Nat, S # {}
  PROVE  \E i \in S : \A o \in S : i <= o
<1>1. PICK i \in S : \A o \in S : ~(<<o, i>> \in OpToRel(<, Nat))
  BY NatLessThanWellFounded, WFMin
<1>2. \A o \in S : ~(o < i)
  BY <1>1 DEF OpToRel
<1> QED
  BY <1>2

-----------------------------------------------------------------------------
(* The command cache.                                                      *)

LEMMA EndedRecords ==
  ASSUME NEW q \in Seq(RecordSet), NEW keys,
         NEW status \in {"cancelled", "completed", "button_active"}
  PROVE  /\ Ended(q, keys, status) \in Seq(RecordSet)
         /\ Len(Ended(q, keys, status)) = Len(q)
         /\ DOMAIN Ended(q, keys, status) = DOMAIN q
         /\ \A j \in DOMAIN q :
              /\ Ended(q, keys, status)[j].key = q[j].key
              /\ q[j].key \notin keys => Ended(q, keys, status)[j] = q[j]
<1>1. DOMAIN q = 1 .. Len(q) /\ Len(q) \in Nat /\ \A j \in DOMAIN q : q[j] \in RecordSet
  OBVIOUS
<1> DEFINE e == Ended(q, keys, status)
<1>2. DOMAIN e = DOMAIN q
  BY DEF Ended
<1>3. \A j \in DOMAIN q : e[j] = IF q[j].key \in keys
                                 THEN [q[j] EXCEPT !.status = status, !.terminal = TRUE]
                                 ELSE q[j]
  BY DEF Ended
<1>4. ASSUME NEW r \in RecordSet
      PROVE  /\ [r EXCEPT !.status = status, !.terminal = TRUE] \in RecordSet
             /\ [r EXCEPT !.status = status, !.terminal = TRUE].key = r.key
  BY DEF RecordSet
<1>5. \A j \in DOMAIN q :
        e[j] \in RecordSet /\ e[j].key = q[j].key /\ (q[j].key \notin keys => e[j] = q[j])
  BY <1>1, <1>3, <1>4
<1>6. e = [j \in DOMAIN q |-> IF q[j].key \in keys
                              THEN [q[j] EXCEPT !.status = status, !.terminal = TRUE]
                              ELSE q[j]]
  BY DEF Ended
<1> HIDE DEF e
<1>7. e = [j \in 1 .. Len(q) |-> e[j]]
  BY <1>1, <1>6
<1>8. e \in Seq(RecordSet) /\ Len(e) = Len(q)
  BY <1>1, <1>2, <1>5, <1>7
<1> QED
  BY <1>2, <1>5, <1>8 DEF e

(* What makes room is one record; the others keep their order.             *)
LEMMA TrimmedRecords ==
  ASSUME RecordTypes, Room
  PROVE  /\ Trimmed \in Seq(RecordSet) /\ Len(Trimmed) < RecordLimit
         /\ \E cut \in Nat : \A j \in DOMAIN Trimmed :
              LET i == IF j < cut THEN j ELSE j + 1
              IN i \in DOMAIN records /\ Trimmed[j] = records[i]
<1>1. /\ records \in Seq(RecordSet) /\ Len(records) \in Nat /\ Len(records) <= RecordLimit
      /\ DOMAIN records = 1 .. Len(records) /\ RecordLimit \in Nat
  BY ServerLimits DEF RecordTypes
<1>2. CASE Len(records) < RecordLimit
  <2>1. Trimmed = records
    BY <1>2 DEF Trimmed
  <2>2. \A j \in DOMAIN records : j < Len(records) + 1
    BY <1>1
  <2> QED
    BY <1>1, <1>2, <2>1, <2>2
<1>3. CASE ~(Len(records) < RecordLimit)
  <2> DEFINE cut == CHOOSE i \in Terminals : \A o \in Terminals : i <= o
  <2>1. Terminals # {} /\ Terminals \in SUBSET Nat
    BY <1>1, <1>3 DEF Room, Terminals
  <2>2. cut \in Terminals
    BY <2>1, Least
  <2>3. cut \in 1 .. Len(records)
    BY <1>1, <2>2 DEF Terminals
  <2>4. Trimmed = SubSeq(records, 1, cut - 1) \o SubSeq(records, cut + 1, Len(records))
    BY <1>3 DEF Trimmed
  <2> HIDE DEF cut
  <2> DEFINE a == SubSeq(records, 1, cut - 1)
             b == SubSeq(records, cut + 1, Len(records))
  <2>5. /\ a \in Seq(RecordSet) /\ Len(a) = cut - 1
        /\ \A j \in 1 .. cut - 1 : a[j] = records[j]
    BY <1>1, <2>3
  <2>6. /\ b \in Seq(RecordSet) /\ Len(b) = Len(records) - cut
        /\ \A j \in 1 .. Len(records) - cut : b[j] = records[cut + j]
    <3>1. cut \in 0 .. Len(records) /\ records \in Seq(RecordSet)
      BY <1>1, <2>3
    <3> QED
      BY <3>1, SuffixElements
  <2> HIDE DEF a, b
  <2>7. /\ a \o b \in Seq(RecordSet) /\ Len(a \o b) = Len(records) - 1
        /\ \A j \in 1 .. Len(records) - 1 :
             (a \o b)[j] = IF j < cut THEN a[j] ELSE b[j - (cut - 1)]
    <3>1. a \o b \in Seq(RecordSet) /\ Len(a \o b) = Len(a) + Len(b)
      BY <2>5, <2>6, ConcatProperties
    <3>2. Len(a \o b) = Len(records) - 1
      BY <1>1, <2>3, <2>5, <2>6, <3>1
    <3>3. \A j \in 1 .. Len(a) + Len(b) :
            (a \o b)[j] = IF j <= Len(a) THEN a[j] ELSE b[j - Len(a)]
      BY <2>5, <2>6, ConcatProperties
    <3>4. \A j \in 1 .. Len(records) - 1 : j \in 1 .. Len(a) + Len(b) /\ (j <= Len(a) <=> j < cut)
      BY <1>1, <2>3, <2>5, <2>6
    <3> QED
      BY <2>5, <3>1, <3>2, <3>3, <3>4
  <2>8. \A j \in 1 .. Len(records) - 1 : (a \o b)[j] = IF j < cut THEN records[j] ELSE records[j + 1]
    <3> SUFFICES ASSUME NEW j \in 1 .. Len(records) - 1
                 PROVE  (a \o b)[j] = IF j < cut THEN records[j] ELSE records[j + 1]
      OBVIOUS
    <3>1. CASE j < cut
      BY <1>1, <2>3, <2>5, <2>7, <3>1
    <3>2. CASE ~(j < cut)
      <4>1. j - (cut - 1) \in 1 .. Len(records) - cut /\ cut + (j - (cut - 1)) = j + 1
        BY <1>1, <2>3, <3>2
      <4>2. b[j - (cut - 1)] = records[j + 1]
        BY <2>6, <4>1
      <4> QED
        BY <2>7, <3>2, <4>2
    <3> QED
      BY <3>1, <3>2
  <2>9. Trimmed = a \o b /\ DOMAIN (a \o b) = 1 .. Len(records) - 1
    BY <1>1, <2>4, <2>7 DEF a, b
  <2>10. \A j \in 1 .. Len(records) - 1 : j \in 1 .. Len(records) /\ j + 1 \in 1 .. Len(records)
    BY <1>1
  <2>11. Len(a \o b) < RecordLimit
    BY <1>1, <2>7
  <2>12. cut \in Nat
    BY <1>1, <2>3
  <2> QED
    BY <1>1, <2>7, <2>8, <2>9, <2>10, <2>11, <2>12
<1> QED
  BY <1>2, <1>3

-----------------------------------------------------------------------------
(* Keys: a step that ends some open commands, and one that ends none.      *)

LEMMA OpenIsAccepted ==
  ASSUME KeysInv
  PROVE  \A key \in OpenKeys : key <= latest /\ key # NoKey
  BY DEF KeysInv, OpenKeys, WorkKeys

LEMMA RecordsEnd ==
  ASSUME ServerTypes, KeysInv, NEW ended, ended \subseteq OpenKeys,
         DOMAIN records' = DOMAIN records,
         \A j \in DOMAIN records :
           /\ records'[j].key = records[j].key
           /\ records[j].key \notin ended => records'[j] = records[j]
           /\ records[j].key \in OpenKeys' => records'[j].terminal = records[j].terminal,
         latest' = latest, releaseKey' \in {NoKey, releaseKey},
         OneClick', \A j \in DOMAIN work' : work'[j].key \in {NoKey} \cup WorkKeys
  PROVE  KeysInv' /\ FinalStep
<1>1. latest \in Nat /\ NoKey <= latest
  BY ServerLimits DEF ServerTypes, KeyTypes, NoKey
<1>2. WorkKeys' \subseteq WorkKeys
  BY DEF WorkKeys
<1>3. OneRecord'
  BY DEF KeysInv, OneRecord
<1>4. \A j \in DOMAIN work' : work'[j].key <= latest
  BY <1>1 DEF KeysInv, WorkKeys
<1>5. releaseKey' <= latest /\ releaseKey' \notin WorkKeys'
  BY <1>1, <1>2 DEF KeysInv, WorkKeys
<1>6. OpenKeys' \subseteq OpenKeys
  BY <1>2 DEF OpenKeys
<1>7. ASSUME NEW j \in DOMAIN records'
      PROVE  /\ records'[j].key <= latest
             /\ records'[j].terminal => records'[j].key \notin OpenKeys'
  <2>1. j \in DOMAIN records /\ records'[j].key = records[j].key /\ records[j].key <= latest
    BY DEF KeysInv
  <2>2. CASE records'[j].key \in OpenKeys'
    <3>1. records'[j].terminal = records[j].terminal /\ records[j].key \in OpenKeys
      BY <1>6, <2>1, <2>2
    <3>2. ~records[j].terminal
      BY <2>1, <3>1 DEF KeysInv
    <3> QED
      BY <2>1, <3>1, <3>2, Zenon
  <2> QED
    BY <2>1, <2>2
<1>8. FinalStep
  <2> SUFFICES ASSUME NEW i \in DOMAIN records, NEW j \in DOMAIN records',
                      records[i].terminal, records'[j].key = records[i].key
               PROVE  records'[j] = records[i]
    BY DEF FinalStep
  <2>1. j \in DOMAIN records /\ records[j].key = records[i].key
    OBVIOUS
  <2>2. j = i
    BY <2>1 DEF KeysInv, OneRecord
  <2>3. records[i].key \notin ended
    BY DEF KeysInv
  <2> QED
    BY <2>2, <2>3
<1> QED
  BY <1>1, <1>3, <1>4, <1>5, <1>7, <1>8 DEF KeysInv

SameClicks ==
  DOMAIN work' = DOMAIN work /\ \A j \in DOMAIN work : work'[j].key = work[j].key

LEMMA KeysKept ==
  ASSUME ServerTypes, KeysInv, SameClicks, UNCHANGED <<records, latest>>,
         releaseKey' \in {NoKey, releaseKey}
  PROVE  KeysInv' /\ FinalStep
<1>1. OneClick'
  BY DEF KeysInv, OneClick, SameClicks
<1>2. \A j \in DOMAIN work' : work'[j].key \in {NoKey} \cup WorkKeys
  BY DEF SameClicks, WorkKeys
<1>3. {} \subseteq OpenKeys
  OBVIOUS
<1> QED
  BY <1>1, <1>2, <1>3, RecordsEnd, Zenon

(* The records of the commands that are ended, where the release and the   *)
(* clicks that are left are not among them.                                *)
LEMMA EndedEnds ==
  ASSUME ServerTypes, KeysInv, NEW ended, ended \subseteq OpenKeys,
         NEW status \in {"cancelled", "completed", "button_active"},
         records' = Ended(records, ended, status),
         latest' = latest, releaseKey' \in {NoKey, releaseKey},
         OneClick', \A j \in DOMAIN work' : work'[j].key \in {NoKey} \cup WorkKeys,
         ended \cap OpenKeys' = {}
  PROVE  RecordTypes' /\ KeysInv' /\ FinalStep
<1>1. records \in Seq(RecordSet) /\ Len(records) <= RecordLimit
  BY DEF ServerTypes, RecordTypes
<1>2. /\ records' \in Seq(RecordSet) /\ Len(records') = Len(records)
      /\ DOMAIN records' = DOMAIN records
      /\ \A j \in DOMAIN records :
           /\ records'[j].key = records[j].key
           /\ records[j].key \notin ended => records'[j] = records[j]
  BY <1>1, EndedRecords
<1>3. \A j \in DOMAIN records :
        records[j].key \in OpenKeys' => records'[j].terminal = records[j].terminal
  BY <1>2
<1>4. KeysInv' /\ FinalStep
  BY <1>2, <1>3, RecordsEnd
<1> QED
  BY <1>1, <1>2, <1>4 DEF RecordTypes

LEMMA NoClicks ==
  ASSUME work' = <<>>
  PROVE  WorkTypes' /\ OneClick' /\ WorkKeys' = {} /\ DOMAIN work' = {}
<1>1. DOMAIN work' = {} /\ Len(work') = 0 /\ work' \in Seq(ClickSet)
  OBVIOUS
<1> QED
  BY <1>1, ServerLimits DEF WorkTypes, OneClick, WorkKeys

(* begin_reset() of what has already been accepted.                        *)
LEMMA ResetKeeps ==
  ASSUME ServerTypes, KeysInv, BeginReset(FALSE, NoKey, records), latest' = latest
  PROVE  /\ OutputTypes' /\ WorkTypes' /\ RecordTypes' /\ KeyTypes' /\ KeysInv' /\ FinalStep
         /\ generation' = generation /\ tracked' = generation /\ work' = <<>>
         /\ persistentButtons' = {} /\ scheduledButtons' = {}
<1>1. /\ records' = Ended(records, {} \cup WorkKeys, "cancelled")
      /\ work' = <<>> /\ persistentButtons' = {} /\ scheduledButtons' = {}
      /\ Clear /\ tracked' = generation /\ releaseKey' = releaseKey
  BY DEF BeginReset
<1>2. records' = Ended(records, WorkKeys, "cancelled")
  <2>1. {} \cup WorkKeys = WorkKeys
    OBVIOUS
  <2> QED
    BY <1>1, <2>1
<1>3. WorkTypes' /\ OneClick' /\ WorkKeys' = {} /\ DOMAIN work' = {}
  BY <1>1, NoClicks
<1>4. WorkKeys \subseteq OpenKeys /\ WorkKeys \cap OpenKeys' = {}
  BY <1>1, <1>3 DEF OpenKeys, KeysInv
<1>5. RecordTypes' /\ KeysInv' /\ FinalStep
  BY <1>1, <1>2, <1>3, <1>4, EndedEnds
<1>6. OutputTypes' /\ generation' = generation
  BY <1>1, CallsTyped DEF ServerTypes, Clear
<1> QED
  BY <1>1, <1>3, <1>5, <1>6 DEF ServerTypes, KeyTypes

LEMMA InitKeeps == Init => ServerInv
<1> SUFFICES ASSUME Init PROVE ServerInv
  OBVIOUS
<1>1. OutputTypes
  BY OutputInitTyped DEF Init
<1>2. WorkTypes /\ RecordTypes
  BY EmptyTyped, ServerLimits DEF Init, WorkTypes, RecordTypes
<1>3. LeaseTypes
  BY DEF Init, LeaseTypes
<1>4. KeyTypes
  BY ServerLimits DEF Init, KeyTypes, AnyKey
<1>5. LoopTypes
  <2>1. asked \in RequestSet
    BY DEF Init, NoRequest, RequestSet
  <2>2. batch \in Seq(EventSet)
    BY EmptyTyped DEF Init
  <2>3. tracked \in 0 .. generation /\ seen \in 0 .. generation
    BY DEF Init, OutputInit
  <2> QED
    BY <2>1, <2>2, <2>3 DEF LoopTypes
<1>6. CallsReady
  BY DEF Init, CallsReady
<1>7. KeysInv
  <2>1. DOMAIN work = {} /\ DOMAIN records = {} /\ releaseKey = NoKey /\ latest = NoKey /\ NoKey = 0
    BY DEF Init, NoKey
  <2>2. OneRecord /\ OneClick /\ WorkKeys = {}
    BY <2>1 DEF OneRecord, OneClick, WorkKeys
  <2> QED
    BY <2>1, <2>2 DEF KeysInv
<1> QED
  BY <1>1, <1>2, <1>3, <1>4, <1>5, <1>6, <1>7 DEF ServerInv, ServerTypes

(* A step that leaves the clicks, the cache and the release alone.         *)
LEMMA QuietKeeps ==
  ASSUME ServerInv, UNCHANGED <<work, records, latest, releaseKey>>,
         OutputTypes', LeaseTypes', LoopTypes', CallsReady'
  PROVE  ServerInv' /\ FinalStep
<1>1. SameClicks
  BY DEF SameClicks
<1>2. KeysInv' /\ FinalStep
  BY <1>1, KeysKept DEF ServerInv
<1>3. WorkTypes' /\ RecordTypes' /\ KeyTypes'
  BY DEF ServerInv, ServerTypes, WorkTypes, RecordTypes, KeyTypes
<1> QED
  BY <1>2, <1>3 DEF ServerInv, ServerTypes

LEMMA ReportsAreCommands ==
  ASSUME ServerTypes
  PROVE  /\ ReleaseReport \in CommandSet /\ HoldReport(asked) \in CommandSet
         /\ Report("RELEASE_ALL", NoKey, 0, {}, {}, 0, 0, FALSE) \in CommandSet
         /\ \A click \in ClickSet :
              PressReport(click) \in CommandSet /\ EdgeReport(click) \in CommandSet
<1>1. /\ persistentButtons \in SUBSET AllButtons /\ scheduledButtons \in SUBSET AllButtons
      /\ 0 \in AllButtons /\ ClickButton \in AllButtons /\ {} \in SUBSET AllButtons
  BY DEF ServerTypes, LeaseTypes, AllButtons
<1>2. ASSUME NEW kind \in ReportKinds, NEW key \in AnyKey, NEW index \in Nat,
             NEW p \in SUBSET AllButtons, NEW s \in SUBSET AllButtons,
             NEW button \in AllButtons, NEW motion \in Int, NEW latestOnly \in BOOLEAN
      PROVE  Report(kind, key, index, p, s, button, motion, latestOnly) \in CommandSet
  BY DEF Report, CommandSet, KeyPairs, AnyKey
<1>3. "RELEASE_ALL" \in ReportKinds /\ "CLICK_PRESS" \in ReportKinds
      /\ "CLICK_RELEASE" \in ReportKinds /\ "PERSISTENT" \in ReportKinds /\ "MOVEMENT" \in ReportKinds
  BY DEF ReportKinds, Reported, Forced
<1>4. ReleaseReport \in CommandSet
  <2>1. releaseKey \in AnyKey
    BY DEF ServerTypes, KeyTypes
  <2> QED
    BY <1>1, <1>3, <2>1 DEF ReleaseReport, Report, CommandSet, KeyPairs, AnyKey
<1>5. NoKey \in AnyKey
  BY DEF AnyKey
<1>6. Report("RELEASE_ALL", NoKey, 0, {}, {}, 0, 0, FALSE) \in CommandSet
  BY <1>1, <1>3 DEF Report, CommandSet, KeyPairs
<1>7. HoldReport(asked) \in CommandSet
  <2> DEFINE kind == IF asked.next # persistentButtons THEN "PERSISTENT" ELSE "MOVEMENT"
             motion == IF asked.moves THEN 1 ELSE 0
             latestOnly == ~asked.text /\ asked.next = persistentButtons
  <2>1. kind \in ReportKinds /\ motion \in Int /\ latestOnly \in BOOLEAN
    BY <1>3
  <2>2. asked.next \in SUBSET AllButtons
    BY DEF ServerTypes, LoopTypes, RequestSet
  <2> HIDE DEF kind, motion, latestOnly
  <2>3. Report(kind, NoKey, 0, asked.next, scheduledButtons, 0, motion, latestOnly) \in CommandSet
    BY <1>1, <1>2, <1>5, <2>1, <2>2
  <2> QED
    BY <2>3 DEF HoldReport, kind, motion, latestOnly
<1>8. ASSUME NEW click \in ClickSet
      PROVE  PressReport(click) \in CommandSet /\ EdgeReport(click) \in CommandSet
  <2>1. click.key \in AnyKey /\ click.index \in Nat /\ click.button \in AllButtons
    BY <1>1 DEF ClickSet
  <2>2. scheduledButtons \cup {click.button} \in SUBSET AllButtons
        /\ scheduledButtons \ {click.button} \in SUBSET AllButtons
    BY <1>1, <2>1
  <2> QED
    BY <1>1, <1>3, <2>1, <2>2 DEF PressReport, EdgeReport, Report, CommandSet, KeyPairs, AnyKey
<1> QED
  BY <1>4, <1>6, <1>7, <1>8

(* What the calls of the mixer leave alone.                                *)
LEMMA CallsKeepGeneration ==
  /\ \A c \in CommandSet : Accept(c) => generation' = generation
  /\ \A why \in Refusals : Refuse(why) => UNCHANGED outputVars
  /\ UNCHANGED outputVars \/ Clear \/ TakeEvents \/ TakeOverflow => generation' = generation
  BY DEF Accept, Refuse, outputVars, Clear, TakeEvents, TakeOverflow

(* Between calls the loop may be made to wait: nothing of its own changes. *)
LEMMA OthersKeep ==
  ASSUME ServerInv, OutputTypes', generation <= generation', UNCHANGED serverVars
  PROVE  ServerInv' /\ FinalStep
<1>1. 0 .. generation \subseteq 0 .. generation'
  BY OutputLimits DEF ServerInv, ServerTypes, OutputTypes, GenerationType
<1>2. LeaseTypes' /\ CallsReady'
  BY DEF serverVars, leaseVars, workVars, loopVars, ServerInv, ServerTypes, LeaseTypes, CallsReady
<1>3. LoopTypes'
  BY <1>1 DEF serverVars, loopVars, ServerInv, ServerTypes, LoopTypes
<1> QED
  BY <1>2, <1>3, QuietKeeps DEF serverVars, workVars, releaseVars

-----------------------------------------------------------------------------
(* The loop's calls that change neither clicks nor records.                *)

LEMMA TopKeeps ==
  ASSUME ServerInv, Top \/ Resnapshot
  PROVE  ServerInv' /\ FinalStep
<1>1. OutputTypes' /\ generation' = generation /\ generation \in Nat
  BY OutputKept, CallsKeepGeneration, OutputLimits
     DEF Top, Resnapshot, ServerInv, ServerTypes, OutputTypes, GenerationType
<1>2. LeaseTypes' /\ CallsReady'
  BY DEF Top, Resnapshot, leaseVars, workVars, ServerInv, ServerTypes, LeaseTypes, CallsReady
<1>3. LoopTypes'
  BY <1>1 DEF Top, Resnapshot, ServerInv, ServerTypes, LoopTypes
<1> QED
  BY <1>1, <1>2, <1>3, QuietKeeps DEF Top, Resnapshot, workVars, releaseVars

LEMMA FetchKeeps ==
  ASSUME ServerInv, FetchEvents \/ FetchOverflow
  PROVE  ServerInv' /\ FinalStep
<1>1. OutputTypes' /\ generation' = generation /\ events \in Seq(EventSet)
  BY CallsTyped, CallsKeepGeneration
     DEF FetchEvents, FetchOverflow, ServerInv, ServerTypes, OutputTypes, EventTypes
<1>2. LeaseTypes' /\ CallsReady'
  BY DEF FetchEvents, FetchOverflow, leaseVars, workVars, ServerInv, ServerTypes, LeaseTypes, CallsReady
<1>3. LoopTypes'
  BY <1>1 DEF FetchEvents, FetchOverflow, loopVars, ServerInv, ServerTypes, LoopTypes
<1> QED
  BY <1>1, <1>2, <1>3, QuietKeeps DEF FetchEvents, FetchOverflow, workVars, releaseVars

LEMMA AfterEventKeeps ==
  ASSUME ServerTypes, pc = "handle", AfterEvent
  PROVE  /\ batch' \in Seq(EventSet) /\ Event \in EventSet
         /\ pc' = "handle" => batch' # <<>>
         /\ pc' # "press"
<1>1. batch \in Seq(EventSet) /\ batch # <<>>
  BY DEF ServerTypes, LoopTypes, CallsReady
<1>2. /\ Tail(batch) \in Seq(EventSet) /\ Len(Tail(batch)) = Len(batch) - 1
      /\ Head(batch) \in EventSet /\ Len(batch) \in Nat /\ Len(batch) # 0
  BY <1>1
<1>3. Len(batch) # 1 => Len(Tail(batch)) # 0
  BY <1>2
<1>4. Len(batch) # 1 => Tail(batch) # <<>>
  BY <1>3, EmptyTyped, Zenon
<1> QED
  BY <1>2, <1>4 DEF AfterEvent, Event

LEMMA HandleOtherKeeps ==
  ASSUME ServerInv, HandleOther
  PROVE  ServerInv' /\ FinalStep
<1>1. OutputTypes' /\ generation' = generation
  BY OutputKept, CallsKeepGeneration DEF HandleOther, ServerInv, ServerTypes
<1>2. LeaseTypes' /\ CallsReady'
  BY AfterEventKeeps DEF HandleOther, leaseVars, workVars, ServerInv, ServerTypes, LeaseTypes, CallsReady
<1>3. LoopTypes'
  BY <1>1, AfterEventKeeps DEF HandleOther, ServerInv, ServerTypes, LoopTypes
<1> QED
  BY <1>1, <1>2, <1>3, QuietKeeps DEF HandleOther, workVars, releaseVars

LEMMA TickReleaseKeeps ==
  ASSUME ServerInv, TickRelease \/ TickIdle \/ Timeout \/ LastRelease \/ (Watchdog /\ ~Silent)
  PROVE  ServerInv' /\ FinalStep
<1>1. \/ UNCHANGED outputVars
      \/ Accept(ReleaseReport) \/ Accept(Report("RELEASE_ALL", NoKey, 0, {}, {}, 0, 0, FALSE))
  BY CallsKeepGeneration DEF TickRelease, TickIdle, Timeout, LastRelease, Watchdog, Refusals
<1>2. OutputTypes' /\ generation' = generation
  BY <1>1, OutputKept, AcceptTyped, ReportsAreCommands, CallsKeepGeneration DEF ServerInv, ServerTypes
<1>3. /\ UNCHANGED <<leaseVars, workVars, latest, releaseKey, loopVars>>
      /\ pc' \notin {"handle", "press"}
  BY DEF TickRelease, TickIdle, Timeout, LastRelease, Watchdog, releaseVars, loopVars
<1>4. LeaseTypes' /\ CallsReady'
  BY <1>3 DEF leaseVars, workVars, ServerInv, ServerTypes, LeaseTypes, CallsReady
<1>5. LoopTypes'
  BY <1>2, <1>3 DEF loopVars, ServerInv, ServerTypes, LoopTypes
<1> QED
  BY <1>2, <1>3, <1>4, <1>5, QuietKeeps DEF workVars

-----------------------------------------------------------------------------
(* Packets that change neither clicks nor records.                         *)

LEMMA RenewalKeeps ==
  ASSUME ServerInv,
         \E peer \in Peers : ReceiveKeepalive(peer) \/ \E key \in Keys : ReceiveAgain(peer, key)
  PROVE  ServerInv' /\ FinalStep
<1>1. PICK peer \in Peers : ReceiveKeepalive(peer) \/ \E key \in Keys : ReceiveAgain(peer, key)
  OBVIOUS
<1>2. /\ UNCHANGED <<outputVars, workVars, latest, releaseKey, batch, asked, seen>>
      /\ owner' = peer /\ tracked' \in {tracked, generation} /\ pc' = "top"
  BY <1>1 DEF ReceiveKeepalive, ReceiveAgain, Renew, Done, loopVars, releaseVars
<1>3. OutputTypes' /\ generation' = generation /\ generation \in Nat
  BY <1>2, OutputKept, CallsKeepGeneration, OutputLimits
     DEF ServerInv, ServerTypes, OutputTypes, GenerationType
<1>4. LeaseTypes' /\ CallsReady'
  BY <1>2 DEF workVars, ServerInv, ServerTypes, LeaseTypes, CallsReady
<1>5. LoopTypes'
  BY <1>2, <1>3 DEF ServerInv, ServerTypes, LoopTypes
<1> QED
  BY <1>2, <1>3, <1>4, <1>5, QuietKeeps DEF workVars

LEMMA ReceiveHoldKeeps ==
  ASSUME ServerInv, NEW peer \in Peers, NEW next \in Holds, NEW moves \in Moving,
         NEW text \in BOOLEAN, ReceiveHold(peer, next, moves, text)
  PROVE  ServerInv' /\ FinalStep
<1>1. /\ UNCHANGED <<outputVars, leaseVars, workVars, latest, releaseKey, tracked, batch>>
      /\ seen' = generation /\ pc' = "hold"
      /\ asked' = [peer |-> peer, next |-> next, moves |-> moves, text |-> text]
  BY DEF ReceiveHold, releaseVars
<1>2. next \in SUBSET AllButtons /\ moves \in BOOLEAN
  BY ServerLimits DEF AllButtons
<1>3. asked' \in RequestSet
  BY <1>1, <1>2 DEF RequestSet
<1>4. OutputTypes' /\ generation' = generation /\ generation \in 0 .. generation
  BY <1>1, OutputKept, CallsKeepGeneration, OutputLimits
     DEF ServerInv, ServerTypes, OutputTypes, GenerationType
<1>5. LeaseTypes' /\ CallsReady'
  BY <1>1 DEF leaseVars, workVars, ServerInv, ServerTypes, LeaseTypes, CallsReady
<1>6. LoopTypes'
  BY <1>1, <1>3, <1>4 DEF ServerInv, ServerTypes, LoopTypes
<1> QED
  BY <1>1, <1>4, <1>5, <1>6, QuietKeeps DEF workVars

LEMMA EnqueueHoldKeeps ==
  ASSUME ServerInv, EnqueueHold
  PROVE  ServerInv' /\ FinalStep
<1>1. Accept(HoldReport(asked)) \/ UNCHANGED outputVars
  BY CallsKeepGeneration DEF EnqueueHold
<1>2. OutputTypes' /\ generation' = generation /\ generation \in Nat
  BY <1>1, OutputKept, AcceptTyped, ReportsAreCommands, CallsKeepGeneration, OutputLimits
     DEF ServerInv, ServerTypes, OutputTypes, GenerationType
<1>3. /\ asked' = NoRequest /\ seen' = 0 /\ pc' = "top"
      /\ UNCHANGED <<scheduledButtons, work, records, latest, releaseKey, batch>>
      /\ \/ persistentButtons' = asked.next /\ owner' = asked.peer /\ tracked' = seen
         \/ UNCHANGED <<persistentButtons, owner, tracked>>
  BY DEF EnqueueHold, Done, releaseVars, Renew, leaseVars
<1>4. asked.next \in SUBSET AllButtons /\ asked.peer \in Peers \cup {NoPeer}
  BY DEF ServerInv, ServerTypes, LoopTypes, RequestSet
<1>5. LeaseTypes' /\ CallsReady'
  BY <1>3, <1>4 DEF ServerInv, ServerTypes, LeaseTypes, CallsReady
<1>6. asked' \in RequestSet
  BY <1>3 DEF NoRequest, RequestSet
<1>7. LoopTypes'
  BY <1>2, <1>3, <1>6 DEF ServerInv, ServerTypes, LoopTypes
<1> QED
  BY <1>2, <1>3, <1>5, <1>7, QuietKeeps

LEMMA LapseKeeps ==
  ASSUME ServerInv, Lapse
  PROVE  ServerInv' /\ FinalStep
<1>1. OutputTypes' /\ generation' = generation
  BY OutputKept, CallsKeepGeneration DEF Lapse, ServerInv, ServerTypes
<1>2. LeaseTypes' /\ CallsReady'
  BY DEF Lapse, workVars, ServerInv, ServerTypes, LeaseTypes, CallsReady
<1>3. LoopTypes'
  BY <1>1 DEF Lapse, loopVars, ServerInv, ServerTypes, LoopTypes
<1> QED
  BY <1>1, <1>2, <1>3, QuietKeeps DEF Lapse, workVars, releaseVars

-----------------------------------------------------------------------------
(* Resets.                                                                 *)

(* begin_reset() in a step that otherwise only moves on to another call.   *)
LEMMA ResetStep ==
  ASSUME ServerInv, BeginReset(FALSE, NoKey, records),
         owner' \in Peers \cup {NoPeer}, UNCHANGED <<latest, asked, seen>>,
         batch' \in Seq(EventSet), pc' = "handle" => batch' # <<>>, pc' # "press"
  PROVE  ServerInv' /\ FinalStep /\ work' = <<>>
<1>1. /\ OutputTypes' /\ WorkTypes' /\ RecordTypes' /\ KeyTypes' /\ KeysInv' /\ FinalStep
      /\ generation' = generation /\ tracked' = generation /\ work' = <<>>
      /\ persistentButtons' = {} /\ scheduledButtons' = {}
  BY ResetKeeps DEF ServerInv
<1>2. LeaseTypes' /\ CallsReady'
  BY <1>1 DEF LeaseTypes, CallsReady
<1>3. generation \in 0 .. generation
  BY OutputLimits DEF ServerInv, ServerTypes, OutputTypes, GenerationType
<1>4. LoopTypes'
  BY <1>1, <1>3 DEF ServerInv, ServerTypes, LoopTypes
<1> QED
  BY <1>1, <1>2, <1>4 DEF ServerInv, ServerTypes

LEMMA ResetsKeep ==
  ASSUME ServerInv,
         \/ ResetChanged \/ ResetLost \/ (Watchdog /\ Silent) \/ ResetUnfit
         \/ \E peer \in Peers : ReceiveTextRelease(peer)
  PROVE  ServerInv' /\ FinalStep /\ work' = <<>>
<1>1. /\ BeginReset(FALSE, NoKey, records) /\ UNCHANGED <<latest, batch, asked, seen>>
      /\ owner' \in Peers \cup {NoPeer, owner} /\ pc' \notin {"handle", "press"}
  BY DEF ResetChanged, ResetLost, Watchdog, ResetUnfit, ReceiveTextRelease, LoseOwner, Renew,
         leaseVars, Done
<1>2. owner \in Peers \cup {NoPeer} /\ batch \in Seq(EventSet)
  BY DEF ServerInv, ServerTypes, LeaseTypes, LoopTypes
<1> QED
  BY <1>1, <1>2, ResetStep

LEMMA HandleFailureKeeps ==
  ASSUME ServerInv, HandleFailure
  PROVE  ServerInv' /\ FinalStep /\ work' = <<>>
<1>1. /\ BeginReset(FALSE, NoKey, records) /\ UNCHANGED <<latest, asked, seen>>
      /\ owner' \in Peers \cup {NoPeer} /\ pc = "handle" /\ AfterEvent
  BY DEF HandleFailure, LoseOwner
<1>2. batch' \in Seq(EventSet) /\ (pc' = "handle" => batch' # <<>>) /\ pc' # "press"
  BY <1>1, AfterEventKeeps DEF ServerInv
<1> QED
  BY <1>1, <1>2, ResetStep

(* The end of the loop.                                                    *)
LEMMA StopKeeps ==
  ASSUME ServerInv, Stop
  PROVE  ServerInv' /\ FinalStep
<1>1. /\ records' = Ended(records, WorkKeys, "cancelled")
      /\ work' = <<>> /\ persistentButtons' = {} /\ scheduledButtons' = {}
      /\ Clear /\ UNCHANGED <<owner, latest, releaseKey, tracked, batch, asked, seen>>
      /\ pc' = "stopping"
  BY DEF Stop, leaseVars, releaseVars, loopVars
<1>2. WorkTypes' /\ OneClick' /\ WorkKeys' = {} /\ DOMAIN work' = {}
  BY <1>1, NoClicks
<1>3. WorkKeys \subseteq OpenKeys /\ WorkKeys \cap OpenKeys' = {}
  BY <1>1, <1>2 DEF OpenKeys, ServerInv, KeysInv
<1>4. RecordTypes' /\ KeysInv' /\ FinalStep
  BY <1>1, <1>2, <1>3, EndedEnds DEF ServerInv
<1>5. OutputTypes' /\ generation' = generation
  BY <1>1, CallsTyped, CallsKeepGeneration DEF ServerInv, ServerTypes
<1>6. LeaseTypes' /\ CallsReady' /\ KeyTypes' /\ LoopTypes'
  BY <1>1, <1>5 DEF ServerInv, ServerTypes, LeaseTypes, CallsReady, KeyTypes, LoopTypes
<1> QED
  BY <1>2, <1>4, <1>5, <1>6 DEF ServerInv, ServerTypes

-----------------------------------------------------------------------------
(* Clicks that go on.                                                      *)

(* The front click goes to another phase.                                  *)
LEMMA ClickEdited ==
  ASSUME ServerTypes, work # <<>>, NEW c \in ClickSet, c.key = work[1].key,
         work' = [work EXCEPT ![1] = c]
  PROVE  WorkTypes' /\ work' # <<>> /\ SameClicks
<1>1. work \in Seq(ClickSet) /\ Len(work) <= ClickLimit
  BY DEF ServerTypes, WorkTypes
<1>2. /\ work' \in Seq(ClickSet) /\ Len(work') = Len(work) /\ DOMAIN work' = DOMAIN work
      /\ work' # <<>> /\ \A j \in DOMAIN work : work'[j] = IF j = 1 THEN c ELSE work[j]
  BY <1>1, FirstEdited
<1> QED
  BY <1>1, <1>2 DEF WorkTypes, SameClicks

LEMMA FrontClick ==
  ASSUME ServerTypes, work # <<>>
  PROVE  /\ Head(work) = work[1] /\ work[1] \in ClickSet /\ 1 \in DOMAIN work
         /\ work[1].index + 1 \in Nat
<1>1. Head(work) = work[1] /\ work[1] \in ClickSet /\ 1 \in DOMAIN work
  BY DEF ServerTypes, WorkTypes
<1>2. work[1].index \in Nat
  BY <1>1 DEF ClickSet
<1> QED
  BY <1>1, <1>2

LEMMA EditKeeps ==
  ASSUME ServerInv, work # <<>>, NEW c \in ClickSet, c.key = work[1].key,
         work' = [work EXCEPT ![1] = c], UNCHANGED <<records, latest, releaseKey>>,
         OutputTypes', LeaseTypes', LoopTypes', pc' = "handle" => batch' # <<>>
  PROVE  ServerInv' /\ FinalStep
<1>1. WorkTypes' /\ work' # <<>> /\ SameClicks
  BY ClickEdited DEF ServerInv
<1>2. KeysInv' /\ FinalStep
  BY <1>1, KeysKept DEF ServerInv
<1>3. RecordTypes' /\ KeyTypes' /\ CallsReady'
  BY <1>1 DEF ServerInv, ServerTypes, RecordTypes, KeyTypes, CallsReady
<1> QED
  BY <1>1, <1>2, <1>3 DEF ServerInv, ServerTypes

LEMMA DelayKeeps ==
  ASSUME ServerInv, DelayPasses
  PROVE  ServerInv' /\ FinalStep
<1>1. /\ work # <<>> /\ pc' = pc /\ pc = "click"
      /\ work' = [work EXCEPT ![1].due = TRUE]
      /\ UNCHANGED <<outputVars, owner, persistentButtons, scheduledButtons, records, latest,
                     releaseKey, loopVars>>
  BY DEF DelayPasses, leaseVars, releaseVars
<1> DEFINE c == [work[1] EXCEPT !.due = TRUE]
<1>2. work[1] \in ClickSet
  BY <1>1, FrontClick DEF ServerInv
<1>3. c \in ClickSet /\ c.key = work[1].key
  BY <1>2 DEF ClickSet
<1>4. work' = [work EXCEPT ![1] = c]
  BY <1>1
<1>5. OutputTypes' /\ generation' = generation
  BY <1>1, OutputKept, CallsKeepGeneration DEF ServerInv, ServerTypes
<1>6. LeaseTypes' /\ LoopTypes'
  BY <1>1, <1>5 DEF loopVars, ServerInv, ServerTypes, LeaseTypes, LoopTypes
<1> HIDE DEF c
<1> QED
  BY <1>1, <1>3, <1>4, <1>5, <1>6, EditKeeps

LEMMA HandlePressedKeeps ==
  ASSUME ServerInv, HandlePressed
  PROVE  ServerInv' /\ FinalStep
<1> DEFINE phase == IF Event.blocked THEN "AwaitRelease" ELSE "Holding"
           c == [work[1] EXCEPT !.blocked = Event.blocked, !.due = Event.blocked, !.phase = phase]
<1>1. /\ pc = "handle" /\ work # <<>> /\ AfterEvent
      /\ work' = [work EXCEPT ![1].blocked = Event.blocked, ![1].due = Event.blocked,
                              ![1].phase = phase]
      /\ UNCHANGED <<outputVars, owner, persistentButtons, scheduledButtons, records, latest,
                     releaseKey, tracked, asked, seen>>
  BY DEF HandlePressed, IsPress, IsOfClick, leaseVars, releaseVars
<1>2. work[1] \in ClickSet /\ 1 \in DOMAIN work
  BY <1>1, FrontClick DEF ServerInv
<1>3. batch' \in Seq(EventSet) /\ Event \in EventSet /\ (pc' = "handle" => batch' # <<>>)
  BY <1>1, AfterEventKeeps DEF ServerInv
<1>4. Event.blocked \in BOOLEAN
  BY <1>3 DEF EventSet
<1>5. phase \in Phases
  BY DEF Phases
<1> HIDE DEF phase
<1>6. c \in ClickSet /\ c.key = work[1].key
  BY <1>2, <1>4, <1>5 DEF ClickSet
<1>7. work' = [work EXCEPT ![1] = c]
  BY <1>1, <1>2 DEF ServerInv, ServerTypes, WorkTypes
<1>8. OutputTypes' /\ generation' = generation
  BY <1>1, OutputKept, CallsKeepGeneration DEF ServerInv, ServerTypes
<1>9. LeaseTypes' /\ LoopTypes'
  BY <1>1, <1>3, <1>8 DEF ServerInv, ServerTypes, LeaseTypes, LoopTypes
<1> HIDE DEF c
<1> QED
  BY <1>1, <1>3, <1>6, <1>7, <1>8, <1>9, EditKeeps

LEMMA PhaseChange ==
  ASSUME ServerTypes, work # <<>>, NEW phase \in Phases
  PROVE  /\ [work EXCEPT ![1].phase = phase] = [work EXCEPT ![1] = [work[1] EXCEPT !.phase = phase]]
         /\ [work[1] EXCEPT !.phase = phase] \in ClickSet
         /\ [work[1] EXCEPT !.phase = phase].key = work[1].key
<1>1. work[1] \in ClickSet
  BY FrontClick
<1>2. /\ [work[1] EXCEPT !.phase = phase] \in ClickSet
      /\ [work[1] EXCEPT !.phase = phase].key = work[1].key
  BY <1>1 DEF ClickSet
<1> QED
  BY <1>2

LEMMA TickEditKeeps ==
  ASSUME ServerInv, TickPress \/ TickEdge
  PROVE  ServerInv' /\ FinalStep
<1>1. work # <<>>
  BY DEF TickPress, TickEdge, Ticking, ServerInv, ServerTypes, CallsReady
<1>2. Head(work) = work[1] /\ work[1] \in ClickSet
  BY <1>1, FrontClick DEF ServerInv
<1>3. \/ Accept(PressReport(Head(work))) \/ Accept(EdgeReport(Head(work)))
      \/ UNCHANGED outputVars
  BY CallsKeepGeneration DEF TickPress, TickEdge, Refusals
<1>4. OutputTypes' /\ generation' = generation
  <2>1. PressReport(Head(work)) \in CommandSet /\ EdgeReport(Head(work)) \in CommandSet
    BY <1>2, ReportsAreCommands DEF ServerInv
  <2> QED
    BY <1>3, <2>1, OutputKept, AcceptTyped, CallsKeepGeneration DEF ServerInv, ServerTypes
<1>5. /\ UNCHANGED <<owner, persistentButtons, records, latest, releaseKey, loopVars>>
      /\ pc' \notin {"handle", "press"}
      /\ scheduledButtons' \in {scheduledButtons, scheduledButtons \cup {Head(work).button},
                                scheduledButtons \ {Head(work).button}}
      /\ \/ work' = work
         \/ \E phase \in Phases : work' = [work EXCEPT ![1].phase = phase]
  BY DEF TickPress, TickEdge, leaseVars, releaseVars, Phases
<1>6. Head(work).button \in AllButtons
  BY <1>2 DEF ClickSet, AllButtons
<1>7. LeaseTypes' /\ LoopTypes'
  BY <1>4, <1>5, <1>6 DEF loopVars, ServerInv, ServerTypes, LeaseTypes, LoopTypes
<1>8. CASE work' = work
  <2>1. CallsReady'
    BY <1>1, <1>5, <1>8 DEF CallsReady
  <2> QED
    BY <1>4, <1>5, <1>7, <1>8, <2>1, QuietKeeps
<1>9. ASSUME NEW phase \in Phases, work' = [work EXCEPT ![1].phase = phase]
      PROVE  ServerInv' /\ FinalStep
  <2> DEFINE c == [work[1] EXCEPT !.phase = phase]
  <2>1. c \in ClickSet /\ c.key = work[1].key /\ work' = [work EXCEPT ![1] = c]
    BY <1>1, <1>9, PhaseChange DEF ServerInv
  <2> HIDE DEF c
  <2> QED
    BY <1>1, <1>4, <1>5, <1>7, <2>1, EditKeeps
<1> QED
  BY <1>5, <1>8, <1>9

-----------------------------------------------------------------------------
(* Clicks that end.                                                        *)

(* The front click is gone, and its command ends.                          *)
LEMMA FrontGone ==
  ASSUME ServerInv, work # <<>>, work' = Tail(work), UNCHANGED <<latest, releaseKey>>
  PROVE  /\ WorkTypes' /\ OneClick'
         /\ \A j \in DOMAIN work' : work'[j].key \in {NoKey} \cup WorkKeys
         /\ {Head(work).key} \ {NoKey} \subseteq OpenKeys
         /\ ({Head(work).key} \ {NoKey}) \cap OpenKeys' = {}
<1>1. work \in Seq(ClickSet) /\ Len(work) <= ClickLimit
  BY DEF ServerInv, ServerTypes, WorkTypes
<1>2. /\ work' \in Seq(ClickSet) /\ Len(work') = Len(work) - 1
      /\ Head(work) = work[1] /\ 1 \in DOMAIN work
      /\ \A j \in DOMAIN work' : j \in Nat \ {0} /\ j + 1 \in DOMAIN work /\ work'[j] = work[j + 1]
  BY <1>1, TailElements
<1>3. WorkTypes'
  BY <1>1, <1>2, ServerLimits DEF WorkTypes
<1>4. OneClick'
  <2> SUFFICES ASSUME NEW i \in DOMAIN work', NEW j \in DOMAIN work',
                      work'[i].key = work'[j].key, work'[i].key # NoKey
               PROVE  i = j
    BY DEF OneClick
  <2>1. i + 1 = j + 1
    BY <1>2 DEF ServerInv, KeysInv, OneClick
  <2> QED
    BY <1>2, <2>1
<1>5. \A j \in DOMAIN work' : work'[j].key \in {NoKey} \cup WorkKeys
  BY <1>2 DEF WorkKeys
<1>6. {Head(work).key} \ {NoKey} \subseteq WorkKeys
  BY <1>2 DEF WorkKeys
<1>7. ASSUME NEW j \in DOMAIN work', work'[j].key = Head(work).key
      PROVE  Head(work).key = NoKey
  <2>1. j + 1 # 1
    BY <1>2
  <2> QED
    BY <1>2, <1>7, <2>1 DEF ServerInv, KeysInv, OneClick
<1>8. ({Head(work).key} \ {NoKey}) \cap WorkKeys' = {}
  BY <1>7 DEF WorkKeys
<1>9. ({Head(work).key} \ {NoKey}) \cap ({releaseKey'} \ {NoKey}) = {}
  BY <1>6 DEF ServerInv, KeysInv
<1> QED
  BY <1>3, <1>4, <1>5, <1>6, <1>8, <1>9 DEF OpenKeys

LEMMA FinishFrontKeeps ==
  ASSUME ServerInv, work # <<>>, FinishFront("button_active"), UNCHANGED <<latest, releaseKey>>
  PROVE  WorkTypes' /\ RecordTypes' /\ KeysInv' /\ FinalStep
<1> DEFINE ended == {Head(work).key} \ {NoKey}
<1>1. work' = Tail(work) /\ records' = Ended(records, ended, "button_active")
  BY DEF FinishFront
<1>2. /\ WorkTypes' /\ OneClick'
      /\ \A j \in DOMAIN work' : work'[j].key \in {NoKey} \cup WorkKeys
      /\ ended \subseteq OpenKeys /\ ended \cap OpenKeys' = {}
  BY <1>1, FrontGone
<1> HIDE DEF ended
<1> QED
  BY <1>1, <1>2, EndedEnds DEF ServerInv

LEMMA TickSnapshotKeeps ==
  ASSUME ServerInv, TickSnapshot
  PROVE  ServerInv' /\ FinalStep
<1>1. /\ work # <<>> /\ UNCHANGED <<outputVars, owner, latest, releaseKey, loopVars>>
      /\ persistentButtons' = persistentButtons /\ pc' # "handle"
      /\ \/ UNCHANGED <<scheduledButtons, work, records>>
         \/ FinishFront("button_active") /\ pc' = "receive"
  BY DEF TickSnapshot, Ticking, leaseVars, workVars, releaseVars
<1>2. OutputTypes' /\ generation' = generation
  BY <1>1, OutputKept, CallsKeepGeneration DEF ServerInv, ServerTypes
<1>3. LeaseTypes' /\ LoopTypes'
  BY <1>1, <1>2 DEF loopVars, ServerInv, ServerTypes, LeaseTypes, LoopTypes, FinishFront
<1>4. CASE UNCHANGED <<scheduledButtons, work, records>>
  <2>1. CallsReady'
    BY <1>1, <1>4 DEF CallsReady
  <2> QED
    BY <1>1, <1>2, <1>3, <1>4, <2>1, QuietKeeps
<1>5. CASE FinishFront("button_active") /\ pc' = "receive"
  <2>1. WorkTypes' /\ RecordTypes' /\ KeysInv' /\ FinalStep
    BY <1>1, <1>5, FinishFrontKeeps
  <2>2. CallsReady' /\ KeyTypes'
    BY <1>1, <1>5 DEF CallsReady, ServerInv, ServerTypes, KeyTypes
  <2> QED
    BY <1>2, <1>3, <2>1, <2>2 DEF ServerInv, ServerTypes
<1> QED
  BY <1>1, <1>4, <1>5

LEMMA HandleReleasedKeeps ==
  ASSUME ServerInv, HandleReleased
  PROVE  ServerInv' /\ FinalStep
<1> DEFINE ended == {releaseKey} \ {NoKey}
<1>1. /\ UNCHANGED <<outputVars, owner, persistentButtons, scheduledButtons, work, latest,
                     tracked, asked, seen>>
      /\ releaseKey' = NoKey /\ pc = "handle" /\ AfterEvent
      /\ records' = Ended(records, ended, "completed")
  BY DEF HandleReleased, leaseVars
<1>2. ended \subseteq OpenKeys /\ ended \cap OpenKeys' = {}
  BY <1>1 DEF OpenKeys, WorkKeys, ServerInv, KeysInv
<1>3. OneClick' /\ \A j \in DOMAIN work' : work'[j].key \in {NoKey} \cup WorkKeys
  BY <1>1 DEF OneClick, WorkKeys, ServerInv, KeysInv
<1> HIDE DEF ended
<1>4. RecordTypes' /\ KeysInv' /\ FinalStep
  BY <1>1, <1>2, <1>3, EndedEnds DEF ServerInv
<1>5. OutputTypes' /\ generation' = generation
  BY <1>1, OutputKept, CallsKeepGeneration DEF ServerInv, ServerTypes
<1>6. batch' \in Seq(EventSet) /\ (pc' = "handle" => batch' # <<>>) /\ pc' # "press"
  BY <1>1, AfterEventKeeps DEF ServerInv
<1>7. WorkTypes' /\ LeaseTypes' /\ CallsReady' /\ KeyTypes'
  BY <1>1, <1>6 DEF ServerInv, ServerTypes, WorkTypes, LeaseTypes, CallsReady, KeyTypes, AnyKey
<1>8. LoopTypes'
  BY <1>1, <1>5, <1>6 DEF ServerInv, ServerTypes, LoopTypes
<1> QED
  BY <1>4, <1>5, <1>7, <1>8 DEF ServerInv, ServerTypes

LEMMA CountedRecords ==
  ASSUME ServerTypes, work # <<>>, NEW key
  PROVE  /\ Counted(records, key) \in Seq(RecordSet)
         /\ Len(Counted(records, key)) = Len(records)
         /\ DOMAIN Counted(records, key) = DOMAIN records
         /\ \A j \in DOMAIN records :
              /\ Counted(records, key)[j].key = records[j].key
              /\ Counted(records, key)[j].terminal = records[j].terminal
              /\ records[j].key # key => Counted(records, key)[j] = records[j]
<1> DEFINE c == Counted(records, key)
           n == Head(work).index + 1
<1>1. /\ records \in Seq(RecordSet) /\ DOMAIN records = 1 .. Len(records) /\ Len(records) \in Nat
      /\ \A j \in DOMAIN records : records[j] \in RecordSet
  BY DEF ServerTypes, RecordTypes
<1>2. n \in Nat
  BY FrontClick
<1>3. c = [j \in DOMAIN records |-> IF records[j].key = key
                                    THEN [records[j] EXCEPT !.completed = n] ELSE records[j]]
  BY DEF Counted
<1> HIDE DEF n
<1>4. ASSUME NEW r \in RecordSet
      PROVE  /\ [r EXCEPT !.completed = n] \in RecordSet
             /\ [r EXCEPT !.completed = n].key = r.key
             /\ [r EXCEPT !.completed = n].terminal = r.terminal
  BY <1>2, Zenon DEF RecordSet
<1>5. DOMAIN c = DOMAIN records
  BY <1>3
<1>6. \A j \in DOMAIN records :
        c[j] = IF records[j].key = key THEN [records[j] EXCEPT !.completed = n] ELSE records[j]
  BY <1>3
<1>7. \A j \in DOMAIN records :
        /\ c[j] \in RecordSet /\ c[j].key = records[j].key /\ c[j].terminal = records[j].terminal
        /\ records[j].key # key => c[j] = records[j]
  BY <1>1, <1>4, <1>6, Zenon
<1>8. c = [j \in 1 .. Len(records) |-> c[j]]
  BY <1>1, <1>3
<1> HIDE DEF c
<1>9. c \in Seq(RecordSet) /\ Len(c) = Len(records)
  BY <1>1, <1>5, <1>7, <1>8
<1> QED
  BY <1>5, <1>7, <1>9 DEF c

LEMMA HandleClickedKeeps ==
  ASSUME ServerInv, HandleClicked
  PROVE  ServerInv' /\ FinalStep
<1> DEFINE key == Head(work).key
           counted == Counted(records, key)
           ended == {key} \ {NoKey}
<1>1. /\ pc = "handle" /\ work # <<>> /\ AfterEvent
      /\ UNCHANGED <<outputVars, owner, persistentButtons, latest, releaseKey, tracked, asked,
                     seen>>
      /\ \/ FinishFront("button_active")
         \/ /\ work' = Tail(work) /\ scheduledButtons' = {}
            /\ records' = Ended(counted, ended, "completed")
         \/ /\ work' = [work EXCEPT ![1].index = @ + 1, ![1].phase = "AwaitPress",
                                    ![1].blocked = FALSE, ![1].due = FALSE]
            /\ records' = counted /\ scheduledButtons' = scheduledButtons
  BY DEF HandleClicked, IsEdge, IsOfClick, leaseVars, releaseVars
<1>2. OutputTypes' /\ generation' = generation
  BY <1>1, OutputKept, CallsKeepGeneration DEF ServerInv, ServerTypes
<1>3. batch' \in Seq(EventSet) /\ (pc' = "handle" => batch' # <<>>) /\ pc' # "press"
  BY <1>1, AfterEventKeeps DEF ServerInv
<1>4. scheduledButtons' \in SUBSET AllButtons
  BY <1>1 DEF FinishFront, ServerInv, ServerTypes, LeaseTypes
<1>5. LeaseTypes' /\ LoopTypes' /\ CallsReady' /\ KeyTypes'
  BY <1>1, <1>2, <1>3, <1>4
     DEF ServerInv, ServerTypes, LeaseTypes, LoopTypes, CallsReady, KeyTypes
<1>6. Head(work) = work[1] /\ work[1] \in ClickSet /\ 1 \in DOMAIN work
  BY <1>1, FrontClick DEF ServerInv
<1>7. /\ counted \in Seq(RecordSet) /\ Len(counted) = Len(records)
      /\ DOMAIN counted = DOMAIN records
      /\ \A j \in DOMAIN records :
           /\ counted[j].key = records[j].key /\ counted[j].terminal = records[j].terminal
           /\ records[j].key # key => counted[j] = records[j]
  BY <1>1, CountedRecords DEF ServerInv
<1>8. \A j \in DOMAIN records : records[j].key # NoKey
  <2>1. \A r \in RecordSet : r.key # NoKey
    BY ServerLimits DEF RecordSet, Keys, NoKey
  <2>2. \A j \in DOMAIN records : records[j] \in RecordSet
    BY DEF ServerInv, ServerTypes, RecordTypes
  <2> QED
    BY <2>1, <2>2
<1>9. ended \subseteq OpenKeys
  BY <1>6 DEF OpenKeys, WorkKeys
<1>10. Len(records) <= RecordLimit
  BY DEF ServerInv, ServerTypes, RecordTypes
<1> HIDE DEF counted
<1>11. CASE FinishFront("button_active")
  <2>1. WorkTypes' /\ RecordTypes' /\ KeysInv' /\ FinalStep
    BY <1>1, <1>11, FinishFrontKeeps
  <2> QED
    BY <1>2, <1>5, <2>1 DEF ServerInv, ServerTypes
<1>12. CASE work' = Tail(work) /\ records' = Ended(counted, ended, "completed")
  <2>1. /\ WorkTypes' /\ OneClick' /\ ended \cap OpenKeys' = {}
        /\ \A j \in DOMAIN work' : work'[j].key \in {NoKey} \cup WorkKeys
    BY <1>1, <1>12, FrontGone
  <2>2. /\ records' \in Seq(RecordSet) /\ Len(records') = Len(counted)
        /\ DOMAIN records' = DOMAIN counted
        /\ \A j \in DOMAIN counted :
             /\ records'[j].key = counted[j].key
             /\ counted[j].key \notin ended => records'[j] = counted[j]
    BY <1>7, <1>12, EndedRecords
  <2>3. \A j \in DOMAIN records :
          /\ records'[j].key = records[j].key
          /\ records[j].key \notin ended => records'[j] = records[j]
    BY <1>7, <1>8, <2>2
  <2>4. \A j \in DOMAIN records :
          records[j].key \in OpenKeys' => records'[j].terminal = records[j].terminal
    BY <2>1, <2>3
  <2> HIDE DEF ended
  <2>5. KeysInv' /\ FinalStep
    BY <1>1, <1>7, <1>9, <2>1, <2>2, <2>3, <2>4, RecordsEnd DEF ServerInv
  <2>6. RecordTypes'
    BY <1>7, <1>10, <2>2 DEF RecordTypes
  <2> QED
    BY <1>2, <1>5, <2>1, <2>5, <2>6 DEF ServerInv, ServerTypes
<1>13. CASE /\ work' = [work EXCEPT ![1].index = @ + 1, ![1].phase = "AwaitPress",
                                    ![1].blocked = FALSE, ![1].due = FALSE]
            /\ records' = counted
  <2> DEFINE n == work[1].index + 1
             c == [work[1] EXCEPT !.index = n, !.phase = "AwaitPress", !.blocked = FALSE,
                                  !.due = FALSE]
  <2>0. n \in Nat
    BY <1>1, FrontClick DEF ServerInv
  <2> HIDE DEF n
  <2>1. c \in ClickSet /\ c.key = work[1].key
    BY <1>6, <2>0 DEF ClickSet, Phases
  <2> USE DEF n
  <2>2. work' = [work EXCEPT ![1] = c]
    BY <1>6, <1>13 DEF ServerInv, ServerTypes, WorkTypes
  <2> HIDE DEF c
  <2>3. WorkTypes' /\ SameClicks
    BY <1>1, <2>1, <2>2, ClickEdited DEF ServerInv
  <2>4. OneClick' /\ \A j \in DOMAIN work' : work'[j].key \in {NoKey} \cup WorkKeys
    BY <2>3 DEF SameClicks, OneClick, WorkKeys, ServerInv, KeysInv
  <2>5. \A j \in DOMAIN records : records[j].key \notin ended => counted[j] = records[j]
    BY <1>7, <1>8
  <2> HIDE DEF ended
  <2>6. KeysInv' /\ FinalStep
    BY <1>1, <1>7, <1>9, <1>13, <2>4, <2>5, RecordsEnd DEF ServerInv
  <2>7. RecordTypes'
    BY <1>7, <1>10, <1>13 DEF RecordTypes
  <2> QED
    BY <1>2, <1>5, <2>3, <2>6, <2>7 DEF ServerInv, ServerTypes
<1> QED
  BY <1>1, <1>11, <1>12, <1>13

-----------------------------------------------------------------------------
(* Commands that are accepted.                                             *)

(* The cache with room made for a command that is new to it.               *)
LEMMA AppendedRecords ==
  ASSUME ServerInv, Room, NEW r \in RecordSet, r.key > latest
  PROVE  /\ Append(Trimmed, r) \in Seq(RecordSet) /\ Len(Append(Trimmed, r)) <= RecordLimit
         /\ \A j \in DOMAIN Append(Trimmed, r) :
              \/ Append(Trimmed, r)[j] = r
              \/ \E i \in DOMAIN records : Append(Trimmed, r)[j] = records[i]
         /\ \A i, j \in DOMAIN Append(Trimmed, r) :
              Append(Trimmed, r)[i].key = Append(Trimmed, r)[j].key => i = j
<1> DEFINE q == Append(Trimmed, r)
<1>1. Trimmed \in Seq(RecordSet) /\ Len(Trimmed) < RecordLimit
  BY TrimmedRecords DEF ServerInv, ServerTypes
<1>2. PICK cut \in Nat : \A j \in DOMAIN Trimmed :
        LET i == IF j < cut THEN j ELSE j + 1
        IN i \in DOMAIN records /\ Trimmed[j] = records[i]
  BY TrimmedRecords DEF ServerInv, ServerTypes
<1> HIDE DEF Trimmed
<1>3. /\ q \in Seq(RecordSet) /\ Len(q) = Len(Trimmed) + 1
      /\ \A j \in DOMAIN Trimmed : j \in DOMAIN q /\ q[j] = Trimmed[j]
      /\ \A j \in DOMAIN q : j \in DOMAIN Trimmed \/ (j = Len(Trimmed) + 1 /\ q[j] = r)
  BY <1>1, AppendElements
<1>4. DOMAIN Trimmed \subseteq Nat /\ Len(Trimmed) \in Nat
  BY <1>1
<1> HIDE DEF q
<1>5. \A j \in DOMAIN q : q[j] = r \/ \E i \in DOMAIN records : q[j] = records[i]
  BY <1>2, <1>3
<1>6. \A i \in DOMAIN Trimmed : Trimmed[i].key # r.key
  <2> SUFFICES ASSUME NEW i \in DOMAIN Trimmed PROVE Trimmed[i].key # r.key
    OBVIOUS
  <2>1. PICK k \in DOMAIN records : Trimmed[i] = records[k]
    BY <1>2
  <2>2. records[k].key <= latest /\ latest \in Nat /\ r.key \in Nat
    BY ServerLimits DEF ServerInv, KeysInv, ServerTypes, KeyTypes, RecordSet, Keys
  <2>3. records[k].key \in Nat
    <3>1. records[k] \in RecordSet
      BY DEF ServerInv, ServerTypes, RecordTypes
    <3>2. \A m \in RecordSet : m.key \in Nat
      BY ServerLimits DEF RecordSet, Keys
    <3> QED
      BY <3>1, <3>2
  <2> QED
    BY <2>1, <2>2, <2>3
<1>7. ASSUME NEW i \in DOMAIN Trimmed, NEW j \in DOMAIN Trimmed, Trimmed[i].key = Trimmed[j].key
      PROVE  i = j
  <2> DEFINE a == IF i < cut THEN i ELSE i + 1
             b == IF j < cut THEN j ELSE j + 1
  <2>1. /\ a \in DOMAIN records /\ b \in DOMAIN records
        /\ Trimmed[i] = records[a] /\ Trimmed[j] = records[b]
    BY <1>2
  <2>2. a = b
    BY <1>7, <2>1 DEF ServerInv, KeysInv, OneRecord
  <2> QED
    BY <1>4, <2>2
<1>8. \A i, j \in DOMAIN q : q[i].key = q[j].key => i = j
  BY <1>3, <1>6, <1>7
<1>9. Len(q) <= RecordLimit
  BY <1>1, <1>3, ServerLimits
<1> QED
  BY <1>3, <1>5, <1>8, <1>9 DEF q

LEMMA AcceptedKeys ==
  ASSUME ServerInv, NEW r \in RecordSet, r.key > latest, ~r.terminal, latest' = r.key,
         NEW q, \A j \in DOMAIN q : q[j] = r \/ \E i \in DOMAIN records : q[j] = records[i],
         \A i, j \in DOMAIN q : q[i].key = q[j].key => i = j,
         NEW ended, ended \subseteq OpenKeys, ended \cap OpenKeys' = {},
         DOMAIN records' = DOMAIN q,
         \A j \in DOMAIN q :
           records'[j].key = q[j].key /\ (q[j].key \notin ended => records'[j] = q[j]),
         OneClick', \A j \in DOMAIN work' : work'[j].key \in {NoKey, r.key} \cup WorkKeys,
         releaseKey' \in {releaseKey, r.key}, releaseKey' \notin WorkKeys'
  PROVE  KeysInv' /\ FinalStep
<1>1. latest \in Nat /\ r.key \in Nat \ {NoKey} /\ NoKey <= latest
  BY ServerLimits DEF ServerInv, ServerTypes, KeyTypes, RecordSet, Keys, NoKey
<1>2. \A j \in DOMAIN records : records[j].key \in Nat \ {NoKey} /\ records[j].key <= latest
  <2>1. \A m \in RecordSet : m.key \in Nat \ {NoKey}
    BY ServerLimits DEF RecordSet, Keys, NoKey
  <2> QED
    BY <2>1 DEF ServerInv, ServerTypes, RecordTypes, KeysInv
<1>3. \A j \in DOMAIN work : work[j].key \in Nat /\ work[j].key <= latest
  <2>1. \A c \in ClickSet : c.key \in Nat
    BY ServerLimits DEF ClickSet, AnyKey, Keys, NoKey
  <2> QED
    BY <2>1 DEF ServerInv, ServerTypes, WorkTypes, KeysInv
<1>4. releaseKey \in Nat /\ releaseKey <= latest
  BY ServerLimits DEF ServerInv, ServerTypes, KeyTypes, AnyKey, Keys, NoKey, KeysInv
<1>5. OneRecord'
  BY DEF OneRecord
<1>6. \A k \in OpenKeys : k <= latest
  BY <1>3, <1>4 DEF OpenKeys, WorkKeys
<1>7. \A j \in DOMAIN work' : work'[j].key <= r.key
  <2>1. \A k \in WorkKeys : k \in Nat /\ k <= latest
    BY <1>3 DEF WorkKeys
  <2>2. \A k \in WorkKeys : k <= r.key
    BY <1>1, <2>1
  <2>3. NoKey <= r.key /\ r.key <= r.key
    BY <1>1 DEF NoKey
  <2> QED
    BY <2>2, <2>3
<1>8. releaseKey' <= r.key
  BY <1>1, <1>4
<1>9. ASSUME NEW j \in DOMAIN records'
      PROVE  /\ records'[j].key <= r.key
             /\ records'[j].terminal => records'[j].key \notin OpenKeys'
  <2>1. CASE q[j] = r
    <3>1. r.key \notin ended
      BY <1>1, <1>6
    <3> QED
      BY <1>1, <2>1, <3>1
  <2>2. ASSUME NEW i \in DOMAIN records, q[j] = records[i]
        PROVE  /\ records'[j].key <= r.key
               /\ records'[j].terminal => records'[j].key \notin OpenKeys'
    <3>1. records'[j].key = records[i].key /\ records[i].key # r.key
      BY <1>1, <1>2, <2>2
    <3>2. records[i].key \in OpenKeys' => records[i].key \in OpenKeys
      BY <1>2, <3>1 DEF OpenKeys, WorkKeys
    <3>3. CASE records[i].key \in ended
      BY <1>1, <1>2, <3>1, <3>3
    <3>4. CASE records[i].key \notin ended
      <4>1. records'[j] = records[i]
        BY <2>2, <3>4
      <4>2. records[i].terminal => records[i].key \notin OpenKeys
        BY DEF ServerInv, KeysInv
      <4> QED
        BY <1>1, <1>2, <3>1, <3>2, <4>1, <4>2
    <3> QED
      BY <3>3, <3>4
  <2> QED
    BY <2>1, <2>2
<1>10. FinalStep
  <2> SUFFICES ASSUME NEW i \in DOMAIN records, NEW j \in DOMAIN records',
                      records[i].terminal, records'[j].key = records[i].key
               PROVE  records'[j] = records[i]
    BY DEF FinalStep
  <2>1. q[j].key = records[i].key /\ records[i].key # r.key
    BY <1>1, <1>2
  <2>2. PICK k \in DOMAIN records : q[j] = records[k]
    BY <2>1
  <2>3. k = i
    BY <2>1, <2>2 DEF ServerInv, KeysInv, OneRecord
  <2>4. records[i].key \notin ended
    BY DEF ServerInv, KeysInv
  <2> QED
    BY <2>1, <2>2, <2>3, <2>4
<1> QED
  BY <1>5, <1>7, <1>8, <1>9, <1>10 DEF KeysInv

LEMMA NewRecord ==
  ASSUME NEW key \in Keys, NEW kind \in {"schedule", "release"}, NEW count \in Nat
  PROVE  /\ Record(key, kind, count) \in RecordSet /\ Record(key, kind, count).key = key
         /\ ~Record(key, kind, count).terminal
  BY DEF Record, RecordSet

LEMMA NewClick ==
  ASSUME NEW key \in AnyKey, NEW count \in Nat
  PROVE  Click(key, count) \in ClickSet /\ Click(key, count).key = key
  BY DEF Click, ClickSet, Phases

(* A click command at the end of the queue.                                *)
LEMMA ClickAppended ==
  ASSUME ServerInv, WorkRoom, NEW key \in AnyKey, NEW count \in Nat,
         key = NoKey \/ key > latest, work' = Append(work, Click(key, count))
  PROVE  /\ WorkTypes' /\ OneClick' /\ work' # <<>>
         /\ \A j \in DOMAIN work' : work'[j].key \in {NoKey, key} \cup WorkKeys
<1> DEFINE c == Click(key, count)
<1>1. c \in ClickSet /\ c.key = key
  BY NewClick
<1> HIDE DEF c
<1>2. work \in Seq(ClickSet) /\ Len(work) < ClickLimit
  BY DEF WorkRoom, ServerInv, ServerTypes, WorkTypes
<1>3. work' = Append(work, c)
  BY DEF c
<1>4. /\ work' \in Seq(ClickSet) /\ Len(work') = Len(work) + 1
      /\ \A j \in DOMAIN work : j \in DOMAIN work' /\ work'[j] = work[j]
      /\ \A j \in DOMAIN work' : j \in DOMAIN work \/ (j = Len(work) + 1 /\ work'[j] = c)
  BY <1>1, <1>2, <1>3, AppendElements
<1>5. WorkTypes'
  BY <1>2, <1>4, ServerLimits DEF WorkTypes
<1>6. \A j \in DOMAIN work : work[j].key # key \/ key = NoKey
  <2>1. \A w \in ClickSet : w.key \in Nat
    BY ServerLimits DEF ClickSet, AnyKey, Keys, NoKey
  <2>2. latest \in Nat /\ key \in Nat
    BY ServerLimits DEF ServerInv, ServerTypes, KeyTypes, AnyKey, Keys, NoKey
  <2> QED
    BY <1>2, <2>1, <2>2 DEF ServerInv, KeysInv
<1>7. OneClick'
  BY <1>1, <1>4, <1>6 DEF OneClick, ServerInv, KeysInv
<1>8. \A j \in DOMAIN work' : work'[j].key \in {NoKey, key} \cup WorkKeys
  BY <1>1, <1>4 DEF WorkKeys
<1>9. work' # <<>>
  BY <1>2, <1>4
<1> QED
  BY <1>5, <1>7, <1>8, <1>9

LEMMA ReceiveScheduleKeeps ==
  ASSUME ServerInv, NEW peer \in Peers, NEW key \in Keys, NEW count \in Counts,
         ReceiveSchedule(peer, key, count)
  PROVE  ServerInv' /\ FinalStep
<1> DEFINE r == Record(key, "schedule", count)
           q == Append(Trimmed, r)
<1>1. /\ ~(key <= latest) /\ Room /\ WorkRoom
      /\ records' = q /\ work' = Append(work, Click(key, count)) /\ latest' = key
      /\ owner' = peer /\ tracked' = generation /\ pc' = "top"
      /\ UNCHANGED <<outputVars, persistentButtons, scheduledButtons, releaseKey, batch, asked,
                     seen>>
  BY DEF ReceiveSchedule, Stale, Renew, Done, releaseVars
<1>2. count \in Nat /\ key \in AnyKey /\ key \in Nat /\ latest \in Nat
  BY ServerLimits DEF AnyKey, Keys, ServerInv, ServerTypes, KeyTypes
<1>3. key > latest
  BY <1>1, <1>2
<1>4. r \in RecordSet /\ r.key = key /\ ~r.terminal
  BY <1>2, NewRecord
<1> HIDE DEF r
<1>5. /\ q \in Seq(RecordSet) /\ Len(q) <= RecordLimit
      /\ \A j \in DOMAIN q : q[j] = r \/ \E i \in DOMAIN records : q[j] = records[i]
      /\ \A i, j \in DOMAIN q : q[i].key = q[j].key => i = j
  BY <1>1, <1>3, <1>4, AppendedRecords
<1> HIDE DEF q
<1>6. /\ WorkTypes' /\ OneClick' /\ work' # <<>>
      /\ \A j \in DOMAIN work' : work'[j].key \in {NoKey, key} \cup WorkKeys
  BY <1>1, <1>2, <1>3, ClickAppended
<1>7. releaseKey' \notin WorkKeys'
  <2>1. releaseKey <= latest /\ releaseKey \in Nat /\ releaseKey \notin WorkKeys
    BY ServerLimits DEF ServerInv, ServerTypes, KeyTypes, AnyKey, Keys, NoKey, KeysInv
  <2>2. releaseKey # key
    BY <1>2, <1>3, <2>1
  <2>3. \A k \in WorkKeys' : k \in {key} \cup WorkKeys
    <3> SUFFICES ASSUME NEW k \in WorkKeys' PROVE k \in {key} \cup WorkKeys
      OBVIOUS
    <3>1. PICK j \in DOMAIN work' : k = work'[j].key /\ k # NoKey
      BY DEF WorkKeys
    <3>2. work'[j].key \in {NoKey, key} \cup WorkKeys
      BY <1>6
    <3> QED
      BY <3>1, <3>2
  <2>4. releaseKey' = releaseKey
    BY <1>1
  <2> QED
    BY <2>1, <2>2, <2>3, <2>4
<1>8. KeysInv' /\ FinalStep
  <2>1. {} \subseteq OpenKeys /\ {} \cap OpenKeys' = {}
    OBVIOUS
  <2>2. DOMAIN records' = DOMAIN q
        /\ \A j \in DOMAIN q : records'[j].key = q[j].key /\ (q[j].key \notin {} => records'[j] = q[j])
    BY <1>1
  <2>3. latest' = r.key /\ releaseKey' \in {releaseKey, r.key} /\ r.key > latest
    BY <1>1, <1>3, <1>4
  <2>4. OneClick' /\ \A j \in DOMAIN work' : work'[j].key \in {NoKey, r.key} \cup WorkKeys
    BY <1>4, <1>6
  <2> QED
    BY <1>4, <1>5, <1>7, <2>1, <2>2, <2>3, <2>4, AcceptedKeys
<1>9. OutputTypes' /\ generation' = generation /\ generation \in 0 .. generation
  BY <1>1, OutputKept, CallsKeepGeneration, OutputLimits
     DEF ServerInv, ServerTypes, OutputTypes, GenerationType
<1>10. LeaseTypes' /\ LoopTypes' /\ CallsReady'
  BY <1>1, <1>9 DEF ServerInv, ServerTypes, LeaseTypes, LoopTypes, CallsReady
<1>11. KeyTypes' /\ RecordTypes'
  BY <1>1, <1>2, <1>5, ServerLimits DEF ServerInv, ServerTypes, KeyTypes, RecordTypes, Keys
<1> QED
  BY <1>6, <1>8, <1>9, <1>10, <1>11 DEF ServerInv, ServerTypes

LEMMA ReceiveTextClickKeeps ==
  ASSUME ServerInv, NEW peer \in Peers, ReceiveTextClick(peer)
  PROVE  ServerInv' /\ FinalStep
<1>1. /\ WorkRoom /\ work' = Append(work, Click(NoKey, 1))
      /\ owner' = peer /\ tracked' = generation /\ pc' = "top"
      /\ UNCHANGED <<outputVars, persistentButtons, scheduledButtons, records, latest, releaseKey,
                     batch, asked, seen>>
  BY DEF ReceiveTextClick, Renew, Done, releaseVars
<1>2. /\ WorkTypes' /\ OneClick' /\ work' # <<>>
      /\ \A j \in DOMAIN work' : work'[j].key \in {NoKey, NoKey} \cup WorkKeys
  BY <1>1, ClickAppended DEF AnyKey
<1>3. KeysInv' /\ FinalStep
  <2>1. {} \subseteq OpenKeys
    OBVIOUS
  <2> QED
    BY <1>1, <1>2, <2>1, RecordsEnd DEF ServerInv
<1>4. OutputTypes' /\ generation' = generation /\ generation \in 0 .. generation
  BY <1>1, OutputKept, CallsKeepGeneration, OutputLimits
     DEF ServerInv, ServerTypes, OutputTypes, GenerationType
<1>5. LeaseTypes' /\ LoopTypes' /\ CallsReady'
  BY <1>1, <1>4 DEF ServerInv, ServerTypes, LeaseTypes, LoopTypes, CallsReady
<1>6. KeyTypes' /\ RecordTypes'
  BY <1>1 DEF ServerInv, ServerTypes, KeyTypes, RecordTypes
<1> QED
  BY <1>2, <1>3, <1>4, <1>5, <1>6 DEF ServerInv, ServerTypes

LEMMA ReceiveReleaseAllKeeps ==
  ASSUME ServerInv, NEW peer \in Peers, NEW key \in Keys, ReceiveReleaseAll(peer, key)
  PROVE  ServerInv' /\ FinalStep /\ work' = <<>>
<1> DEFINE r == Record(key, "release", 0)
           q == Append(Trimmed, r)
           superseded == IF TRUE /\ releaseKey # key THEN {releaseKey} \ {NoKey} ELSE {}
           ended == superseded \cup WorkKeys
<1>1. /\ ~(key <= latest) /\ Room
      /\ records' = Ended(q, ended, "cancelled") /\ work' = <<>>
      /\ persistentButtons' = {} /\ scheduledButtons' = {} /\ Clear
      /\ releaseKey' = key /\ latest' = key /\ owner' = peer /\ tracked' = generation /\ pc' = "top"
      /\ UNCHANGED <<batch, asked, seen>>
  BY DEF ReceiveReleaseAll, BeginReset, Stale, Renew, Done
<1>2. key \in AnyKey /\ key \in Nat \ {NoKey} /\ latest \in Nat
  BY ServerLimits DEF AnyKey, Keys, NoKey, ServerInv, ServerTypes, KeyTypes
<1>3. key > latest
  BY <1>1, <1>2
<1>4. r \in RecordSet /\ r.key = key /\ ~r.terminal
  BY NewRecord
<1> HIDE DEF r
<1>5. /\ q \in Seq(RecordSet) /\ Len(q) <= RecordLimit
      /\ \A j \in DOMAIN q : q[j] = r \/ \E i \in DOMAIN records : q[j] = records[i]
      /\ \A i, j \in DOMAIN q : q[i].key = q[j].key => i = j
  BY <1>1, <1>3, <1>4, AppendedRecords
<1> HIDE DEF q
<1>6. ended \subseteq OpenKeys
  BY DEF OpenKeys
<1> HIDE DEF ended
<1>7. /\ records' \in Seq(RecordSet) /\ Len(records') = Len(q) /\ DOMAIN records' = DOMAIN q
      /\ \A j \in DOMAIN q :
           records'[j].key = q[j].key /\ (q[j].key \notin ended => records'[j] = q[j])
  BY <1>1, <1>5, EndedRecords
<1>8. WorkTypes' /\ OneClick' /\ WorkKeys' = {} /\ DOMAIN work' = {}
  BY <1>1, NoClicks
<1>9. ended \cap OpenKeys' = {}
  <2>1. OpenKeys' \subseteq {key}
    BY <1>1, <1>8 DEF OpenKeys
  <2>2. \A k \in OpenKeys : k <= latest
    BY OpenIsAccepted DEF ServerInv
  <2>3. key \notin OpenKeys
    BY <1>2, <1>3, <2>2
  <2> QED
    BY <1>6, <2>1, <2>3
<1>10. KeysInv' /\ FinalStep
  BY <1>1, <1>3, <1>4, <1>5, <1>6, <1>7, <1>8, <1>9, AcceptedKeys
<1>11. OutputTypes' /\ generation' = generation /\ generation \in 0 .. generation
  BY <1>1, CallsTyped, CallsKeepGeneration, OutputLimits
     DEF ServerInv, ServerTypes, OutputTypes, GenerationType
<1>12. LeaseTypes' /\ LoopTypes' /\ CallsReady'
  BY <1>1, <1>11 DEF ServerInv, ServerTypes, LeaseTypes, LoopTypes, CallsReady
<1>13. KeyTypes' /\ RecordTypes'
  BY <1>1, <1>2, <1>5, <1>7, ServerLimits DEF KeyTypes, RecordTypes, Keys
<1> QED
  BY <1>1, <1>8, <1>10, <1>11, <1>12, <1>13 DEF ServerInv, ServerTypes

-----------------------------------------------------------------------------
(* The theorems.                                                           *)

LEMMA OutputActKeeps ==
  ASSUME ServerInv, UNCHANGED serverVars,
         WriterTakes \/ WriterFinishes \/ Tell \/ BecomeReady \/ Discard \/ Reset
  PROVE  ServerInv' /\ FinalStep
<1>1. OutputTypes'
  BY WriterTakesTyped, FinishTyped, TellTyped, EndpointTyped DEF WriterFinishes, ServerInv, ServerTypes
<1>2. generation' = generation \/ generation' = generation + 1
  BY DEF WriterTakes, PassOver, StartEntry, StartPhysical, StartForeign, Start, WriterFinishes,
         Finish, Tell, BecomeReady, Discard, Reset
<1>3. generation <= generation'
  BY <1>2, OutputLimits DEF ServerInv, ServerTypes, OutputTypes, GenerationType
<1> QED
  BY <1>1, <1>3, OthersKeep

LEMMA LoopStepKeeps ==
  ASSUME ServerInv, LoopStep
  PROVE  ServerInv' /\ FinalStep
<1>1. Watchdog => (Watchdog /\ Silent) \/ (Watchdog /\ ~Silent)
  OBVIOUS
<1> QED
  BY <1>1, TopKeeps, FetchKeeps, HandleOtherKeeps, TickReleaseKeeps, EnqueueHoldKeeps, ResetsKeep,
     HandleFailureKeeps, HandleReleasedKeeps, HandlePressedKeeps, HandleClickedKeeps,
     TickSnapshotKeeps, TickEditKeeps
     DEF LoopStep

LEMMA ReceivePacketKeeps ==
  ASSUME ServerInv, ReceivePacket
  PROVE  ServerInv' /\ FinalStep
<1>1. PICK peer \in Peers :
        \/ \E key \in Keys :
             \/ \E count \in Counts : ReceiveSchedule(peer, key, count)
             \/ ReceiveReleaseAll(peer, key)
             \/ ReceiveAgain(peer, key)
        \/ \E next \in Holds, moves \in Moving, text \in BOOLEAN :
             ReceiveHold(peer, next, moves, text)
        \/ ReceiveKeepalive(peer)
        \/ ReceiveTextRelease(peer)
        \/ ReceiveTextClick(peer)
  BY DEF ReceivePacket
<1> QED
  BY <1>1, ReceiveScheduleKeeps, ReceiveReleaseAllKeeps, RenewalKeeps, ReceiveHoldKeeps, ResetsKeep,
     ReceiveTextClickKeeps

LEMMA ServerStepKeeps == ServerInv /\ [Next]_vars => ServerInv' /\ FinalStep
<1> SUFFICES ASSUME ServerInv, [Next]_vars PROVE ServerInv' /\ FinalStep
  OBVIOUS
<1>1. CASE ServerStep
  BY <1>1, LoopStepKeeps, ReceivePacketKeeps, StopKeeps DEF ServerStep
<1>2. CASE OutputActs
  BY <1>2, OutputActKeeps DEF OutputActs
<1>3. CASE Lapse \/ DelayPasses
  BY <1>3, LapseKeeps, DelayKeeps
<1>4. CASE UNCHANGED vars
  <2>1. UNCHANGED serverVars /\ UNCHANGED outputVars /\ generation' = generation
    BY <1>4, CallsKeepGeneration DEF vars
  <2>2. OutputTypes' /\ generation <= generation'
    BY <2>1, OutputKept, OutputLimits DEF ServerInv, ServerTypes, OutputTypes, GenerationType
  <2> QED
    BY <2>1, <2>2, OthersKeep
<1> QED
  BY <1>1, <1>2, <1>3, <1>4 DEF Next

(* The invariant: types, and one open command to a key of clicks, release  *)
(* and records.                                                            *)
THEOREM ServerCorrect == Spec => []ServerInv
<1>1. ServerInv /\ [Next]_vars => ServerInv'
  BY ServerStepKeeps
<1> QED
  BY <1>1, InitKeeps, PTL DEF Spec

LEMMA TypesImplied == ServerInv => TypeOK
<1> SUFFICES ASSUME ServerInv PROVE TypeOK
  OBVIOUS
<1>1. \A e \in EntrySet : Entry(e)
  BY DEF EntrySet, Entry, ReportKinds
<1>2. \A j \in DOMAIN queue : Entry(queue[j])
  BY <1>1 DEF ServerInv, ServerTypes, OutputTypes, QueueTypes
<1>3. \A j \in DOMAIN work : work[j].phase \in Phases
  <2>1. \A c \in ClickSet : c.phase \in Phases
    BY DEF ClickSet
  <2> QED
    BY <2>1 DEF ServerInv, ServerTypes, WorkTypes
<1>4. held => wire # <<>> /\ queue # <<>>
  BY DEF ServerInv, ServerTypes, OutputTypes, HeldIsFront
<1>5. generation \in 0 .. ResetLimit /\ ready \in BOOLEAN /\ held \in BOOLEAN
  BY DEF ServerInv, ServerTypes, OutputTypes, GenerationType, FlagTypes
<1>6. Len(queue) <= QueueLimit /\ Len(wire) <= 1 /\ Len(told) <= 1 /\ Len(events) <= EventLimit
  BY DEF ServerInv, ServerTypes, OutputTypes, QueueTypes, WireTypes, ToldTypes, EventTypes
<1>7. /\ tracked \in 0 .. generation /\ owner \in Peers \cup {NoPeer}
      /\ Len(work) <= ClickLimit /\ Len(records) <= RecordLimit /\ latest \in 0 .. CommandLimit
      /\ releaseKey \in {NoKey} \cup Keys
  BY DEF ServerInv, ServerTypes, LoopTypes, LeaseTypes, WorkTypes, RecordTypes, KeyTypes, AnyKey
<1> QED
  BY <1>2, <1>3, <1>4, <1>5, <1>6, <1>7 DEF TypeOK

(* Queues, counters and the cache stay within their limits, a report that  *)
(* is marked as the front command's has one, and the loop tracks a         *)
(* generation there has been.                                              *)
THEOREM ServerTypesHold == Spec => []TypeOK
  BY ServerCorrect, TypesImplied, PTL

(* What the client has been told of a command that ended is not changed by *)
(* any later packet, event or reset.                                       *)
THEOREM TerminalStays == Spec => TerminalIsFinal
<1>1. ServerInv /\ [Next]_vars =>
        [\A i \in DOMAIN records, j \in DOMAIN records' :
           records[i].terminal /\ records'[j].key = records[i].key
             => records'[j] = records[i]]_vars
  BY ServerStepKeeps DEF FinalStep
<1> QED
  BY <1>1, ServerCorrect, PTL DEF Spec, TerminalIsFinal
=============================================================================
