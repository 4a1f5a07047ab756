-------------------------- MODULE MoveServer_proofs --------------------------
(***************************************************************************)
(* Proofs about movement transactions, for all values of the constants.    *)
(*                                                                         *)
(* The argument: a report of the transaction that is queued, in the writer *)
(* thread or told of is the one it waits for, and nothing of it comes      *)
(* after the event that finishes it.                                       *)
(***************************************************************************)
EXTENDS MoveServer, Release_proofs

-----------------------------------------------------------------------------
(* The mover's states, and what its functions make of them.                *)

Statuses ==
  {"Invalid", "Active", "Completed", "Cancelled", "EndpointChanged", "Interrupted", "Timeout",
   "WriterFailed", "ButtonActive"}
MoverSet ==
  [status : Statuses, stage : Stages, key : AnyKey, generation : Nat,
   button : {NoButton, ClickButton}, dx : Int, wait : BOOLEAN, out : Int, back : Int,
   uncertain : BOOLEAN, pressed : BOOLEAN, released : BOOLEAN, pending : BOOLEAN,
   continued : BOOLEAN, cancelled : BOOLEAN]
LandedSet == [net : Int, press : BOOLEAN, release : BOOLEAN]

Running(m) == m.status = "Active"
Resting == {"Idle", "Done"}   \* the stages of a transaction that is not active

(* What no step of a transaction changes.                                  *)
SameRequest(m, n) ==
  n.key = m.key /\ n.generation = m.generation /\ n.dx = m.dx /\ n.button = m.button
SameMotion(m, n) == n.out = m.out /\ n.back = m.back

(* n is m, ended if it was active; a report under way makes it uncertain.  *)
Ends(m, n) ==
  /\ n \in MoverSet /\ SameRequest(m, n) /\ SameMotion(m, n)
  /\ ~Running(n)
  /\ Running(m) /\ m.pending => n.uncertain
  /\ m.uncertain => n.uncertain
  /\ ~(Running(m) /\ m.pending) /\ n.uncertain => m.uncertain
  /\ ~Running(m) => n = m

LEMMA StopEnds ==
  ASSUME NEW m \in MoverSet, NEW reason \in Statuses \ {"Active"}
  PROVE  Ends(m, StopMover(m, reason))
<1>1. CASE ~Running(m)
  BY <1>1 DEF StopMover, Running, Ends, SameRequest, SameMotion
<1>2. CASE Running(m)
  <2> DEFINE u == m.uncertain \/ m.pending
             n == [m EXCEPT !.status = reason, !.stage = "Done", !.pending = FALSE, !.uncertain = u]
  <2>1. u \in BOOLEAN
    OBVIOUS
  <2>2. StopMover(m, reason) = n
    BY <1>2 DEF StopMover, Running, MoverSet
  <2>3. (u => m.uncertain \/ m.pending) /\ (m.uncertain => u) /\ (m.pending => u)
    OBVIOUS
  <2> HIDE DEF u
  <2>4. n \in MoverSet
    BY <2>1 DEF MoverSet, Stages
  <2>5. /\ n.key = m.key /\ n.generation = m.generation /\ n.dx = m.dx /\ n.button = m.button
        /\ n.out = m.out /\ n.back = m.back /\ n.status = reason /\ n.uncertain = u
    BY DEF MoverSet
  <2> HIDE DEF n
  <2> QED
    BY <1>2, <2>2, <2>3, <2>4, <2>5 DEF Ends, SameRequest, SameMotion, Running
<1> QED
  BY <1>1, <1>2

(* An active transaction that waits for nothing goes on, or is done.       *)
GoesOn(m, n) ==
  /\ n \in MoverSet /\ SameRequest(m, n) /\ SameMotion(m, n)
  /\ ~n.pending /\ n.uncertain = m.uncertain
  /\ Running(n) => n.stage \notin Resting
  /\ Running(n) /\ n.stage = "Out" => m.stage = "Out"

LEMMA StageChange ==
  ASSUME NEW m \in MoverSet, Running(m), ~m.pending,
         NEW stage \in Stages \ {"Idle", "Done", "Out"}
  PROVE  /\ GoesOn(m, [m EXCEPT !.stage = stage]) /\ Running([m EXCEPT !.stage = stage])
         /\ GoesOn(m, [m EXCEPT !.stage = stage, !.cancelled = TRUE])
         /\ [m EXCEPT !.stage = stage].stage = stage
  BY DEF GoesOn, SameRequest, SameMotion, Running, MoverSet, Stages, Resting

LEMMA DivertedGoesOn ==
  ASSUME NEW m \in MoverSet, Running(m), ~m.pending, m.stage \notin Resting
  PROVE  GoesOn(m, Diverted(m)) /\ Running(Diverted(m))
<1>1. GoesOn(m, m)
  BY DEF GoesOn, SameRequest, SameMotion
<1>2. Diverted(m) \in {m, [m EXCEPT !.stage = "Release"], [m EXCEPT !.stage = "Delay"]}
  BY DEF Diverted, Enter
<1> QED
  BY <1>1, <1>2, StageChange DEF Stages

LEMMA WaitedGoesOn ==
  ASSUME NEW m \in MoverSet, Running(m), ~m.pending, m.stage \notin Resting, ~WantsReport(m)
  PROVE  GoesOn(m, Waited(m))
<1>1. m.stage \in {"Out", "Settle", "Waiting", "Hold", "Delay"}
  BY DEF WantsReport, MoverSet, Stages, Resting
<1>2. ActionStage(m) \in {"Press", "Delay"}
  BY DEF ActionStage
<1>3. \A stage \in {"Settle", "Waiting", "Press", "Delay", "Release", "Return"} :
        /\ GoesOn(m, Enter(m, stage))
        /\ GoesOn(m, [Enter(m, stage) EXCEPT !.cancelled = TRUE])
  BY StageChange DEF Enter, Stages
<1>4. GoesOn(m, Finished(m))
  BY DEF Finished, GoesOn, SameRequest, SameMotion, Running, MoverSet, Statuses, Stages
<1>5. \/ \E stage \in {"Settle", "Waiting", "Press", "Delay", "Release", "Return"} :
           Waited(m) \in {Enter(m, stage), [Enter(m, stage) EXCEPT !.cancelled = TRUE]}
      \/ Waited(m) = Finished(m)
  BY <1>1, <1>2 DEF Waited
<1> QED
  BY <1>3, <1>4, <1>5

(* Its report is a command of its own kinds, under its key.                *)
LEMMA MoverReports ==
  ASSUME NEW m \in MoverSet, WantsReport(m)
  PROVE  /\ MoverReport(m) \in CommandSet /\ MoverReport(m).kind \in Transactions
         /\ MoverReport(m).key[1] = m.key /\ ~MoverReport(m).latest
         /\ PlainRelease(MoverReport(m))
         /\ MoverReport(m).kind \in {"TRANSACTION_PRESS", "TRANSACTION_RELEASE"} =>
              MoverReport(m).x = 0
         /\ MoverReport(m).kind = "TRANSACTION_OUT" => m.stage = "Out" /\ MoverReport(m).x = m.dx
         /\ MoverReport(m).kind = "TRANSACTION_RETURN" => MoverReport(m).x = -(m.out + m.back)
<1>1. /\ m.key \in AnyKey /\ m.button \in {NoButton, ClickButton} /\ m.dx \in Int
      /\ m.out \in Int /\ m.back \in Int
  BY DEF MoverSet
<1>2. m.button \in AllButtons
  BY <1>1 DEF AllButtons, NoButton
<1> DEFINE back == -(m.out + m.back)
<1>3. back \in Int
  BY <1>1
<1> HIDE DEF back
<1>5. /\ m.stage = "Out" =>
           MoverReport(m) = Report("TRANSACTION_OUT", m.key, 0, {}, {}, m.button, m.dx, FALSE)
      /\ m.stage = "Press" =>
           MoverReport(m) =
             Report("TRANSACTION_PRESS", m.key, 0, {}, {m.button}, m.button, 0, FALSE)
      /\ m.stage = "Release" =>
           MoverReport(m) = Report("TRANSACTION_RELEASE", m.key, 0, {}, {}, m.button, 0, FALSE)
      /\ m.stage = "Return" =>
           MoverReport(m) = Report("TRANSACTION_RETURN", m.key, 0, {}, {}, m.button, back, FALSE)
  BY DEF MoverReport, Residual, back
<1>6. m.stage \in {"Out", "Press", "Release", "Return"}
  BY DEF WantsReport
<1>7. {} \in SUBSET AllButtons /\ {m.button} \in SUBSET AllButtons /\ m.button \in AllButtons
      /\ 0 \in Int
  BY <1>2
<1> DEFINE pair == <<m.key, 0>>
<1>4. pair \in KeyPairs /\ pair[1] = m.key
  BY <1>1 DEF KeyPairs, AnyKey
<1> HIDE DEF pair
<1>10. \A kind \in Transactions : kind \in ReportKinds
  BY DEF ReportKinds, Reported, Transactions
<1>8. /\ "TRANSACTION_OUT" \in Transactions /\ "TRANSACTION_PRESS" \in Transactions
      /\ "TRANSACTION_RELEASE" \in Transactions /\ "TRANSACTION_RETURN" \in Transactions
      /\ "RELEASE_ALL" \notin Transactions
  BY DEF Transactions, Forced
<1> DEFINE c == MoverReport(m)
<1>9. /\ c \in CommandSet /\ c.kind \in Transactions /\ c.key[1] = m.key /\ c.latest = FALSE
      /\ \/ c.kind = "TRANSACTION_OUT" /\ m.stage = "Out" /\ c.x = m.dx
         \/ c.kind \in {"TRANSACTION_PRESS", "TRANSACTION_RELEASE"} /\ c.x = 0
         \/ c.kind = "TRANSACTION_RETURN" /\ c.x = back
  <2> HIDE DEF c
  <2>1. CASE m.stage = "Out"
    <3>1. c = Report("TRANSACTION_OUT", m.key, 0, {}, {}, m.button, m.dx, FALSE)
      BY <1>5, <2>1 DEF c
    <3>2. /\ c \in CommandSet /\ c.kind = "TRANSACTION_OUT" /\ c.key[1] = m.key /\ c.latest = FALSE
          /\ c.x = m.dx
      BY <1>1, <1>3, <1>4, <1>7, <1>8, <1>10, <3>1 DEF Report, CommandSet, pair
    <3> QED
      BY <1>8, <2>1, <3>2
  <2>2. CASE m.stage = "Press"
    <3>1. c = Report("TRANSACTION_PRESS", m.key, 0, {}, {m.button}, m.button, 0, FALSE)
      BY <1>5, <2>2 DEF c
    <3>2. /\ c \in CommandSet /\ c.kind = "TRANSACTION_PRESS" /\ c.key[1] = m.key
          /\ c.latest = FALSE
          /\ c.x = 0
      BY <1>1, <1>3, <1>4, <1>7, <1>8, <1>10, <3>1 DEF Report, CommandSet, pair
    <3> QED
      BY <1>8, <2>2, <3>2
  <2>3. CASE m.stage = "Release"
    <3>1. c = Report("TRANSACTION_RELEASE", m.key, 0, {}, {}, m.button, 0, FALSE)
      BY <1>5, <2>3 DEF c
    <3>2. /\ c \in CommandSet /\ c.kind = "TRANSACTION_RELEASE" /\ c.key[1] = m.key
          /\ c.latest = FALSE
          /\ c.x = 0
      BY <1>1, <1>3, <1>4, <1>7, <1>8, <1>10, <3>1 DEF Report, CommandSet, pair
    <3> QED
      BY <1>8, <2>3, <3>2
  <2>4. CASE m.stage = "Return"
    <3>1. c = Report("TRANSACTION_RETURN", m.key, 0, {}, {}, m.button, back, FALSE)
      BY <1>5, <2>4 DEF c
    <3>2. /\ c \in CommandSet /\ c.kind = "TRANSACTION_RETURN" /\ c.key[1] = m.key
          /\ c.latest = FALSE
          /\ c.x = back
      BY <1>1, <1>3, <1>4, <1>7, <1>8, <1>10, <3>1 DEF Report, CommandSet, pair
    <3> QED
      BY <1>8, <2>4, <3>2
  <2> QED
    BY <1>6, <2>1, <2>2, <2>3, <2>4
<1> HIDE DEF c
<1>11. PlainRelease(c)
  BY <1>8, <1>9 DEF PlainRelease
<1> QED
  BY <1>9, <1>11 DEF c, back

-----------------------------------------------------------------------------
(* The invariant.                                                          *)

Guarded(r) == r.kind \in Transactions
Own(r) == OwnReport(r.kind, r.key)
OwnWire == wire # <<>> /\ Own(Written)
GuardedQueued == \E j \in DOMAIN queue : Guarded(queue[j])
Motionless == {"TRANSACTION_PRESS", "TRANSACTION_RELEASE"}

(* The events the loop will be shown, oldest first; the last one of a      *)
(* report finishes it.                                                     *)
Coming == batch \o (events \o told)
Finishes(e) == Own(e) /\ e.success /\ e.finished
FinishComes == \E i \in DOMAIN Coming : Finishes(Coming[i])

MoverTypes ==
  /\ mover \in MoverSet /\ landed \in LandedSet
  /\ mover.key <= latest /\ mover.generation <= generation
  /\ Active => mover.key # NoKey /\ mover.stage \notin Resting

(* What a transaction that has a report in the queue or in the writer      *)
(* thread says of it.                                                      *)
Owned(m) == IF Running(m) THEN m.pending ELSE m.uncertain

(* An active transaction is alone.                                         *)
SoleUse ==
  Active =>
    /\ ~releasePending /\ persistentButtons = {}
    /\ pc \notin {"hold", "moverReset", "stopping", "stopped"}
    /\ \A j \in DOMAIN queue : Guarded(queue[j])

(* A guarded report in the queue is the one report there, it belongs to    *)
(* the last transaction, and its end has still to come.                    *)
GuardedInv ==
  GuardedQueued =>
    /\ Len(queue) = 1 /\ Own(queue[1]) /\ Owned(mover)
    /\ generation = mover.generation /\ ~FinishComes
    /\ Active \/ pc = "moverReset"
    /\ ~queue[1].latest
    /\ queue[1].committed => queue[1].left # 0
    /\ queue[1].kind \in Motionless => queue[1].left = 0

TurnInv == pc = "moverReport" => Active /\ ~mover.pending /\ WantsReport(mover)

(* So does the report in the writer thread.                                *)
WireInv ==
  /\ wire # <<>> => told = <<>>
  /\ wire # <<>> /\ Guarded(Written) =>
       /\ Written.key[1] \in 0 .. latest
       /\ Written.kind \in Motionless => Written.motion = 0
  /\ OwnWire =>
       /\ Written.generation = mover.generation /\ Owned(mover) /\ ~FinishComes
       /\ GuardedQueued => held

(* And so do the events, the one that finishes it being the last.          *)
Timely(q) ==
  /\ \A i \in DOMAIN q : Guarded(q[i]) => q[i].key[1] \in 0 .. latest
  /\ \A i \in DOMAIN q :
       Own(q[i]) => q[i].generation = mover.generation /\ (Active => mover.pending)
  /\ \A i, j \in DOMAIN q : i < j /\ Finishes(q[i]) => ~Own(q[j])
ComingInv == (pc # "handle" => batch = <<>>) /\ Timely(Coming)

(* What is waited for will be written or told of, or its loss noticed.     *)
Underway ==
  Active /\ mover.pending /\ generation = mover.generation /\ ~overflow /\ pc # "lost" =>
    queue # <<>> \/ \E i \in DOMAIN Coming : Answers(Coming[i])

NoClicksHere == work = <<>> /\ scheduledButtons = {}

MoverInv ==
  /\ ServerInv /\ WriterInv /\ NoClicksHere
  /\ MoverTypes /\ SoleUse /\ GuardedInv /\ TurnInv /\ WireInv /\ ComingInv /\ Underway

-----------------------------------------------------------------------------
(* The events to come, step by step.                                       *)

(* q' is a part of q, from one place to another.                           *)
PartOf(p, q, s) == \A i \in DOMAIN p : i + s \in DOMAIN q /\ p[i] = q[i + s]

LEMMA EventsJoined ==
  ASSUME NEW a \in Seq(EventSet), NEW b \in Seq(EventSet), NEW c \in Seq(EventSet)
  PROVE  a \o (b \o c) = (a \o b) \o c
<1> DEFINE S == EventSet
<1>1. a \in Seq(S) /\ b \in Seq(S) /\ c \in Seq(S)
  OBVIOUS
<1> HIDE DEF S
<1> QED
  BY <1>1, ConcatAssociative

LEMMA ComingTyped ==
  ASSUME OutputTypes, batch \in Seq(EventSet)
  PROVE  /\ Coming \in Seq(EventSet) /\ DOMAIN Coming = 1 .. Len(Coming) /\ Len(Coming) \in Nat
         /\ batch \in Seq(EventSet) /\ events \in Seq(EventSet) /\ told \in Seq(EventSet)
         /\ events \o told \in Seq(EventSet)
  BY ConcatProperties DEF OutputTypes, EventTypes, ToldTypes, Coming

LEMMA PlacesIn ==
  ASSUME NEW S, NEW p \in Seq(S), NEW q \in Seq(S)
  PROVE  /\ p \o q \in Seq(S)
         /\ \A i \in DOMAIN p : i \in DOMAIN (p \o q) /\ (p \o q)[i] = p[i]
         /\ \A i \in DOMAIN q : Len(p) + i \in DOMAIN (p \o q) /\ (p \o q)[Len(p) + i] = q[i]
         /\ \A i \in DOMAIN (p \o q) :
              \/ i \in DOMAIN p
              \/ i - Len(p) \in DOMAIN q /\ (p \o q)[i] = q[i - Len(p)]
<1>1. /\ p \o q \in Seq(S) /\ Len(p \o q) = Len(p) + Len(q)
      /\ \A i \in 1 .. Len(p) + Len(q) :
           (p \o q)[i] = IF i <= Len(p) THEN p[i] ELSE q[i - Len(p)]
  BY ConcatProperties
<1> DEFINE r == p \o q
<1>2. /\ DOMAIN r = 1 .. Len(p) + Len(q) /\ DOMAIN p = 1 .. Len(p) /\ DOMAIN q = 1 .. Len(q)
      /\ Len(p) \in Nat /\ Len(q) \in Nat
  BY <1>1
<1>3. \A i \in 1 .. Len(p) + Len(q) : r[i] = IF i <= Len(p) THEN p[i] ELSE q[i - Len(p)]
  BY <1>1
<1> HIDE DEF r
<1>4. \A i \in DOMAIN p : i \in DOMAIN r /\ r[i] = p[i]
  BY <1>2, <1>3
<1>5. \A i \in DOMAIN q : Len(p) + i \in DOMAIN r /\ r[Len(p) + i] = q[i]
  BY <1>2, <1>3
<1>6. \A i \in DOMAIN r : i \in DOMAIN p \/ (i - Len(p) \in DOMAIN q /\ r[i] = q[i - Len(p)])
  BY <1>2, <1>3
<1> QED
  BY <1>1, <1>4, <1>5, <1>6 DEF r

(* Events taken by the loop keep their order.                              *)
LEMMA FetchedComing ==
  ASSUME OutputTypes, batch = <<>>, TakeEvents, batch' = events
  PROVE  Coming' = Coming
<1>1. events \in Seq(EventSet) /\ events \o told \in Seq(EventSet) /\ told \in Seq(EventSet)
  BY ConcatProperties DEF OutputTypes, EventTypes, ToldTypes
<1>2. events' = <<>> /\ told' = told
  BY DEF TakeEvents
<1> QED
  BY <1>1, <1>2, ConcatEmptySeq DEF Coming

(* Handling one takes the first.                                           *)
LEMMA HandledComing ==
  ASSUME OutputTypes, batch \in Seq(EventSet), batch # <<>>, batch' = Tail(batch),
         UNCHANGED <<events, told>>
  PROVE  /\ Event = Coming[1] /\ 1 \in DOMAIN Coming /\ Event \in EventSet
         /\ PartOf(Coming', Coming, 1)
         /\ \A i \in DOMAIN Coming : i # 1 => i - 1 \in DOMAIN Coming' /\ Coming'[i - 1] = Coming[i]
<1> DEFINE rest == events \o told
           t == Tail(batch)
<1>1. rest \in Seq(EventSet) /\ rest' = rest
  BY ComingTyped
<1>2. /\ t \in Seq(EventSet) /\ Len(t) = Len(batch) - 1 /\ Head(batch) = batch[1]
      /\ batch[1] \in EventSet /\ \A i \in 1 .. Len(t) : t[i] = batch[i + 1]
      /\ Len(batch) \in Nat /\ Len(batch) > 0
  OBVIOUS
<1> HIDE DEF rest, t
<1>3. /\ batch \o rest \in Seq(EventSet) /\ Len(batch \o rest) = Len(batch) + Len(rest)
      /\ \A i \in 1 .. Len(batch) + Len(rest) :
           (batch \o rest)[i] = IF i <= Len(batch) THEN batch[i] ELSE rest[i - Len(batch)]
  BY <1>1, ConcatProperties
<1>4. /\ t \o rest \in Seq(EventSet) /\ Len(t \o rest) = Len(t) + Len(rest)
      /\ \A i \in 1 .. Len(t) + Len(rest) :
           (t \o rest)[i] = IF i <= Len(t) THEN t[i] ELSE rest[i - Len(t)]
  <2>1. t \in Seq(EventSet) /\ rest \in Seq(EventSet)
    BY <1>1, <1>2
  <2> QED
    BY <2>1, ConcatProperties
<1> DEFINE c == batch \o rest
           d == t \o rest
<1>5. Coming = c /\ Coming' = d
  BY <1>1 DEF Coming, rest, t
<1>6. Len(rest) \in Nat
  BY <1>1
<1>7. /\ DOMAIN c = 1 .. Len(batch) + Len(rest) /\ DOMAIN d = 1 .. Len(t) + Len(rest)
      /\ \A i \in DOMAIN c : c[i] = IF i <= Len(batch) THEN batch[i] ELSE rest[i - Len(batch)]
      /\ \A i \in DOMAIN d : d[i] = IF i <= Len(t) THEN t[i] ELSE rest[i - Len(t)]
  BY <1>3, <1>4
<1> HIDE DEF c, d
<1>8. \A i \in DOMAIN d : i + 1 \in DOMAIN c /\ d[i] = c[i + 1]
  <2> SUFFICES ASSUME NEW i \in DOMAIN d PROVE i + 1 \in DOMAIN c /\ d[i] = c[i + 1]
    OBVIOUS
  <2>1. i + 1 \in DOMAIN c /\ i \in Nat /\ i >= 1
    BY <1>2, <1>6, <1>7
  <2>2. CASE i <= Len(t)
    BY <1>2, <1>7, <2>1, <2>2
  <2>3. CASE i > Len(t)
    <3>1. (i + 1) - Len(batch) = i - Len(t) /\ ~(i + 1 <= Len(batch)) /\ ~(i <= Len(t))
      BY <1>2, <2>1, <2>3
    <3> QED
      BY <1>7, <2>1, <3>1
  <2> QED
    BY <1>2, <2>1, <2>2, <2>3
<1>9. \A i \in DOMAIN c : i # 1 => i - 1 \in DOMAIN d /\ (i - 1) + 1 = i
  BY <1>2, <1>6, <1>7
<1>10. 1 \in DOMAIN c /\ c[1] = batch[1]
  <2>1. 1 \in 1 .. Len(batch) + Len(rest) /\ 1 <= Len(batch)
    BY <1>2, <1>6
  <2> QED
    BY <1>7, <2>1
<1>11. Event = batch[1]
  BY <1>2 DEF Event
<1>12. PartOf(d, c, 1)
  BY <1>8 DEF PartOf
<1>13. \A i \in DOMAIN c : i # 1 => i - 1 \in DOMAIN d /\ d[i - 1] = c[i]
  BY <1>8, <1>9
<1> QED
  BY <1>2, <1>5, <1>10, <1>11, <1>12, <1>13

(* The appended event is the next to come, or lost.                        *)
LEMMA ToldComing ==
  ASSUME OutputTypes, batch \in Seq(EventSet), Tell, UNCHANGED batch
  PROVE  /\ Len(events) < EventLimit => Coming' = Coming /\ overflow' = overflow
         /\ ~(Len(events) < EventLimit) => overflow' = TRUE /\ Coming' = batch \o events
         /\ PartOf(Coming', Coming, 0)
<1>1. /\ batch \in Seq(EventSet) /\ events \in Seq(EventSet) /\ told \in Seq(EventSet)
      /\ events \o told \in Seq(EventSet) /\ batch \o events \in Seq(EventSet)
  BY ComingTyped, ConcatProperties
<1>2. told' = <<>>
  BY DEF Tell
<1>3. Len(events) < EventLimit => Coming' = Coming /\ overflow' = overflow
  <2> SUFFICES ASSUME Len(events) < EventLimit PROVE Coming' = Coming /\ overflow' = overflow
    OBVIOUS
  <2>1. events' = events \o told /\ overflow' = overflow
    BY DEF Tell
  <2>2. events' \o told' = events \o told
    BY <1>1, <1>2, <2>1, ConcatEmptySeq
  <2> QED
    BY <2>1, <2>2 DEF Coming
<1>4. ~(Len(events) < EventLimit) => overflow' = TRUE /\ Coming' = batch \o events
  <2> SUFFICES ASSUME ~(Len(events) < EventLimit)
               PROVE  overflow' = TRUE /\ Coming' = batch \o events
    OBVIOUS
  <2>1. events' = events /\ overflow' = TRUE
    BY DEF Tell
  <2>2. events' \o told' = events
    BY <1>1, <1>2, <2>1, ConcatEmptySeq
  <2> QED
    BY <2>1, <2>2 DEF Coming
<1> DEFINE b == batch \o events
<1>5. Coming = b \o told
  BY <1>1, EventsJoined DEF Coming
<1> HIDE DEF b
<1>6. PartOf(b, Coming, 0)
  <2>1. \A i \in DOMAIN b : i \in DOMAIN Coming /\ Coming[i] = b[i]
    BY <1>1, <1>5, PlacesIn DEF b
  <2>2. \A i \in DOMAIN b : i + 0 = i
    BY <1>1 DEF b
  <2> QED
    BY <2>1, <2>2 DEF PartOf
<1>7. PartOf(Coming, Coming, 0)
  <2>1. \A i \in DOMAIN Coming : i + 0 = i
    BY ComingTyped
  <2> QED
    BY <2>1 DEF PartOf
<1> QED
  BY <1>3, <1>4, <1>6, <1>7 DEF b

(* A completion is the last to come.                                       *)
LEMMA CompletedComing ==
  ASSUME OutputTypes, batch \in Seq(EventSet), told = <<>>, UNCHANGED <<batch, events>>
  PROVE  /\ told' = <<>> => Coming' = Coming
         /\ \A e \in EventSet : told' = <<e>> => Coming' = Append(Coming, e)
<1>1. batch \in Seq(EventSet) /\ events \in Seq(EventSet) /\ batch \o events \in Seq(EventSet)
  BY ComingTyped, ConcatProperties
<1>2. Coming = batch \o events
  BY <1>1, ConcatEmptySeq DEF Coming
<1>3. told' = <<>> => Coming' = Coming
  BY DEF Coming
<1>4. ASSUME NEW e \in EventSet, told' = <<e>>
      PROVE  Coming' = Append(Coming, e)
  <2>1. <<e>> \in Seq(EventSet)
    BY OneTyped
  <2>2. Coming' = batch \o (events \o <<e>>)
    BY <1>4 DEF Coming
  <2>3. Coming' = (batch \o events) \o <<e>>
    BY <1>1, <2>1, <2>2, EventsJoined
  <2> QED
    BY <1>1, <1>2, <2>3, AppendIsConcat
<1> QED
  BY <1>3, <1>4

-----------------------------------------------------------------------------
(* What a step that starts no transaction and accepts no guarded report    *)
(* keeps, part by part.                                                    *)

MoverGoes ==
  /\ mover' \in MoverSet /\ SameRequest(mover, mover')
  /\ Active' => Active /\ mover'.stage \notin Resting
  /\ GuardedQueued \/ OwnWire => Owned(mover')
  /\ latest <= latest' /\ landed' \in LandedSet

(* The events to come are some of those before, and if they are of an      *)
(* active transaction it waits for them.                                   *)
ComingGoes ==
  /\ \E s \in Nat : PartOf(Coming', Coming, s)
  /\ Active' /\ (\E i \in DOMAIN Coming' : Own(Coming'[i])) => mover'.pending
  /\ pc' # "handle" => batch' = <<>>

QueueGoes ==
  \/ queue' = queue /\ generation' = generation /\ (GuardedQueued => Active' \/ pc' = "moverReset")
  \/ queue' = <<>> /\ generation <= generation'
  \/ ~Active' /\ ~GuardedQueued' /\ generation' = generation

StaysAlone ==
  Active' => ~releasePending' /\ persistentButtons' = {}
             /\ pc' \notin {"hold", "moverReset", "stopping", "stopped"}

Tidy ==
  /\ OutputTypes /\ batch \in Seq(EventSet)
  /\ Coming \in Seq(EventSet) /\ DOMAIN Coming = 1 .. Len(Coming) /\ Len(Coming) \in Nat
  /\ generation \in Nat /\ latest \in Nat
  /\ queue \in Seq(EntrySet) /\ DOMAIN queue = 1 .. Len(queue) /\ Len(queue) \in Nat

LEMMA Typed == ServerInv => Tidy
  BY ComingTyped, OutputLimits, ServerLimits
     DEF ServerInv, ServerTypes, LoopTypes, KeyTypes, OutputTypes, GenerationType, QueueTypes, Tidy

LEMMA TypedNext == ServerInv' => Tidy'
  BY Typed, PTL

LEMMA ComingKept ==
  ASSUME ServerInv, ServerInv', MoverTypes, ComingInv, MoverGoes, ComingGoes
  PROVE  ComingInv' /\ (FinishComes' => FinishComes)
<1>1. PICK s \in Nat : PartOf(Coming', Coming, s)
  BY DEF ComingGoes
<1>2. DOMAIN Coming' \subseteq Nat /\ latest \in Nat /\ latest' \in Nat
  BY Typed, TypedNext DEF Tidy
<1>3. \A i \in DOMAIN Coming' : i + s \in DOMAIN Coming /\ Coming'[i] = Coming[i + s]
  BY <1>1 DEF PartOf
<1>4. latest <= latest' /\ mover'.key = mover.key /\ mover'.generation = mover.generation
  BY DEF MoverGoes, SameRequest
<1> DEFINE c == Coming
           d == Coming'
<1> HIDE DEF c, d
<1>5. /\ \A i \in DOMAIN c : Guarded(c[i]) => c[i].key[1] \in 0 .. latest
      /\ \A i \in DOMAIN c : Own(c[i]) => c[i].generation = mover.generation
      /\ \A i, j \in DOMAIN c : i < j /\ Finishes(c[i]) => ~Own(c[j])
  BY DEF ComingInv, Timely, c
<1>6. \A i \in DOMAIN d : i \in Nat /\ i + s \in DOMAIN c /\ d[i] = c[i + s]
  BY <1>2, <1>3 DEF c, d
<1>7. \A i \in DOMAIN d : Guarded(d[i]) => d[i].key[1] \in 0 .. latest'
  <2> SUFFICES ASSUME NEW i \in DOMAIN d, Guarded(d[i]) PROVE d[i].key[1] \in 0 .. latest'
    OBVIOUS
  <2>1. d[i].key[1] \in 0 .. latest
    BY <1>5, <1>6
  <2> QED
    BY <1>2, <1>4, <2>1
<1>8. \A i \in DOMAIN d : Own(d[i]) => d[i].generation = mover'.generation
  BY <1>4, <1>5, <1>6
<1>9. \A i, j \in DOMAIN d : i < j /\ Finishes(d[i]) => ~Own(d[j])
  <2> SUFFICES ASSUME NEW i \in DOMAIN d, NEW j \in DOMAIN d, i < j, Finishes(d[i]) PROVE ~Own(d[j])
    OBVIOUS
  <2>1. i + s < j + s /\ i + s \in DOMAIN c /\ j + s \in DOMAIN c
    BY <1>6
  <2> QED
    BY <1>5, <1>6, <2>1
<1>10. Active' => \A i \in DOMAIN d : Own(d[i]) => mover'.pending
  BY DEF ComingGoes, d
<1>11. \A r : Own(r)' <=> Own(r)
  BY <1>4 DEF Own, OwnReport
<1>12. \A r : Finishes(r)' <=> Finishes(r)
  BY <1>11 DEF Finishes
<1>13. Timely(Coming)'
  BY <1>7, <1>8, <1>9, <1>10, <1>11, <1>12 DEF Timely, Guarded, d
<1>14. FinishComes' => FinishComes
  BY <1>6, <1>12 DEF FinishComes, c, d
<1> QED
  BY <1>13, <1>14 DEF ComingInv, ComingGoes

LEMMA QueueKept ==
  ASSUME ServerInv, ServerInv', SoleUse, GuardedInv, MoverTypes, MoverGoes, QueueGoes, StaysAlone,
         FinishComes' => FinishComes
  PROVE  MoverTypes' /\ SoleUse' /\ GuardedInv'
<1>1. /\ mover' \in MoverSet /\ mover'.key = mover.key /\ mover'.generation = mover.generation
      /\ Active' => Active /\ mover'.stage \notin Resting
      /\ latest <= latest' /\ landed' \in LandedSet
  BY DEF MoverGoes, SameRequest
<1>2. /\ generation \in Nat /\ generation' \in Nat /\ latest \in Nat /\ latest' \in Nat
      /\ mover.key \in Nat /\ mover.generation \in Nat
  BY Typed, TypedNext, ServerLimits DEF Tidy, MoverTypes, MoverSet, AnyKey, Keys, NoKey
<1>3. generation <= generation'
  BY <1>2 DEF QueueGoes
<1>4. MoverTypes'
  BY <1>1, <1>2, <1>3 DEF MoverTypes
<1>5. \A r : Own(r)' <=> Own(r)
  BY <1>1 DEF Own, OwnReport
<1>6. queue' = <<>> => DOMAIN queue' = {} /\ ~GuardedQueued'
  BY DEF GuardedQueued
<1>7. SoleUse'
  <2> SUFFICES ASSUME Active' PROVE \A j \in DOMAIN queue' : Guarded(queue'[j])
    BY DEF SoleUse, StaysAlone
  <2> QED
    BY <1>1, <1>6 DEF SoleUse, QueueGoes
<1>8. GuardedInv'
  <2> SUFFICES ASSUME GuardedQueued' PROVE GuardedInv'
    BY DEF GuardedInv
  <2>1. CASE queue' = queue /\ generation' = generation /\
               (GuardedQueued => Active' \/ pc' = "moverReset")
    <3>1. GuardedQueued
      BY <2>1 DEF GuardedQueued
    <3>2. Owned(mover')
      BY <3>1 DEF MoverGoes
    <3> QED
      BY <1>1, <1>5, <2>1, <3>1, <3>2 DEF GuardedInv
  <2>2. CASE ~Active' /\ ~GuardedQueued'
    BY <2>2 DEF GuardedInv
  <2> QED
    BY <1>6, <2>1, <2>2 DEF QueueGoes
<1> QED
  BY <1>4, <1>7, <1>8

LEMMA WireKept ==
  ASSUME WireInv, MoverGoes, wire' = wire, wire # <<>> => told' = <<>>,
         (queue' = queue /\ held' = held) \/ ~GuardedQueued',
         latest \in Nat, latest' \in Nat, FinishComes' => FinishComes
  PROVE  WireInv'
<1>1. /\ mover'.key = mover.key /\ mover'.generation = mover.generation
      /\ latest <= latest' /\ Written' = Written
  BY DEF MoverGoes, SameRequest, Written
<1>2. OwnWire' <=> OwnWire
  BY <1>1 DEF OwnWire, Own, OwnReport
<1>3. GuardedQueued' => GuardedQueued /\ held' = held
  BY DEF GuardedQueued
<1>4. ASSUME wire' # <<>>, Guarded(Written)'
      PROVE  Written'.key[1] \in 0 .. latest' /\
               (Written'.kind \in Motionless => Written'.motion = 0)
  <2>1. Written.key[1] \in 0 .. latest
    BY <1>1, <1>4 DEF WireInv, Guarded
  <2> QED
    BY <1>1, <1>4, <2>1 DEF WireInv, Guarded
<1>5. ASSUME OwnWire'
      PROVE  /\ Written'.generation = mover'.generation /\ Owned(mover)' /\ ~FinishComes'
             /\ GuardedQueued' => held'
  BY <1>1, <1>2, <1>3, <1>5 DEF WireInv, MoverGoes
<1> QED
  BY <1>4, <1>5 DEF WireInv

LEMMA StepKept ==
  ASSUME MoverInv, ServerInv', WriterInv', NoClicksHere', MoverGoes, ComingGoes, QueueGoes,
         StaysAlone,
         wire' = wire, wire # <<>> => told' = <<>>,
         (queue' = queue /\ held' = held) \/ ~GuardedQueued',
         TurnInv', Underway'
  PROVE  MoverInv'
<1>1. latest \in Nat /\ latest' \in Nat
  BY Typed, TypedNext DEF Tidy, MoverInv
<1>2. ComingInv' /\ (FinishComes' => FinishComes)
  BY ComingKept DEF MoverInv
<1>3. MoverTypes' /\ SoleUse' /\ GuardedInv'
  BY <1>2, QueueKept DEF MoverInv
<1>4. WireInv'
  BY <1>1, <1>2, WireKept DEF MoverInv
<1> QED
  BY <1>2, <1>3, <1>4 DEF MoverInv

-----------------------------------------------------------------------------
(* Steps of the loop that call nothing of the mixer, or are refused.       *)

LEMMA OwnedNow ==
  ASSUME MoverInv
  PROVE  GuardedQueued \/ OwnWire => Owned(mover)
  BY DEF MoverInv, GuardedInv, WireInv

LEMMA SameGoes ==
  ASSUME MoverInv, mover' = mover, latest <= latest', landed' = landed
  PROVE  MoverGoes
  BY OwnedNow DEF MoverGoes, SameRequest, MoverInv, MoverTypes, Active

LEMMA EndGoes ==
  ASSUME MoverInv, Ends(mover, mover'), latest <= latest', landed' = landed
  PROVE  MoverGoes /\ ~Active'
<1>1. mover' \in MoverSet /\ SameRequest(mover, mover') /\ ~Active'
  BY DEF Ends, Running, Active
<1>2. GuardedQueued \/ OwnWire => Owned(mover')
  BY OwnedNow, <1>1 DEF Ends, Owned, Running, Active
<1> QED
  BY <1>1, <1>2 DEF MoverGoes, MoverInv, MoverTypes

LEMMA OnGoes ==
  ASSUME MoverInv, Active, ~mover.pending, GoesOn(mover, mover'), latest <= latest',
         landed' = landed
  PROVE  MoverGoes /\ ~mover'.pending
<1>1. mover' \in MoverSet /\ SameRequest(mover, mover') /\ ~mover'.pending
      /\ (Active' => mover'.stage \notin Resting)
  BY DEF GoesOn, Running, Active
<1>2. ~GuardedQueued /\ ~OwnWire
  BY OwnedNow DEF Owned, Running, Active
<1> QED
  BY <1>1, <1>2 DEF MoverGoes, MoverInv, MoverTypes

LEMMA ComingStays ==
  ASSUME MoverInv, MoverGoes, Coming' = Coming, pc' # "handle" => batch' = <<>>,
         Active' => mover'.pending = mover.pending
  PROVE  ComingGoes
<1>1. PartOf(Coming', Coming, 0)
  <2>1. \A i \in DOMAIN Coming : i + 0 = i
    BY Typed DEF Tidy, MoverInv
  <2> QED
    BY <2>1 DEF PartOf
<1>2. Active' /\ (\E i \in DOMAIN Coming' : Own(Coming'[i])) => mover'.pending
  BY DEF MoverGoes, MoverInv, ComingInv, Timely
<1> QED
  BY <1>1, <1>2 DEF ComingGoes

LEMMA Turned ==
  ASSUME MoverInv, ServerInv', UNCHANGED outputVars, UNCHANGED <<batch, work, scheduledButtons>>,
         MoverGoes, Active' => mover'.pending = mover.pending, StaysAlone,
         GuardedQueued => Active' \/ pc' = "moverReset", pc' = pc \/ pc \notin {"lost", "handle"},
         TurnInv'
  PROVE  MoverInv'
<1>1. /\ generation' = generation /\ queue' = queue /\ held' = held /\ wire' = wire /\ told' = told
      /\ events' = events /\ overflow' = overflow
  BY DEF outputVars
<1>2. Coming' = Coming
  BY <1>1 DEF Coming
<1>3. pc' # "handle" => batch' = <<>>
  BY DEF MoverInv, ComingInv
<1>4. ComingGoes
  BY <1>2, <1>3, ComingStays
<1>5. QueueGoes
  BY <1>1 DEF QueueGoes
<1>6. WriterInv'
  BY OutputQuiet, WriterKept DEF MoverInv
<1>7. wire # <<>> => told' = <<>>
  BY <1>1 DEF MoverInv, WireInv
<1>8. Underway'
  <2> SUFFICES ASSUME Active', mover'.pending, generation' = mover'.generation, ~overflow',
                      pc' # "lost"
               PROVE  queue # <<>> \/ \E i \in DOMAIN Coming : Answers(Coming[i])'
    BY <1>1, <1>2 DEF Underway
  <2>1. Active /\ mover'.key = mover.key /\ mover'.generation = mover.generation /\ mover.pending
    BY DEF MoverGoes, SameRequest
  <2>2. queue # <<>> \/ \E i \in DOMAIN Coming : Answers(Coming[i])
    BY <1>1, <2>1 DEF MoverInv, Underway
  <2>3. \A e : Answers(e)' <=> Answers(e)
    BY <2>1 DEF Answers, OwnReport
  <2>4. \A i \in DOMAIN Coming : Answers(Coming[i])' <=> Answers(Coming[i])
    BY <1>2, <2>1 DEF Answers, OwnReport
  <2> QED
    BY <2>2, <2>4
<1>9. NoClicksHere'
  BY DEF MoverInv, NoClicksHere
<1> QED
  BY <1>1, <1>4, <1>5, <1>6, <1>7, <1>8, <1>9, StepKept

(* The loop's own steps, packets of a hold and time, with the mover alone. *)
Quiet ==
  /\ UNCHANGED outputVars
  /\ UNCHANGED <<mover, landed, latest, batch, work, scheduledButtons, persistentButtons,
                 releasePending>>
  /\ pc \notin {"lost", "handle", "moverReset"} /\ pc' # "moverReport"
  /\ Active => pc' \notin {"hold", "moverReset", "stopping", "stopped"}

LEMMA QuietTurns ==
  ASSUME MoverInv, ServerInv', Quiet
  PROVE  MoverInv'
<1>1. latest \in Nat /\ latest' = latest /\ landed' = landed /\ mover' = mover
  BY Typed DEF Quiet, Tidy, MoverInv
<1>2. MoverGoes
  BY <1>1, SameGoes
<1>3. StaysAlone
  BY <1>1 DEF Quiet, StaysAlone, Active, MoverInv, SoleUse
<1>4. GuardedQueued => Active' \/ pc' = "moverReset"
  BY <1>1 DEF Quiet, MoverInv, GuardedInv, Active
<1>5. TurnInv'
  BY DEF Quiet, TurnInv
<1> QED
  BY <1>1, <1>2, <1>3, <1>4, <1>5, Turned DEF Quiet

LEMMA IdleSteps ==
  ASSUME MoverInv, UNCHANGED <<mover, landed>>,
         Top \/ Resnapshot \/ TickIdle \/ Timeout \/ (Watchdog /\ ~Silent) \/ Lapse
  PROVE  MoverInv'
<1>1. ServerInv'
  BY TopKeeps, TickReleaseKeeps, LapseKeeps DEF MoverInv
<1>2. Quiet
  BY DEF Quiet, Top, Resnapshot, TickIdle, Timeout, Watchdog, Lapse, workVars, releaseVars, loopVars
<1> QED
  BY <1>1, <1>2, QuietTurns

LEMMA HoldArrives ==
  ASSUME MoverInv, MoverHold
  PROVE  MoverInv'
<1>1. PICK peer \in Peers, next \in Holds, moves \in Moving : ReceiveHold(peer, next, moves, FALSE)
  BY DEF MoverHold
<1>2. ServerInv'
  BY <1>1, ReceiveHoldKeeps DEF MoverInv
<1>3. Quiet
  BY <1>1 DEF Quiet, MoverHold, KeepMover, ReceiveHold, Receive, workVars, releaseVars
<1> QED
  BY <1>2, <1>3, QuietTurns

(* Nothing of the loop or the output moves.                                *)
LEMMA Unchanged ==
  ASSUME MoverInv, UNCHANGED vars, UNCHANGED <<mover, landed>>
  PROVE  MoverInv'
<1>1. ServerInv'
  BY ServerStepKeeps DEF MoverInv
<1>2. /\ UNCHANGED outputVars
      /\ UNCHANGED <<pc, latest, batch, work, scheduledButtons, persistentButtons, releasePending>>
  BY DEF vars, serverVars, workVars, releaseVars, loopVars
<1>3. latest \in Nat
  BY Typed DEF Tidy, MoverInv
<1>4. MoverGoes
  BY <1>2, <1>3, SameGoes
<1>5. StaysAlone /\ TurnInv' /\ (GuardedQueued => Active' \/ pc' = "moverReset")
  BY <1>2 DEF StaysAlone, Active, MoverInv, SoleUse, GuardedInv, TurnInv
<1> QED
  BY <1>1, <1>2, <1>4, <1>5, Turned

-----------------------------------------------------------------------------
(* Steps that end what was under way and clear the queue.                  *)

LEMMA Cleared ==
  ASSUME MoverInv, ServerInv', Clear, work' = <<>>, scheduledButtons' = {},
         Ends(mover, mover'), latest <= latest', landed' = landed,
         \E s \in Nat : PartOf(Coming', Coming, s), pc' # "handle" => batch' = <<>>,
         pc' # "moverReport"
  PROVE  MoverInv'
<1>1. /\ queue' = <<>> /\ wire' = wire /\ told' = told /\ generation' = generation
  BY DEF Clear
<1>2. MoverGoes /\ ~Active'
  BY EndGoes
<1>3. ComingGoes /\ StaysAlone
  BY <1>2 DEF ComingGoes, StaysAlone
<1>4. QueueGoes /\ ~GuardedQueued'
  BY <1>1, Typed DEF QueueGoes, GuardedQueued, Tidy, MoverInv
<1>5. TurnInv' /\ Underway' /\ NoClicksHere'
  BY <1>2 DEF TurnInv, Underway, NoClicksHere
<1>6. WriterInv'
  BY ClearRests DEF MoverInv
<1>7. wire # <<>> => told' = <<>>
  BY <1>1 DEF MoverInv, WireInv
<1> QED
  BY <1>1, <1>2, <1>3, <1>4, <1>5, <1>6, <1>7, StepKept

(* The same, with no event taken by the step.                              *)
LEMMA ClearedBetween ==
  ASSUME MoverInv, ServerInv', Clear, work' = <<>>, scheduledButtons' = {},
         Ends(mover, mover'), latest <= latest', landed' = landed,
         batch' = batch, pc # "handle", pc' # "moverReport"
  PROVE  MoverInv'
<1>1. batch = <<>>
  BY DEF MoverInv, ComingInv
<1>2. Coming' = Coming
  BY DEF Clear, Coming
<1>3. PartOf(Coming', Coming, 0)
  <2>1. \A i \in DOMAIN Coming : i + 0 = i
    BY Typed DEF Tidy, MoverInv
  <2> QED
    BY <1>2, <2>1 DEF PartOf
<1> QED
  BY <1>1, <1>3, Cleared

LEMMA ResetMoverKeeps ==
  ASSUME MoverInv, ResetMover
  PROVE  MoverInv'
<1>1. /\ BeginReset(FALSE, NoKey, records) /\ pc = "moverReset" /\ pc' = "release"
      /\ UNCHANGED <<owner, latest, batch, asked, seen, mover, landed>>
  BY DEF ResetMover, leaseVars
<1>2. ServerInv' /\ work' = <<>>
  <2>1. owner' \in Peers \cup {NoPeer} /\ batch' \in Seq(EventSet)
    BY <1>1 DEF MoverInv, ServerInv, ServerTypes, LeaseTypes, LoopTypes
  <2> QED
    BY <1>1, <2>1, ResetStep DEF MoverInv
<1>3. Clear /\ scheduledButtons' = {}
  BY <1>1 DEF BeginReset
<1>4. ~Active
  BY <1>1 DEF MoverInv, SoleUse
<1>5. Ends(mover, mover') /\ latest <= latest'
  BY <1>1, <1>4, Typed DEF Ends, SameRequest, SameMotion, Running, Active, MoverInv, MoverTypes,
     Tidy
<1> QED
  BY <1>1, <1>2, <1>3, <1>5, ClearedBetween

LEMMA LoopStopsKeeps ==
  ASSUME MoverInv, LoopStops
  PROVE  MoverInv'
<1>1. /\ BeginReset(FALSE, NoKey, records) /\ UNCHANGED <<latest, batch, landed>>
      /\ pc # "handle" /\ pc' # "moverReport"
      /\ mover' = StopMover(mover, "Cancelled")
  BY DEF LoopStops, ResetChanged, ResetLost, Watchdog, CancelMover, KeepMover
<1>2. ServerInv' /\ work' = <<>>
  BY ResetsKeep DEF LoopStops, MoverInv
<1>3. Clear /\ scheduledButtons' = {}
  BY <1>1 DEF BeginReset
<1>4. Ends(mover, mover') /\ latest <= latest'
  BY <1>1, StopEnds, Typed DEF Statuses, MoverInv, MoverTypes, Tidy
<1> QED
  BY <1>1, <1>2, <1>3, <1>4, ClearedBetween

LEMMA AskedToStopKeeps ==
  ASSUME MoverInv, AskedToStop
  PROVE  MoverInv'
<1>1. Ends(mover, mover') /\ landed' = landed
  BY StopEnds DEF AskedToStop, CancelMover, KeepMover, Statuses, MoverInv, MoverTypes
<1>2. latest \in Nat
  BY Typed DEF Tidy, MoverInv
<1>3. CASE Stop
  <2>1. /\ Clear /\ work' = <<>> /\ scheduledButtons' = {} /\ latest' = latest /\ batch' = batch
        /\ pc # "handle" /\ pc' # "moverReport"
    BY <1>3 DEF Stop, loopVars
  <2>2. ServerInv'
    BY <1>3, StopKeeps DEF MoverInv
  <2> QED
    BY <1>1, <1>2, <2>1, <2>2, ClearedBetween
<1>4. ASSUME NEW peer \in Peers, NEW key \in Keys, ReceiveReleaseAll(peer, key)
      PROVE  MoverInv'
  <2>1. /\ Clear /\ scheduledButtons' = {} /\ latest' = key /\ batch' = batch /\ ~(key <= latest)
        /\ pc # "handle" /\ pc' # "moverReport"
    BY <1>4 DEF ReceiveReleaseAll, BeginReset, Receive, Done, Stale
  <2>2. ServerInv' /\ work' = <<>>
    BY <1>4, ReceiveReleaseAllKeeps DEF MoverInv
  <2>3. latest <= latest'
    BY <1>2, <2>1, ServerLimits DEF Keys
  <2> QED
    BY <1>1, <2>1, <2>2, <2>3, ClearedBetween
<1> QED
  BY <1>3, <1>4 DEF AskedToStop

-----------------------------------------------------------------------------
(* Events fetched, told and lost, and the endpoint.                        *)

LEMMA SameMover ==
  ASSUME MoverInv, UNCHANGED <<mover, landed, latest>>
  PROVE  MoverGoes /\ Active' = Active /\ latest \in Nat
         /\ \A e : Answers(e)' <=> Answers(e)
<1>1. latest \in Nat
  BY Typed DEF Tidy, MoverInv
<1> QED
  BY <1>1, SameGoes DEF Active, Answers, OwnReport

(* The server's part of a step of the output.                              *)
LEMMA ServerStays ==
  ASSUME MoverInv, UNCHANGED serverVars
  PROVE  /\ UNCHANGED <<pc, latest, batch, work, scheduledButtons, persistentButtons,
                        releasePending>>
         /\ NoClicksHere' /\ (pc' # "handle" => batch' = <<>>)
         /\ (mover' = mover => StaysAlone /\ TurnInv')
  BY DEF serverVars, workVars, releaseVars, loopVars, MoverInv, NoClicksHere, ComingInv, StaysAlone,
         SoleUse, Active, TurnInv

LEMMA EndpointKeeps ==
  ASSUME MoverInv, UNCHANGED serverVars, UNCHANGED <<mover, landed>>,
         BecomeReady \/ Discard \/ Reset
  PROVE  MoverInv'
<1>1. ServerInv' /\ WriterInv'
  BY OutputActKeeps, OutputRests, Typed DEF MoverInv, Tidy
<1>2. /\ wire' = wire /\ told' = told /\ events' = events /\ overflow' = overflow
      /\ \/ queue' = queue /\ held' = held /\ generation' = generation
         \/ queue' = <<>> /\ generation' = generation + 1
  BY DEF BecomeReady, Discard, Reset
<1>3. MoverGoes /\ Active' = Active /\ \A e : Answers(e)' <=> Answers(e)
  BY ServerStays, SameMover
<1>4. Coming' = Coming
  BY <1>2, ServerStays DEF Coming
<1>5. ComingGoes
  BY <1>3, <1>4, ServerStays, ComingStays
<1>6. generation \in Nat /\ mover.generation \in Nat /\ mover.generation <= generation
  BY Typed DEF Tidy, MoverInv, MoverTypes, MoverSet
<1>7. QueueGoes
  <2>1. GuardedQueued => Active' \/ pc' = "moverReset"
    BY <1>3, ServerStays DEF MoverInv, GuardedInv
  <2> QED
    BY <1>2, <1>6, <2>1 DEF QueueGoes
<1>8. (queue' = queue /\ held' = held) \/ ~GuardedQueued'
  <2>1. queue' = <<>> => ~GuardedQueued'
    BY DEF GuardedQueued
  <2> QED
    BY <1>2, <2>1
<1>9. Underway'
  <2>1. CASE generation' = generation + 1
    <3>1. generation' # mover.generation
      BY <1>6, <2>1
    <3> QED
      BY <3>1 DEF Underway
  <2>2. CASE queue' = queue /\ held' = held /\ generation' = generation
    <3>1. \A i \in DOMAIN Coming : Answers(Coming[i])' <=> Answers(Coming[i])
      BY <1>4 DEF Answers, OwnReport
    <3> QED
      BY <1>2, <1>3, <1>4, <2>2, <3>1, ServerStays DEF Underway, MoverInv
  <2> QED
    BY <1>2, <2>1, <2>2
<1>10. wire # <<>> => told' = <<>>
  BY <1>2 DEF MoverInv, WireInv
<1> QED
  BY <1>1, <1>2, <1>3, <1>5, <1>7, <1>8, <1>9, <1>10, ServerStays, StepKept

LEMMA TellKeeps ==
  ASSUME MoverInv, UNCHANGED serverVars, UNCHANGED <<mover, landed>>, Tell
  PROVE  MoverInv'
<1>1. ServerInv' /\ WriterInv'
  BY OutputActKeeps, OutputRests, Typed DEF MoverInv, Tidy
<1>2. /\ wire' = wire /\ told' = <<>> /\ queue' = queue /\ held' = held /\ generation' = generation
  BY DEF Tell
<1>3. MoverGoes /\ Active' = Active
  BY ServerStays, SameMover
<1>4. /\ (Coming' = Coming /\ overflow' = overflow) \/ overflow' = TRUE
      /\ PartOf(Coming', Coming, 0)
  BY ToldComing, ServerStays, Typed DEF Tidy, MoverInv
<1>5. ComingGoes
  <2>1. Active' /\ (\E i \in DOMAIN Coming' : Own(Coming'[i])) => mover'.pending
    <3> SUFFICES ASSUME Active', NEW i \in DOMAIN Coming', Own(Coming'[i]) PROVE mover'.pending
      OBVIOUS
    <3>1. i + 0 \in DOMAIN Coming /\ Own(Coming[i + 0])
      BY <1>4 DEF PartOf
    <3> QED
      BY <1>3, <3>1 DEF MoverInv, ComingInv, Timely
  <2> QED
    BY <1>4, <2>1, ServerStays DEF ComingGoes
<1>6. QueueGoes
  BY <1>2, <1>3, ServerStays DEF QueueGoes, MoverInv, GuardedInv
<1>7. Underway'
  <2>1. \A i \in DOMAIN Coming' : Answers(Coming[i])' <=> Answers(Coming'[i])
    BY DEF Answers, OwnReport
  <2> QED
    BY <1>2, <1>3, <1>4, <2>1, ServerStays DEF Underway, MoverInv
<1> QED
  BY <1>1, <1>2, <1>3, <1>5, <1>6, <1>7, ServerStays, StepKept

LEMMA EndpointActsKeep ==
  ASSUME MoverInv, EndpointActs
  PROVE  MoverInv'
  BY EndpointKeeps, TellKeeps DEF EndpointActs, moverVars

LEMMA FetchStepsKeep ==
  ASSUME MoverInv, FetchEvents \/ FetchOverflow, UNCHANGED <<mover, landed>>
  PROVE  MoverInv'
<1>1. ServerInv'
  BY FetchKeeps DEF MoverInv
<1>2. /\ wire' = wire /\ told' = told /\ queue' = queue /\ held' = held /\ generation' = generation
      /\ UNCHANGED <<latest, work, scheduledButtons, persistentButtons, releasePending>>
      /\ pc \in {"events", "overflow"} /\ pc' \in {"overflow", "handle", "lost", "watchdog"}
  BY DEF FetchEvents, FetchOverflow, TakeEvents, TakeOverflow, workVars, releaseVars, loopVars
<1>3. WriterInv'
  BY OutputQuiet, WriterKept DEF FetchEvents, FetchOverflow, MoverInv
<1>4. MoverGoes /\ Active' = Active
  BY <1>2, SameMover
<1>5. batch = <<>>
  BY <1>2 DEF MoverInv, ComingInv
<1>6. Coming' = Coming
  <2>1. CASE FetchEvents
    BY <1>5, <2>1, FetchedComing, Typed DEF FetchEvents, Tidy, MoverInv
  <2>2. CASE FetchOverflow
    BY <2>2 DEF FetchOverflow, TakeOverflow, loopVars, Coming
  <2> QED
    BY <2>1, <2>2
<1>7. pc' # "handle" => batch' = <<>>
  BY <1>5 DEF FetchEvents, FetchOverflow, loopVars
<1>8. ComingGoes
  BY <1>4, <1>6, <1>7, ComingStays
<1>9. QueueGoes
  BY <1>2, <1>4 DEF QueueGoes, MoverInv, GuardedInv
<1>10. StaysAlone /\ TurnInv' /\ NoClicksHere'
  BY <1>2, <1>4 DEF StaysAlone, TurnInv, NoClicksHere, MoverInv, SoleUse
<1>11. Underway'
  <2>1. \A i \in DOMAIN Coming : Answers(Coming[i])' <=> Answers(Coming[i])
    BY <1>6 DEF Answers, OwnReport
  <2>2. overflow => overflow' \/ pc' = "lost"
    BY DEF FetchEvents, FetchOverflow, TakeEvents
  <2> QED
    BY <1>2, <1>4, <1>6, <2>1, <2>2 DEF Underway, MoverInv
<1>12. wire # <<>> => told' = <<>>
  BY <1>2 DEF MoverInv, WireInv
<1> QED
  BY <1>1, <1>2, <1>3, <1>4, <1>8, <1>9, <1>10, <1>11, <1>12, StepKept

-----------------------------------------------------------------------------
(* Reports that are not the mover's.                                       *)

LEMMA OtherAccepted ==
  ASSUME MoverInv, ServerInv', NEW c \in CommandSet, PlainRelease(c), ~Guarded(c), Accept(c),
         ~Active, pc \notin {"moverReset", "handle"}, pc' # "moverReport",
         UNCHANGED <<mover, landed, latest, batch, work, scheduledButtons>>
  PROVE  MoverInv'
<1>1. /\ wire' = wire /\ told' = told /\ events' = events /\ generation' = generation
      /\ \E k \in 0 .. Len(queue) : queue' = Append(SubSeq(queue, 1, k), Queued(c))
  BY DEF Accept
<1>2. WriterInv'
  BY AcceptRests DEF MoverInv, ServerInv, ServerTypes
<1>3. MoverGoes /\ Active' = Active
  BY SameMover
<1>4. Coming' = Coming /\ batch' = <<>>
  BY <1>1 DEF Coming, MoverInv, ComingInv
<1>5. ComingGoes
  BY <1>3, <1>4, ComingStays
<1>6. ~GuardedQueued'
  <2>1. PICK k \in 0 .. Len(queue) : queue' = Append(SubSeq(queue, 1, k), Queued(c))
    BY <1>1
  <2> DEFINE kept == SubSeq(queue, 1, k)
             e == Queued(c)
  <2>2. queue \in Seq(EntrySet) /\ DOMAIN queue = 1 .. Len(queue) /\ Len(queue) \in Nat
    BY Typed DEF MoverInv, Tidy
  <2>3. kept \in Seq(EntrySet) /\ Len(kept) = k /\ \A j \in 1 .. k : kept[j] = queue[j]
    BY <2>2
  <2>4. e \in EntrySet /\ e.kind = c.kind
    BY DEF Queued, CommandSet, EntrySet
  <2>5. queue' = Append(kept, e)
    BY <2>1
  <2> HIDE DEF kept, e
  <2>6. /\ \A j \in DOMAIN queue' : j \in DOMAIN kept \/ queue'[j] = e
        /\ \A j \in DOMAIN kept : queue'[j] = kept[j]
    BY <2>3, <2>4, <2>5, AppendElements
  <2>7. \A j \in DOMAIN kept : j \in DOMAIN queue /\ kept[j] = queue[j]
    BY <2>2, <2>3
  <2>8. ~GuardedQueued
    BY DEF MoverInv, GuardedInv
  <2> QED
    BY <2>4, <2>6, <2>7, <2>8 DEF GuardedQueued, Guarded
<1>7. QueueGoes /\ StaysAlone /\ TurnInv' /\ Underway' /\ NoClicksHere'
  BY <1>1, <1>3, <1>6 DEF QueueGoes, StaysAlone, TurnInv, Underway, NoClicksHere, MoverInv
<1>8. wire # <<>> => told' = <<>>
  BY <1>1 DEF MoverInv, WireInv
<1> QED
  BY <1>1, <1>2, <1>3, <1>5, <1>6, <1>7, <1>8, StepKept

LEMMA ReleaseStepsKeep ==
  ASSUME MoverInv, TickRelease \/ LastRelease, UNCHANGED <<mover, landed>>
  PROVE  MoverInv'
<1>1. ServerInv'
  BY TickReleaseKeeps DEF MoverInv
<1>2. /\ pc \in {"release", "stopping"} /\ pc' \in {"click", "stopped"}
      /\ UNCHANGED <<latest, batch, work, scheduledButtons, persistentButtons, releasePending>>
  BY DEF TickRelease, LastRelease, workVars, loopVars, releaseVars
<1>3. CASE UNCHANGED outputVars
  <2>1. Active => pc' # "stopped"
    BY DEF TickRelease, LastRelease, MoverInv, SoleUse
  <2> QED
    BY <1>1, <1>2, <1>3, <2>1, QuietTurns DEF Quiet
<1>4. ASSUME NEW c \in CommandSet, c.kind = "RELEASE_ALL", PlainRelease(c), Accept(c), ~Active
      PROVE  MoverInv'
  <2>1. ~Guarded(c)
    BY <1>4 DEF Guarded, Transactions
  <2> QED
    BY <1>1, <1>2, <1>4, <2>1, OtherAccepted
<1> DEFINE last == Report("RELEASE_ALL", NoKey, 0, {}, {}, 0, 0, FALSE)
           own == ReleaseReport
<1>7. last \in CommandSet /\ own \in CommandSet
  BY ReportsAreCommands DEF MoverInv, ServerInv
<1>8. last.kind = "RELEASE_ALL" /\ PlainRelease(last)
  BY DEF Report, PlainRelease
<1>9. own.kind = "RELEASE_ALL" /\ PlainRelease(own)
  BY DEF ReleaseReport, Report, PlainRelease
<1> HIDE DEF last, own
<1>5. \A c \in {own, last} : c \in CommandSet /\ c.kind = "RELEASE_ALL" /\ PlainRelease(c)
  BY <1>7, <1>8, <1>9
<1>6. \/ UNCHANGED outputVars
      \/ ~Active /\ \E c \in {own, last} : Accept(c)
  BY CallsKeepGeneration DEF TickRelease, LastRelease, last, own, Refusals, MoverInv, SoleUse
<1> QED
  BY <1>3, <1>4, <1>5, <1>6

LEMMA EnqueueHoldStepKeeps ==
  ASSUME MoverInv, EnqueueHold, UNCHANGED <<mover, landed>>
  PROVE  MoverInv'
<1>1. ServerInv'
  BY EnqueueHoldKeeps DEF MoverInv
<1>2. /\ pc = "hold" /\ pc' = "top" /\ ~Active
      /\ UNCHANGED <<latest, batch, work, scheduledButtons>>
  BY DEF EnqueueHold, Done, MoverInv, SoleUse
<1>3. CASE Accept(HoldReport(asked))
  <2> DEFINE c == HoldReport(asked)
  <2>1. c \in CommandSet /\ c.kind \in {"PERSISTENT", "MOVEMENT"}
    BY ReportsAreCommands DEF MoverInv, ServerInv, HoldReport, Report
  <2> HIDE DEF c
  <2>2. ~Guarded(c) /\ PlainRelease(c)
    BY <2>1 DEF Guarded, Transactions, Forced, PlainRelease
  <2> QED
    BY <1>1, <1>2, <1>3, <2>1, <2>2, OtherAccepted DEF c
<1>4. CASE UNCHANGED <<outputVars, persistentButtons>>
  <2>1. releasePending' = releasePending
    BY DEF EnqueueHold, releaseVars
  <2> QED
    BY <1>1, <1>2, <1>4, <2>1, QuietTurns DEF Quiet
<1> QED
  BY <1>3, <1>4, CallsKeepGeneration DEF EnqueueHold

LEMMA UnmovedKeeps ==
  ASSUME MoverInv, Unmoved
  PROVE  MoverInv'
  BY IdleSteps, FetchStepsKeep, ReleaseStepsKeep, EnqueueHoldStepKeeps DEF Unmoved, KeepMover

-----------------------------------------------------------------------------
(* Events shown to the mover.                                              *)

(* What an event of a written report makes of the transaction: it goes on, *)
(* and waits no more when the event finishes its stage.                    *)
Concerns(m, e) == Running(m) /\ IsFor(e, m) /\ e.kind \in Transactions
GoesBy(m, n, e) ==
  /\ n \in MoverSet /\ SameRequest(m, n) /\ n.uncertain = m.uncertain
  /\ Running(n) => Running(m) /\ n.stage \notin Resting
  /\ ~Concerns(m, e) => n = m
  /\ ~e.finished => (Running(n) <=> Running(m)) /\ n.pending = m.pending /\ n.stage = m.stage
  /\ Concerns(m, e) /\ e.finished => ~n.pending

LEMMA CreditedTyped ==
  ASSUME NEW m \in MoverSet, NEW e \in EventSet
  PROVE  /\ Credited(m, e) \in MoverSet /\ SameRequest(m, Credited(m, e))
         /\ \A field \in {"status", "stage", "uncertain", "pending", "pressed", "released",
                          "cancelled"} : Credited(m, e)[field] = m[field]
         /\ Residual(Credited(m, e)) =
              Residual(m) + (IF e.kind \in {"TRANSACTION_OUT", "TRANSACTION_RETURN"}
                             THEN e.motion ELSE 0)
<1> DEFINE o == IF e.kind = "TRANSACTION_OUT" THEN m.out + e.motion ELSE m.out
           b == IF e.kind = "TRANSACTION_RETURN" THEN m.back + e.motion ELSE m.back
<1>1. m.out \in Int /\ m.back \in Int /\ e.motion \in Int
  BY DEF MoverSet, EventSet
<1>2. o \in Int /\ b \in Int
  BY <1>1
<1>3. Credited(m, e) = [m EXCEPT !.out = o, !.back = b]
  BY DEF Credited, MoverSet
<1>4. o + b = (m.out + m.back) + (IF e.kind \in {"TRANSACTION_OUT", "TRANSACTION_RETURN"}
                                  THEN e.motion ELSE 0)
  BY <1>1
<1> HIDE DEF o, b
<1>5. [m EXCEPT !.out = o, !.back = b] \in MoverSet
  BY <1>2 DEF MoverSet
<1>6. /\ \A field \in {"status", "stage", "uncertain", "pending", "pressed", "released",
                       "cancelled", "key", "generation", "dx", "button"} :
           [m EXCEPT !.out = o, !.back = b][field] = m[field]
      /\ [m EXCEPT !.out = o, !.back = b].out = o /\ [m EXCEPT !.out = o, !.back = b].back = b
  BY DEF MoverSet
<1> QED
  BY <1>3, <1>4, <1>5, <1>6 DEF SameRequest, Residual

LEMMA AdvanceGoes ==
  ASSUME NEW m \in MoverSet, Running(m), ~m.pending, NEW e \in EventSet, e.kind \in Transactions
  PROVE  /\ Advance(m, e) \in MoverSet /\ SameRequest(m, Advance(m, e))
         /\ SameMotion(m, Advance(m, e))
         /\ Advance(m, e).uncertain = m.uncertain /\ ~Advance(m, e).pending
         /\ Running(Advance(m, e)) => Advance(m, e).stage \notin Resting \cup {"Out"}
<1> DEFINE good(n) ==
             /\ n \in MoverSet /\ SameRequest(m, n) /\ SameMotion(m, n)
             /\ n.uncertain = m.uncertain /\ ~n.pending
             /\ Running(n) => n.stage \notin Resting \cup {"Out"}
<1>1. good(Enter(m, "Settle"))
  BY DEF Enter, MoverSet, SameRequest, SameMotion, Stages, Resting
<1>2. good([Enter(m, "Hold") EXCEPT !.pressed = TRUE])
  BY DEF Enter, MoverSet, SameRequest, SameMotion, Stages, Resting
<1>3. good([Enter(m, "Delay") EXCEPT !.released = TRUE])
  BY DEF Enter, MoverSet, SameRequest, SameMotion, Stages, Resting
<1>4. good(Finished(m))
  BY DEF Finished, MoverSet, SameRequest, SameMotion, Stages, Statuses, Running
<1>5. good(StopMover(m, "ButtonActive"))
  <2>1. Ends(m, StopMover(m, "ButtonActive"))
    BY StopEnds DEF Statuses
  <2> DEFINE n == StopMover(m, "ButtonActive")
  <2>2. ~n.pending
    BY DEF StopMover, Running, MoverSet
  <2> HIDE DEF n
  <2>3. n.uncertain = m.uncertain
    <3>1. n.uncertain \in BOOLEAN /\ m.uncertain \in BOOLEAN
      BY <2>1 DEF Ends, MoverSet, n
    <3>2. (m.uncertain => n.uncertain) /\ (n.uncertain => m.uncertain)
      BY <2>1 DEF Ends, n
    <3> QED
      BY <3>1, <3>2
  <2> QED
    BY <2>1, <2>2, <2>3 DEF Ends, n
<1>6. Advance(m, e) \in {Enter(m, "Settle"), [Enter(m, "Hold") EXCEPT !.pressed = TRUE],
                         [Enter(m, "Delay") EXCEPT !.released = TRUE], Finished(m),
                         StopMover(m, "ButtonActive")}
  BY DEF Advance, Transactions, Forced
<1>7. good(Advance(m, e))
  BY <1>1, <1>2, <1>3, <1>4, <1>5, <1>6
<1> QED
  BY <1>7

LEMMA EventEffect ==
  ASSUME NEW m \in MoverSet, Running(m) => m.stage \notin Resting, NEW e \in EventSet, e.success
  PROVE  GoesBy(m, OnEvent(m, e), e)
<1> DEFINE n == OnEvent(m, e)
<1>1. CASE ~Concerns(m, e)
  <2>1. n = m
    BY <1>1 DEF OnEvent, Concerns, Running
  <2> QED
    BY <1>1, <2>1 DEF GoesBy, SameRequest
<1>2. CASE Concerns(m, e) /\ ~e.finished
  <2>1. n = Credited(m, e)
    BY <1>2 DEF OnEvent, Concerns, Running
  <2> HIDE DEF n
  <2>2. /\ n \in MoverSet /\ SameRequest(m, n) /\ n.uncertain = m.uncertain /\ n.status = m.status
        /\ n.pending = m.pending /\ n.stage = m.stage
    BY <2>1, CreditedTyped
  <2> QED
    BY <1>2, <2>2 DEF GoesBy, Running, n
<1>3. CASE Concerns(m, e) /\ e.finished
  <2> DEFINE c == [Credited(m, e) EXCEPT !.pending = FALSE]
  <2>1. n = Advance(c, e)
    BY <1>3 DEF OnEvent, Concerns, Running
  <2>2. Credited(m, e) \in MoverSet /\ SameRequest(m, Credited(m, e))
        /\ Credited(m, e).status = m.status /\ Credited(m, e).uncertain = m.uncertain
    BY CreditedTyped
  <2>3. c \in MoverSet /\ SameRequest(m, c) /\ c.status = m.status /\ c.uncertain = m.uncertain
        /\ ~c.pending
    BY <2>2 DEF MoverSet, SameRequest
  <2> HIDE DEF c
  <2>4. Running(c) /\ Running(m)
    BY <1>3, <2>3 DEF Concerns, Running
  <2>5. /\ n \in MoverSet /\ SameRequest(c, n) /\ n.uncertain = c.uncertain /\ ~n.pending
        /\ Running(n) => n.stage \notin Resting \cup {"Out"}
    BY <1>3, <2>1, <2>3, <2>4, AdvanceGoes DEF Concerns
  <2> HIDE DEF n
  <2>6. SameRequest(m, n) /\ n.uncertain = m.uncertain
    BY <2>3, <2>5 DEF SameRequest
  <2> QED
    BY <1>3, <2>4, <2>5, <2>6 DEF GoesBy, n
<1> QED
  BY <1>1, <1>2, <1>3

LEMMA LastTaken ==
  ASSUME NEW S, NEW q \in Seq(S), Len(q) = 1
  PROVE  Tail(q) = <<>>
<1> DEFINE t == Tail(q)
<1>1. t \in Seq(S) /\ Len(t) = 0
  OBVIOUS
<1> HIDE DEF t
<1>2. t = <<>>
  BY <1>1, EmptySeq
<1> QED
  BY <1>2 DEF t

LEMMA MoverProgressesKeeps ==
  ASSUME MoverInv, MoverProgresses
  PROVE  MoverInv'
<1>1. ServerInv'
  BY HandleOtherKeeps, HandleReleasedKeeps DEF MoverProgresses, MoverInv
<1>2. /\ UNCHANGED outputVars /\ UNCHANGED <<persistentButtons, scheduledButtons, work, latest>>
      /\ pc = "handle" /\ Event.success /\ AfterEvent /\ landed' = landed
      /\ mover' = OnEvent(mover, Event)
      /\ releasePending => releasePending' = TRUE \/ releasePending' = FALSE
      /\ ~releasePending => ~releasePending'
  BY DEF MoverProgresses, HandleReleased, HandleOther, workVars, releaseVars, KeepMover
<1>3. /\ queue' = queue /\ held' = held /\ wire' = wire /\ told' = told /\ events' = events
      /\ generation' = generation /\ overflow' = overflow
  BY <1>2 DEF outputVars
<1>4. /\ batch' = Tail(batch) /\ pc' \in {"overflow", "handle"}
  BY <1>2 DEF AfterEvent
<1>5. batch # <<>> /\ Tidy
  BY <1>2, Typed DEF MoverInv, ServerInv, ServerTypes, CallsReady
<1>6. /\ Event = Coming[1] /\ 1 \in DOMAIN Coming /\ Event \in EventSet
      /\ PartOf(Coming', Coming, 1)
      /\ \A i \in DOMAIN Coming : i # 1 => i - 1 \in DOMAIN Coming' /\ Coming'[i - 1] = Coming[i]
  BY <1>3, <1>4, <1>5, HandledComing DEF Tidy
<1> DEFINE e == Event
<1> HIDE DEF e
<1>7. GoesBy(mover, mover', e)
  BY <1>2, <1>6, EventEffect DEF MoverInv, MoverTypes, Active, Running, e
<1>8. Finishes(e) => FinishComes
  BY <1>6 DEF FinishComes, e
<1>9. Concerns(mover, e) => Own(e)
  BY DEF Concerns, IsFor, Own, OwnReport
<1>10. Concerns(mover, e) /\ e.finished => Finishes(e)
  BY <1>2, <1>9 DEF Finishes, e
<1>11. ~Finishes(e) => (Active' <=> Active) /\ mover'.pending = mover.pending
  BY <1>7, <1>10 DEF GoesBy, Running, Active
<1>12. GuardedQueued \/ OwnWire => ~Finishes(e) /\ Owned(mover)
  BY <1>8 DEF MoverInv, GuardedInv, WireInv
<1>13. MoverGoes
  <2>1. GuardedQueued \/ OwnWire => Owned(mover')
    BY <1>7, <1>11, <1>12 DEF GoesBy, Owned, Running, Active
  <2> QED
    BY <1>2, <1>5, <1>7, <2>1 DEF MoverGoes, GoesBy, Running, Active, Tidy, MoverInv, MoverTypes
<1>14. ComingGoes
  <2>1. ASSUME Active', NEW i \in DOMAIN Coming', Own(Coming'[i])
        PROVE  mover'.pending
    <3>1. i + 1 \in DOMAIN Coming /\ Own(Coming[i + 1]) /\ Active
      BY <1>6, <1>13, <2>1 DEF PartOf, MoverGoes
    <3>2. mover.pending
      BY <3>1 DEF MoverInv, ComingInv, Timely
    <3>3. i \in Nat /\ i >= 1
      BY <1>1, TypedNext DEF Tidy
    <3>4. ~Finishes(Coming[1])
      BY <1>6, <3>1, <3>3 DEF MoverInv, ComingInv, Timely
    <3> QED
      BY <1>6, <1>11, <3>2, <3>4 DEF e
  <2>2. pc' # "handle" => batch' = <<>>
    <3>1. Len(batch) = 1 => Tail(batch) = <<>>
      BY <1>5, LastTaken DEF Tidy
    <3> QED
      BY <1>2, <3>1 DEF AfterEvent
  <2> QED
    BY <1>6, <2>1, <2>2 DEF ComingGoes
<1>15. QueueGoes
  BY <1>2, <1>3, <1>11, <1>12 DEF QueueGoes, MoverInv, GuardedInv
<1>16. StaysAlone
  BY <1>2, <1>4, <1>13 DEF StaysAlone, MoverGoes, MoverInv, SoleUse
<1>17. TurnInv' /\ NoClicksHere'
  BY <1>2, <1>4 DEF TurnInv, NoClicksHere, MoverInv
<1>18. WriterInv'
  BY <1>2, OutputQuiet, WriterKept DEF MoverInv
<1>19. wire # <<>> => told' = <<>>
  BY <1>3 DEF MoverInv, WireInv
<1>20. Underway'
  <2> SUFFICES ASSUME Active', mover'.pending, generation' = mover'.generation, ~overflow',
                      pc' # "lost"
               PROVE  queue' # <<>> \/ \E i \in DOMAIN Coming' : Answers(Coming[i])'
    BY DEF Underway
  <2>1. Active /\ mover'.key = mover.key /\ mover'.generation = mover.generation
    BY <1>13 DEF MoverGoes, SameRequest
  <2>2. ~(Concerns(mover, e) /\ e.finished)
    BY <1>7 DEF GoesBy
  <2>3. mover.pending
    BY <1>7, <2>2 DEF GoesBy
  <2>4. queue # <<>> \/ \E i \in DOMAIN Coming : Answers(Coming[i])
    BY <1>2, <1>3, <2>1, <2>3 DEF MoverInv, Underway
  <2>5. ASSUME NEW i \in DOMAIN Coming, Answers(Coming[i])
        PROVE  \E j \in DOMAIN Coming' : Answers(Coming[j])'
    <3>1. i # 1
      <4> SUFFICES ASSUME i = 1 PROVE FALSE
        OBVIOUS
      <4>1. e.finished /\ Own(e)
        BY <1>2, <1>6, <2>5 DEF Answers, Own, e
      <4>2. e.generation = mover.generation
        BY <1>6, <4>1 DEF MoverInv, ComingInv, Timely, e
      <4> QED
        BY <2>1, <2>2, <4>1, <4>2 DEF Concerns, IsFor, Own, OwnReport, Active, Running
    <3>2. i - 1 \in DOMAIN Coming' /\ Coming'[i - 1] = Coming[i]
      BY <1>6, <3>1
    <3>3. Answers(Coming[i - 1])'
      BY <2>1, <2>5, <3>2 DEF Answers, OwnReport
    <3> QED
      BY <3>2, <3>3
  <2> QED
    BY <1>3, <2>4, <2>5
<1> QED
  BY <1>1, <1>3, <1>13, <1>14, <1>15, <1>16, <1>17, <1>18, <1>19, <1>20, StepKept

(* A failed write ends it.                                                 *)
LEMMA FailureEnds ==
  ASSUME NEW m \in MoverSet, NEW e \in EventSet, ~e.success
  PROVE  Ends(m, StopMover(OnEvent(m, e), "Cancelled"))
<1> DEFINE n == OnEvent(m, e)
<1>1. CASE n = m
  BY <1>1, StopEnds DEF Statuses
<1>2. CASE n # m
  <2>1. n = StopMover(m, "WriterFailed") /\ Running(m)
    BY <1>2 DEF OnEvent, Running
  <2>2. Ends(m, n)
    BY <2>1, StopEnds DEF Statuses
  <2> HIDE DEF n
  <2>3. StopMover(n, "Cancelled") = n
    BY <2>2 DEF Ends, StopMover, Running
  <2> QED
    BY <2>2, <2>3 DEF n
<1> QED
  BY <1>1, <1>2

LEMMA MoverFailsKeeps ==
  ASSUME MoverInv, MoverFails
  PROVE  MoverInv'
<1>1. /\ HandleFailure /\ mover' = StopMover(OnEvent(mover, Event), "Cancelled") /\ landed' = landed
  BY DEF MoverFails, KeepMover
<1>2. ServerInv' /\ work' = <<>>
  BY <1>1, HandleFailureKeeps DEF MoverInv
<1>3. /\ Clear /\ scheduledButtons' = {} /\ latest' = latest /\ pc = "handle" /\ ~Event.success
      /\ batch' = Tail(batch) /\ pc' \in {"overflow", "handle"}
      /\ pc' = IF Len(batch) = 1 THEN "overflow" ELSE "handle"
  BY <1>1 DEF HandleFailure, BeginReset, AfterEvent
<1>4. batch # <<>> /\ Tidy
  BY <1>3, Typed DEF MoverInv, ServerInv, ServerTypes, CallsReady
<1>5. Event \in EventSet /\ PartOf(Coming', Coming, 1)
  BY <1>3, <1>4, HandledComing DEF Tidy, Clear
<1>6. Ends(mover, mover')
  BY <1>1, <1>3, <1>5, FailureEnds DEF MoverInv, MoverTypes
<1>7. pc' # "handle" => batch' = <<>>
  <2>1. Len(batch) = 1 => Tail(batch) = <<>>
    BY <1>4, LastTaken DEF Tidy
  <2> QED
    BY <1>3, <2>1
<1>8. latest <= latest' /\ 1 \in Nat
  BY <1>3, <1>4 DEF Tidy
<1> QED
  BY <1>1, <1>2, <1>3, <1>5, <1>6, <1>7, <1>8, Cleared

-----------------------------------------------------------------------------
(* The mover's ticks.                                                      *)

LEMMA ServerAside ==
  ASSUME ServerInv, OutputTypes', generation' = generation, KeepServer,
         pc' \notin {"handle", "press"}
  PROVE  ServerInv'
<1>1. LeaseTypes' /\ LoopTypes' /\ CallsReady'
  BY DEF KeepServer, leaseVars, workVars, loopVars, ServerInv, ServerTypes, LeaseTypes, LoopTypes,
         CallsReady
<1> QED
  BY <1>1, QuietKeeps DEF KeepServer, workVars, releaseVars

LEMMA MoverTurns ==
  ASSUME MoverInv, UNCHANGED outputVars, KeepServer, pc \notin {"lost", "handle"}, MoverGoes,
         Active' => mover'.pending = mover.pending,
         pc' \in {"moverReset", "release", "receive", "moverReport"},
         Active' => pc' # "moverReset",
         GuardedQueued => Active' \/ pc' = "moverReset", TurnInv'
  PROVE  MoverInv'
<1>1. OutputTypes' /\ generation' = generation
  BY OutputKept, CallsKeepGeneration DEF MoverInv, ServerInv, ServerTypes
<1>2. ServerInv'
  BY <1>1, ServerAside DEF MoverInv
<1>3. UNCHANGED <<batch, work, scheduledButtons, persistentButtons, releasePending>>
  BY DEF KeepServer, workVars, releaseVars, loopVars
<1>4. StaysAlone
  BY <1>3 DEF StaysAlone, MoverGoes, MoverInv, SoleUse
<1> QED
  BY <1>2, <1>3, <1>4, Turned

(* It is ended.                                                            *)
LEMMA EndTurns ==
  ASSUME MoverInv, UNCHANGED outputVars, KeepServer, pc \notin {"lost", "handle"},
         Ends(mover, mover'), landed' = landed, pc' = "moverReset"
  PROVE  MoverInv'
<1>1. latest <= latest'
  BY Typed DEF Tidy, MoverInv, KeepServer
<1>2. MoverGoes /\ ~Active'
  BY <1>1, EndGoes
<1>3. TurnInv'
  BY DEF TurnInv
<1> QED
  BY <1>2, <1>3, MoverTurns

LEMMA TickOverKeeps ==
  ASSUME MoverInv, TickOver
  PROVE  MoverInv'
<1>1. /\ UNCHANGED outputVars /\ KeepServer /\ pc = "release" /\ landed' = landed
      /\ pc' = "moverReset" /\ mover' = StopMover(mover, WhyOver)
  BY DEF TickOver, MoverTurn
<1>2. WhyOver \in Statuses \ {"Active"}
  BY DEF WhyOver, Statuses
<1>3. Ends(mover, mover')
  BY <1>1, <1>2, StopEnds DEF MoverInv, MoverTypes
<1> QED
  BY <1>1, <1>3, EndTurns

(* It goes on, or waits.                                                   *)
LEMMA OnTurns ==
  ASSUME MoverInv, UNCHANGED outputVars, KeepServer, pc = "release", Active, landed' = landed,
         mover' = mover \/ (~mover.pending /\ GoesOn(mover, mover')),
         \/ pc' \in {"release", "receive"}
         \/ pc' = "moverReport" /\ ~mover.pending /\ Active' /\ WantsReport(mover')
  PROVE  MoverInv'
<1>1. latest <= latest'
  BY Typed DEF Tidy, MoverInv, KeepServer
<1>2. MoverGoes /\ mover'.pending = mover.pending
  <2>1. CASE mover' = mover
    BY <1>1, <2>1, SameGoes
  <2>2. CASE ~mover.pending /\ GoesOn(mover, mover')
    <3>1. MoverGoes /\ ~mover'.pending
      BY <1>1, <2>2, OnGoes
    <3>2. mover.pending \in BOOLEAN /\ mover'.pending \in BOOLEAN
      BY <2>2 DEF GoesOn, MoverInv, MoverTypes, MoverSet
    <3> QED
      BY <2>2, <3>1, <3>2
  <2> QED
    BY <2>1, <2>2
<1>3. GuardedQueued => Active'
  <2>1. GuardedQueued => mover.pending
    BY DEF MoverInv, GuardedInv, Owned, Active, Running
  <2> QED
    BY <2>1 DEF Active
<1>4. TurnInv'
  <2> SUFFICES ASSUME pc' = "moverReport" PROVE Active' /\ ~mover'.pending /\ WantsReport(mover')
    BY DEF TurnInv
  <2> QED
    BY <1>2
<1> QED
  BY <1>2, <1>3, <1>4, MoverTurns

LEMMA TicksKeep ==
  ASSUME MoverInv, TickNothing \/ TickStage \/ TickWants
  PROVE  MoverInv'
<1>1. /\ UNCHANGED outputVars /\ KeepServer /\ pc = "release" /\ Active /\ landed' = landed
  BY DEF TickNothing, TickStage, TickWants, MoverTurn
<1>2. Tocked => pc' \in {"release", "receive"}
  BY <1>1 DEF Tocked
<1>3. mover \in MoverSet /\ mover.stage \notin Resting /\ Running(mover)
  BY <1>1 DEF MoverInv, MoverTypes, Active, Running
<1>4. ~mover.pending => GoesOn(mover, Diverted(mover)) /\ Running(Diverted(mover))
  BY <1>3, DivertedGoesOn
<1>5. CASE TickNothing
  <2>1. Tocked /\ (mover' = mover \/ (~mover.pending /\ mover' = Diverted(mover)))
    BY <1>5 DEF TickNothing
  <2> QED
    BY <1>1, <1>2, <1>4, <2>1, OnTurns
<1>6. CASE TickStage
  <2> DEFINE d == Diverted(mover)
  <2>1. Tocked /\ ~mover.pending /\ ~WantsReport(d) /\ mover' = Waited(d)
    BY <1>6 DEF TickStage
  <2>2. GoesOn(mover, d) /\ Running(d)
    BY <1>4, <2>1
  <2> HIDE DEF d
  <2>3. GoesOn(d, Waited(d))
    BY <2>1, <2>2, WaitedGoesOn DEF GoesOn
  <2>4. GoesOn(mover, mover')
    BY <2>1, <2>2, <2>3 DEF GoesOn, SameRequest, SameMotion, Running
  <2> QED
    BY <1>1, <1>2, <2>1, <2>4, OnTurns
<1>7. CASE TickWants
  <2>1. /\ ~mover.pending /\ WantsReport(mover') /\ mover' = Diverted(mover) /\ pc' = "moverReport"
    BY <1>7 DEF TickWants
  <2>2. Active'
    BY <1>4, <2>1 DEF Active, Running
  <2> QED
    BY <1>1, <1>4, <2>1, <2>2, OnTurns
<1> QED
  BY <1>5, <1>6, <1>7

(* Its report is accepted by an empty queue.                               *)
(* The report of a stage is queued alone.                                  *)
LEMMA ReportQueued ==
  ASSUME MoverInv, pc = "moverReport", Accept(MoverReport(mover))
  PROVE  /\ Active /\ ~mover.pending /\ WantsReport(mover) /\ mover \in MoverSet
         /\ ~GuardedQueued /\ ~OwnWire /\ \A i \in DOMAIN Coming : ~Own(Coming[i])
         /\ wire' = wire /\ told' = told /\ events' = events /\ generation' = generation
         /\ held' = held /\ overflow' = overflow
         /\ \E e \in EntrySet :
              /\ queue' = <<e>>
              /\ e.kind = MoverReport(mover).kind /\ e.key = MoverReport(mover).key
              /\ e.latest = MoverReport(mover).latest /\ e.left = MoverReport(mover).x
              /\ e.committed = FALSE
              /\ e.persistent = MoverReport(mover).persistent
              /\ e.scheduled = MoverReport(mover).scheduled
              /\ e.button = MoverReport(mover).button
<1>1. Active /\ ~mover.pending /\ WantsReport(mover) /\ mover \in MoverSet /\ Tidy
  BY Typed DEF MoverInv, TurnInv, MoverTypes
<1>2. ~GuardedQueued /\ ~OwnWire /\ \A i \in DOMAIN Coming : ~Own(Coming[i])
  BY <1>1, OwnedNow DEF Owned, Running, Active, MoverInv, ComingInv, Timely
<1>3. queue = <<>>
  <2>1. DOMAIN queue = {}
    BY <1>1, <1>2 DEF MoverInv, SoleUse, GuardedQueued
  <2> QED
    BY <1>1, <2>1 DEF Tidy
<1> DEFINE c == MoverReport(mover)
           e == Queued(c)
<1>4. c \in CommandSet /\ Accept(c)
  BY <1>1, MoverReports
<1>5. /\ wire' = wire /\ told' = told /\ events' = events /\ generation' = generation
      /\ held' = held
      /\ overflow' = overflow
      /\ \E k \in 0 .. Len(queue) : queue' = Append(SubSeq(queue, 1, k), e)
  BY <1>4 DEF Accept
<1> HIDE DEF c
<1>6. /\ e.kind = c.kind /\ e.key = c.key /\ e.latest = c.latest /\ e.left = c.x
      /\ e.committed = FALSE /\ e \in EntrySet
      /\ e.persistent = c.persistent /\ e.scheduled = c.scheduled /\ e.button = c.button
  BY <1>4 DEF Queued, CommandSet, EntrySet
<1> HIDE DEF e
<1>7. queue' = <<e>>
  <2>1. PICK k \in 0 .. Len(queue) : queue' = Append(SubSeq(queue, 1, k), e)
    BY <1>5
  <2>2. queue \in Seq(EntrySet) /\ Len(queue) = 0 /\ k = 0
    BY <1>1, <1>3 DEF Tidy
  <2> DEFINE kept == SubSeq(queue, 1, k)
  <2>3. kept \in Seq(EntrySet) /\ Len(kept) = 0
    BY <2>2
  <2>4. queue' = Append(kept, e)
    BY <2>1
  <2> HIDE DEF kept
  <2>5. kept = <<>>
    BY <2>3, EmptySeq
  <2> QED
    BY <1>6, <2>4, <2>5
<1> QED
  BY <1>1, <1>2, <1>5, <1>6, <1>7 DEF c

LEMMA ReportAccepted ==
  ASSUME MoverInv, pc = "moverReport", KeepServer, landed' = landed, generation = mover.generation,
         Accept(MoverReport(mover)), mover' = [mover EXCEPT !.pending = TRUE], Tocked
  PROVE  MoverInv'
<1>1. Active /\ ~mover.pending /\ WantsReport(mover) /\ mover \in MoverSet /\ Tidy
      /\ releasePending = FALSE
  BY Typed DEF MoverInv, TurnInv, MoverTypes, SoleUse, ServerInv, ServerTypes
<1>2. pc' = "receive"
  BY <1>1 DEF Tocked, MoverInv, NoClicksHere
<1>3. ~GuardedQueued /\ ~OwnWire /\ \A i \in DOMAIN Coming : ~Own(Coming[i])
  BY ReportQueued
<1> DEFINE c == MoverReport(mover)
<1>5. /\ c \in CommandSet /\ Guarded(c) /\ c.key[1] = mover.key /\ ~c.latest /\ PlainRelease(c)
      /\ c.kind \in Motionless => c.x = 0
  BY <1>1, MoverReports DEF Guarded, Motionless
<1>6. Accept(c)
  OBVIOUS
<1>7. /\ wire' = wire /\ told' = told /\ events' = events /\ generation' = generation
      /\ held' = held
      /\ overflow' = overflow
  BY ReportQueued
<1>4. PICK e \in EntrySet :
        /\ queue' = <<e>>
        /\ e.kind = c.kind /\ e.key = c.key /\ e.latest = c.latest /\ e.left = c.x
        /\ e.committed = FALSE
  BY ReportQueued
<1> HIDE DEF c
<1>8. /\ e.kind = c.kind /\ e.key = c.key /\ e.latest = c.latest /\ e.left = c.x
      /\ e.committed = FALSE /\ e \in EntrySet
  BY <1>4
<1>9. queue' = <<e>>
  BY <1>4
<1>10. DOMAIN queue' = {1} /\ Len(queue') = 1 /\ queue'[1] = e
  BY <1>9
<1>11. OutputTypes' /\ WriterInv'
  BY <1>5, <1>6, AcceptTyped, AcceptRests DEF MoverInv, ServerInv, ServerTypes
<1>12. ServerInv'
  BY <1>2, <1>7, <1>11, ServerAside DEF MoverInv
<1>13. /\ mover' \in MoverSet /\ SameRequest(mover, mover') /\ mover'.status = mover.status
       /\ mover'.stage = mover.stage /\ mover'.pending /\ Active'
  BY <1>1 DEF MoverSet, SameRequest, Active
<1>14. /\ UNCHANGED <<latest, batch, work, scheduledButtons, persistentButtons, releasePending>>
       /\ Coming' = Coming /\ batch = <<>>
  BY <1>7 DEF KeepServer, workVars, releaseVars, loopVars, Coming, MoverInv, ComingInv
<1>15. \A r : Own(r)' <=> Own(r)
  BY <1>13 DEF Own, OwnReport, SameRequest
<1>16. MoverTypes'
  BY <1>7, <1>13, <1>14 DEF MoverTypes, MoverInv, SameRequest, Active
<1>17. SoleUse'
  BY <1>1, <1>2, <1>5, <1>8, <1>10, <1>14 DEF SoleUse, MoverInv, Guarded
<1>18. ~FinishComes'
  BY <1>3, <1>14, <1>15 DEF FinishComes, Finishes
<1>19. GuardedInv'
  <2>1. Own(queue[1])'
    BY <1>5, <1>8, <1>10, <1>13 DEF Own, OwnReport, Guarded, SameRequest
  <2>2. Owned(mover)'
    BY <1>13 DEF Owned, Running, Active
  <2>3. generation' = mover'.generation
    BY <1>7, <1>13 DEF SameRequest
  <2>4. ~e.latest /\ ~e.committed /\ (e.kind \in Motionless => e.left = 0)
    BY <1>5, <1>8
  <2> QED
    BY <1>10, <1>13, <1>18, <2>1, <2>2, <2>3, <2>4 DEF GuardedInv
<1>20. TurnInv' /\ NoClicksHere'
  BY <1>2, <1>14 DEF TurnInv, NoClicksHere, MoverInv
<1>21. WireInv'
  <2>1. ~OwnWire'
    BY <1>3, <1>7, <1>15 DEF OwnWire, Written
  <2> QED
    BY <1>7, <1>14, <2>1 DEF WireInv, MoverInv, Guarded, Written
<1>22. ComingInv'
  <2>1. \A i \in DOMAIN Coming' : ~Own(Coming[i])'
    BY <1>3, <1>14, <1>15
  <2>2. \A i \in DOMAIN Coming' : Guarded(Coming'[i]) => Coming'[i].key[1] \in 0 .. latest'
    BY <1>14 DEF MoverInv, ComingInv, Timely
  <2> QED
    BY <1>14, <2>1, <2>2 DEF ComingInv, Timely, Guarded
<1>23. Underway'
  BY <1>9 DEF Underway
<1> QED
  BY <1>11, <1>12, <1>16, <1>17, <1>19, <1>20, <1>21, <1>22, <1>23 DEF MoverInv

LEMMA EnqueueMoverKeeps ==
  ASSUME MoverInv, EnqueueMover
  PROVE  MoverInv'
<1>1. pc = "moverReport" /\ KeepServer /\ landed' = landed
  BY DEF EnqueueMover
<1>2. CASE ~Unguarded /\ Accept(MoverReport(mover)) /\
             mover' = [mover EXCEPT !.pending = TRUE] /\ Tocked
  BY <1>1, <1>2, ReportAccepted DEF Unguarded
<1>3. CASE Refuse("QueueFull") /\ Tocked /\ UNCHANGED mover
  <2>1. UNCHANGED outputVars /\ mover' = mover
    BY <1>3 DEF Refuse
  <2>2. pc' = "receive"
    <3>1. releasePending = FALSE /\ work = <<>>
      BY <1>1 DEF MoverInv, TurnInv, SoleUse, NoClicksHere
    <3> QED
      BY <1>3, <3>1 DEF Tocked
  <2>3. latest <= latest'
    BY <1>1, Typed DEF Tidy, MoverInv, KeepServer
  <2>4. MoverGoes
    BY <1>1, <2>1, <2>3, SameGoes
  <2>5. GuardedQueued => Active'
    BY <1>1, <2>1 DEF MoverInv, TurnInv, Active
  <2>6. TurnInv'
    BY <2>2 DEF TurnInv
  <2> QED
    BY <1>1, <2>1, <2>2, <2>4, <2>5, <2>6, MoverTurns
<1>4. CASE /\ mover' = StopMover(mover, "EndpointChanged")
           /\ pc' = "moverReset" /\ UNCHANGED <<outputVars, ticked>>
  <2>1. Ends(mover, mover')
    BY <1>4, StopEnds DEF MoverInv, MoverTypes, Statuses
  <2> QED
    BY <1>1, <1>4, <2>1, EndTurns
<1> QED
  BY <1>2, <1>3, <1>4 DEF EnqueueMover

-----------------------------------------------------------------------------
(* Packets.                                                                *)

LEMMA ExecuteServer ==
  ASSUME ServerInv, UNCHANGED <<outputVars, workVars, releaseVars, batch, asked>>, seen' = seen,
         work = <<>>, NEW peer \in Peers, owner' = peer, NEW key \in Keys, latest' = key,
         ~Stale(key),
         tracked' = generation, pc' = "top"
  PROVE  ServerInv' /\ latest \in Nat /\ key \in Nat /\ latest < key
<1>1. latest \in Nat /\ key \in Nat /\ latest < key /\ releaseKey \in Nat
  BY ServerLimits DEF Keys, Stale, ServerInv, ServerTypes, KeyTypes, AnyKey, NoKey
<1>2. OutputTypes' /\ generation' = generation /\ generation \in 0 .. generation
  BY OutputKept, CallsKeepGeneration, OutputLimits
     DEF ServerInv, ServerTypes, OutputTypes, GenerationType
<1>3. LeaseTypes' /\ LoopTypes' /\ CallsReady' /\ WorkTypes' /\ RecordTypes'
  BY <1>2 DEF workVars, ServerInv, ServerTypes, LeaseTypes, LoopTypes, CallsReady, WorkTypes,
              RecordTypes
<1>4. KeyTypes'
  BY DEF releaseVars, ServerInv, ServerTypes, KeyTypes, Keys
<1>5. \A j \in DOMAIN records : records[j].key \in Nat
  <2>1. \A r \in RecordSet : r.key \in Nat
    BY ServerLimits DEF RecordSet, Keys
  <2> QED
    BY <2>1 DEF ServerInv, ServerTypes, RecordTypes
<1>6. DOMAIN work = {} /\ WorkKeys = {}
  BY DEF WorkKeys
<1>7. KeysInv'
  <2>1. OneRecord' /\ OneClick' /\ WorkKeys' = {} /\ DOMAIN work' = {} /\ OpenKeys' = OpenKeys
    BY <1>6 DEF workVars, releaseVars, ServerInv, KeysInv, OneRecord, OneClick, WorkKeys, OpenKeys
  <2>2. releaseKey' <= latest'
    BY <1>1 DEF releaseVars, ServerInv, KeysInv
  <2>3. \A j \in DOMAIN records' :
          /\ records'[j].key <= latest'
          /\ records'[j].terminal => records'[j].key \notin OpenKeys'
    <3>1. \A j \in DOMAIN records : records[j].key <= latest
      BY DEF ServerInv, KeysInv
    <3>2. \A j \in DOMAIN records : records[j].key <= latest'
      BY <1>1, <1>5, <3>1
    <3>3. records' = records
      BY DEF workVars
    <3> QED
      BY <2>1, <3>2, <3>3 DEF ServerInv, KeysInv
  <2> QED
    BY <2>1, <2>2, <2>3 DEF KeysInv
<1> QED
  BY <1>1, <1>2, <1>3, <1>4, <1>7 DEF ServerInv, ServerTypes

LEMMA IdleTyped ==
  Idle \in MoverSet /\ ~Idle.pending /\ ~Idle.uncertain /\ ~Running(Idle)
<1>1. 0 \in Nat /\ 0 \in Int /\ NoKey \in AnyKey
  BY DEF AnyKey
<1> QED
  BY <1>1 DEF Idle, MoverSet, Statuses, Stages, NoButton, Running

LEMMA ReceiveExecuteKeeps ==
  ASSUME MoverInv, NEW peer \in Peers, NEW key \in Keys, NEW r \in Requests,
         ReceiveExecute(peer, key, r)
  PROVE  MoverInv' /\ mover'.key = key /\ key > latest
<1> DEFINE m == [Idle EXCEPT !.status = "Active", !.stage = "Out", !.key = key,
                             !.generation = generation, !.dx = r.dx, !.button = r.button,
                             !.wait = r.wait]
<1>1. /\ UNCHANGED outputVars /\ UNCHANGED <<workVars, releaseVars, batch, asked, seen>>
      /\ owner' = peer /\ latest' = key /\ tracked' = generation /\ pc' = "top" /\ ~Stale(key)
      /\ landed' = NothingLanded /\ pc = "receive"
      /\ ~releasePending /\ queue = <<>> /\ persistentButtons \cup scheduledButtons = {}
      /\ mover' = m
  BY DEF ReceiveExecute, Receive, SoleOwner, Renew, Done
<1>2. Tidy /\ work = <<>> /\ batch = <<>>
  BY <1>1, Typed DEF MoverInv, NoClicksHere, ComingInv
<1>3. ServerInv' /\ latest < key /\ key \in Nat /\ latest \in Nat
  BY <1>1, <1>2, ExecuteServer DEF MoverInv
<1>4. WriterInv'
  BY <1>1, OutputQuiet, WriterKept DEF MoverInv
<1>5. /\ queue' = <<>> /\ held' = held /\ wire' = wire /\ told' = told /\ events' = events
      /\ generation' = generation /\ overflow' = overflow
  BY <1>1 DEF outputVars
<1>6. r.dx \in Int /\ r.button \in {NoButton, ClickButton} /\ r.wait \in BOOLEAN
  BY MoveInputs
<1>7. /\ m \in MoverSet /\ m.key = key /\ m.generation = generation /\ ~m.pending
      /\ m.stage = "Out" /\ m.status = "Active"
  <2> DEFINE i == Idle
  <2>1. i \in MoverSet /\ ~i.pending
    BY IdleTyped
  <2> HIDE DEF i
  <2>2. m = [i EXCEPT !.status = "Active", !.stage = "Out", !.key = key,
                      !.generation = generation, !.dx = r.dx, !.button = r.button, !.wait = r.wait]
    BY DEF i
  <2>3. generation \in Nat /\ key \in AnyKey /\ "Active" \in Statuses /\ "Out" \in Stages
    BY <1>2 DEF Tidy, AnyKey, Statuses, Stages
  <2> HIDE DEF m
  <2> QED
    BY <1>6, <2>1, <2>2, <2>3 DEF MoverSet
<1> HIDE DEF m
<1>8. DOMAIN queue' = {} /\ ~GuardedQueued'
  BY <1>5 DEF GuardedQueued
<1>9. Coming' = Coming /\ batch' = <<>>
  BY <1>1, <1>2, <1>5 DEF Coming
<1>10. MoverTypes'
  <2>1. NothingLanded \in LandedSet
    BY DEF NothingLanded, LandedSet
  <2>2. key <= key /\ generation <= generation /\ key # NoKey
    BY <1>2, <1>3 DEF Tidy, NoKey
  <2> QED
    BY <1>1, <1>5, <1>7, <2>1, <2>2 DEF MoverTypes, Resting, Active
<1>11. SoleUse' /\ NoClicksHere' /\ TurnInv'
  BY <1>1, <1>2, <1>8 DEF SoleUse, NoClicksHere, TurnInv, workVars, releaseVars
<1>12. GuardedInv'
  BY <1>8 DEF GuardedInv
<1>13. ASSUME NEW n \in 0 .. latest PROVE n # key /\ n \in 0 .. latest'
  BY <1>1, <1>3
<1>14. \A i \in DOMAIN Coming : Guarded(Coming[i]) => Coming[i].key[1] \in 0 .. latest
  BY DEF MoverInv, ComingInv, Timely
<1>15. \A i \in DOMAIN Coming' : ~Own(Coming[i])'
  BY <1>1, <1>7, <1>9, <1>13, <1>14 DEF Own, OwnReport, Guarded
<1>16. ComingInv'
  <2>1. \A i \in DOMAIN Coming' : Guarded(Coming'[i]) => Coming'[i].key[1] \in 0 .. latest'
    BY <1>9, <1>13, <1>14
  <2> QED
    BY <1>9, <1>15, <2>1 DEF ComingInv, Timely, Guarded
<1>17. WireInv'
  <2>1. wire' = wire /\ told' = told /\ Written' = Written
    BY <1>5 DEF Written
  <2>2. wire # <<>> /\ Guarded(Written) => Written.key[1] \in 0 .. latest
    BY DEF MoverInv, WireInv
  <2>3. ~OwnWire'
    BY <1>1, <1>7, <1>13, <2>1, <2>2 DEF OwnWire, Own, OwnReport, Guarded
  <2>4. wire' # <<>> /\ Guarded(Written)' => Written'.key[1] \in 0 .. latest'
    BY <1>13, <2>1, <2>2 DEF Guarded
  <2> QED
    BY <2>1, <2>3, <2>4 DEF WireInv, MoverInv, Guarded
<1>18. Underway'
  BY <1>1, <1>7 DEF Underway
<1> QED
  BY <1>1, <1>3, <1>4, <1>7, <1>10, <1>11, <1>12, <1>16, <1>17, <1>18 DEF MoverInv

LEMMA ReceiveControlKeeps ==
  ASSUME MoverInv, NEW peer \in Peers, NEW operation \in {"Continue", "Cancel", "Query"},
         ReceiveControl(peer, operation)
  PROVE  MoverInv' /\ (~Active => mover' = mover)
<1> DEFINE go == mover.continued \/ (operation = "Continue" /\ Active /\ mover.stage = "Waiting")
           no == mover.cancelled \/ (operation = "Cancel" /\ Active)
           m == [mover EXCEPT !.continued = go, !.cancelled = no]
<1>1. /\ UNCHANGED outputVars /\ UNCHANGED <<workVars, latest, releaseVars, loopVars>>
      /\ owner' = peer /\ landed' = landed /\ pc = "receive" /\ pc' = "top"
  BY DEF ReceiveControl, Receive, Renew, Done
<1>2. mover \in MoverSet
  BY DEF MoverInv, MoverTypes
<1>3. mover' = m
  BY <1>2 DEF ReceiveControl, MoverSet
<1>4. go \in BOOLEAN /\ no \in BOOLEAN
  BY <1>2 DEF MoverSet
<1>5. ~Active => mover' = mover
  <2> SUFFICES ASSUME ~Active PROVE m = mover
    BY <1>3
  <2>1. go = mover.continued /\ no = mover.cancelled
    BY <1>2 DEF MoverSet
  <2> HIDE DEF go, no
  <2> QED
    BY <1>2, <2>1 DEF MoverSet
<1> HIDE DEF go, no
<1>6. /\ m \in MoverSet /\ SameRequest(mover, m) /\ m.status = mover.status /\ m.stage = mover.stage
      /\ m.pending = mover.pending /\ m.uncertain = mover.uncertain
  BY <1>2, <1>4 DEF MoverSet, SameRequest
<1> HIDE DEF m
<1>7. (Active' <=> Active) /\ mover'.pending = mover.pending
  BY <1>3, <1>6 DEF Active
<1>8. latest <= latest'
  BY <1>1, Typed DEF Tidy, MoverInv
<1>9. MoverGoes
  BY <1>1, <1>3, <1>6, <1>7, <1>8, OwnedNow DEF MoverGoes, Owned, Running, Active, MoverInv,
     MoverTypes
<1>10. ServerInv'
  <2>1. OutputTypes' /\ generation' = generation
    BY <1>1, OutputKept, CallsKeepGeneration DEF MoverInv, ServerInv, ServerTypes
  <2>2. LeaseTypes' /\ LoopTypes' /\ CallsReady'
    BY <1>1, <2>1 DEF workVars, loopVars, MoverInv, ServerInv, ServerTypes, LeaseTypes, LoopTypes,
                      CallsReady
  <2> QED
    BY <1>1, <2>1, <2>2, QuietKeeps DEF MoverInv, workVars, releaseVars
<1>11. UNCHANGED <<batch, work, scheduledButtons, persistentButtons, releasePending>>
  BY <1>1 DEF workVars, loopVars, releaseVars
<1>12. StaysAlone /\ TurnInv' /\ (GuardedQueued => Active' \/ pc' = "moverReset")
  BY <1>1, <1>7, <1>11 DEF StaysAlone, TurnInv, MoverInv, SoleUse, GuardedInv
<1> QED
  BY <1>1, <1>5, <1>7, <1>9, <1>10, <1>11, <1>12, Turned

-----------------------------------------------------------------------------
(* The writer thread.                                                      *)

(* A guarded report is not passed over.                                    *)
LEMMA SkipsGuarded ==
  ASSUME MoverInv, NEW k \in 0 .. Len(queue), NEW giveUp \in BOOLEAN, Skips(k, giveUp)
  PROVE  /\ GuardedQueued => queue' = queue
         /\ GuardedQueued' => GuardedQueued
         /\ Active /\ ~GuardedQueued => queue' = <<>>
<1>1. Tidy
  BY Typed DEF MoverInv
<1>2. /\ DOMAIN queue' = 1 .. Len(queue) - k /\ DOMAIN queue = 1 .. Len(queue)
      /\ Len(queue) \in Nat /\ Len(queue') = Len(queue) - k
      /\ \A j \in DOMAIN queue' :
           /\ k + j \in DOMAIN queue /\ queue[k + j] \in EntrySet
           /\ queue'[j] = IF giveUp /\ j = 1 THEN GivenUp(queue[k + j]) ELSE queue[k + j]
  BY <1>1, SkippedPlaces DEF Tidy
<1>3. queue' \in Seq(EntrySet)
  BY <1>1, SkipsTyped DEF Tidy
<1>4. ASSUME GuardedQueued PROVE queue' = queue
  <2>1. /\ Len(queue) = 1 /\ ~queue[1].latest /\ (queue[1].committed => queue[1].left # 0)
        /\ queue[1].kind \in Transactions
    BY <1>4 DEF MoverInv, GuardedInv, Own, OwnReport
  <2>2. ~Empty(queue[1])
    BY <2>1 DEF Empty, HasMasksToWrite, Transactions
  <2>3. k = 0
    <3>1. \A j \in 1 .. k : Empty(queue[j]) \/ queue[j].latest
      BY DEF Skips, Skippable
    <3> QED
      BY <2>1, <2>2, <3>1
  <2>4. ~giveUp
    BY <2>1, <2>3 DEF Skips, MayGiveUp
  <2>5. queue' = SubSeq(queue, 1, Len(queue))
    BY <2>3, <2>4 DEF Skips, AfterSkip
  <2> QED
    BY <1>1, <2>5 DEF Tidy
<1>5. \A j \in DOMAIN queue' : k + j \in DOMAIN queue /\ queue'[j].kind = queue[k + j].kind
  BY <1>2, GivenUpKeeps
<1>6. GuardedQueued' => GuardedQueued
  BY <1>5 DEF GuardedQueued, Guarded
<1>7. ASSUME Active, ~GuardedQueued PROVE queue' = <<>>
  <2>1. DOMAIN queue = {}
    BY <1>7 DEF MoverInv, SoleUse, GuardedQueued
  <2>2. DOMAIN queue' = {}
    BY <1>5, <2>1
  <2> QED
    BY <1>3, <2>2
<1> QED
  BY <1>4, <1>6, <1>7

(* What a take of the writer thread keeps, whatever report it begins.      *)
LEMMA TakeKept ==
  ASSUME MoverInv, NEW k \in 0 .. Len(queue), NEW giveUp \in BOOLEAN, Skips(k, giveUp),
         ServerInv', WriterInv', UNCHANGED serverVars, UNCHANGED <<mover, landed>>,
         UNCHANGED <<generation, told, events, overflow>>,
         wire' # <<>> /\ Guarded(Written)' =>
           /\ GuardedQueued /\ held' /\ Written'.key = queue[1].key
           /\ Written'.generation = generation /\ Written'.motion \in Moves(queue[1])
           /\ Written'.kind = queue[1].kind
  PROVE  MoverInv'
<1>1. MoverGoes /\ Active' = Active /\ latest \in Nat
  BY ServerStays, SameMover
<1>2. told' = <<>>
  BY DEF Skips, WriterFree
<1>3. Coming' = Coming
  BY ServerStays DEF Coming
<1>4. ComingGoes
  BY <1>1, <1>3, ServerStays, ComingStays
<1>5. ComingInv' /\ (FinishComes' => FinishComes)
  BY <1>1, <1>4, ComingKept DEF MoverInv
<1>6. /\ GuardedQueued => queue' = queue
      /\ GuardedQueued' => GuardedQueued
      /\ Active /\ ~GuardedQueued => queue' = <<>>
  BY SkipsGuarded
<1>7. QueueGoes
  <2>1. GuardedQueued => Active' \/ pc' = "moverReset"
    BY <1>1, ServerStays DEF MoverInv, GuardedInv
  <2>2. generation \in Nat
    BY Typed DEF Tidy, MoverInv
  <2> QED
    BY <1>1, <1>6, <2>1, <2>2 DEF QueueGoes
<1>8. StaysAlone /\ TurnInv' /\ NoClicksHere'
  BY ServerStays
<1>9. MoverTypes' /\ SoleUse' /\ GuardedInv'
  BY <1>1, <1>5, <1>7, <1>8, QueueKept DEF MoverInv
<1>10. WireInv'
  <2> SUFFICES ASSUME wire' # <<>>, Guarded(Written)'
               PROVE  /\ Written'.key[1] \in 0 .. latest'
                      /\ Written'.kind \in Motionless => Written'.motion = 0
                      /\ OwnWire' => /\ Written'.generation = mover'.generation /\ Owned(mover)'
                                     /\ ~FinishComes' /\ (GuardedQueued' => held')
    BY <1>2 DEF WireInv, OwnWire, Own, OwnReport, Guarded
  <2>1. /\ Own(queue[1]) /\ Owned(mover) /\ generation = mover.generation /\ ~FinishComes
        /\ queue[1].kind \in Motionless => queue[1].left = 0
    BY DEF MoverInv, GuardedInv
  <2>2. mover.key \in 0 .. latest
    BY <1>1, ServerLimits DEF MoverInv, MoverTypes, MoverSet, AnyKey, NoKey, Keys
  <2>3. Written'.key[1] \in 0 .. latest'
    BY <2>1, <2>2, ServerStays DEF Own, OwnReport
  <2>4. Written'.kind \in Motionless => Written'.motion = 0
    BY <2>1 DEF Moves
  <2>5. Owned(mover)'
    BY <1>1, <2>1 DEF Owned, Running
  <2> QED
    BY <1>5, <2>1, <2>3, <2>4, <2>5
<1>11. Underway'
  <2>1. \A i \in DOMAIN Coming : Answers(Coming[i])' <=> Answers(Coming[i])
    BY <1>3 DEF Answers, OwnReport
  <2>2. Active /\ queue # <<>> => queue' # <<>>
    <3>1. Active /\ ~GuardedQueued => queue = <<>>
      BY Typed DEF MoverInv, Tidy, SoleUse, GuardedQueued
    <3> QED
      BY <1>6, <3>1
  <2> QED
    BY <1>1, <1>3, <2>1, <2>2, ServerStays DEF Underway, MoverInv
<1> QED
  BY <1>5, <1>8, <1>9, <1>10, <1>11 DEF MoverInv

(* A guarded report that is taken is the front one, or part of it.         *)
Taking(k, giveUp) ==
  /\ Skips(k, giveUp) /\ UNCHANGED <<generation, told, events, overflow>>
  /\ wire' # <<>> /\ Guarded(Written)' =>
       /\ GuardedQueued /\ held' /\ Written'.key = queue[1].key
       /\ Written'.generation = generation /\ Written'.motion \in Moves(queue[1])
       /\ Written'.kind = queue[1].kind

LEMMA ReportTaken ==
  ASSUME MoverInv, WriterTakes
  PROVE  \E k \in 0 .. Len(queue), giveUp \in BOOLEAN : Taking(k, giveUp)
<1>1. PICK k \in 0 .. Len(queue), giveUp \in BOOLEAN :
        \/ PassOver(k, giveUp)
        \/ \E carries \in BOOLEAN, buttons \in SUBSET PhysicalButtons :
             StartEntry(k, giveUp, carries, buttons)
        \/ \E g \in 1 .. generation, buttons \in SUBSET PhysicalButtons :
             StartPhysical(k, giveUp, g, buttons)
        \/ \E g \in 1 .. generation : StartForeign(k, giveUp, g)
  BY DEF WriterTakes
<1>2. CASE PassOver(k, giveUp)
  <2>1. /\ Skips(k, giveUp) /\ wire' = wire /\ wire = <<>>
        /\ UNCHANGED <<generation, told, events, overflow>>
    BY <1>2 DEF PassOver, Skips, WriterFree
  <2> QED
    BY <2>1 DEF Taking
<1>3. ASSUME Skips(k, giveUp), NEW report, Start(report), report.kind = "NONE"
      PROVE  Taking(k, giveUp)
  <2>1. UNCHANGED <<generation, told, events, overflow>> /\ Written' = report
    BY <1>3 DEF Start, Written
  <2>2. ~Guarded(Written)'
    BY <1>3, <2>1 DEF Guarded, Transactions, Forced
  <2> QED
    BY <1>3, <2>1, <2>2 DEF Taking
<1>4. ASSUME NEW g \in 1 .. generation, NEW buttons \in SUBSET PhysicalButtons,
             StartPhysical(k, giveUp, g, buttons)
      PROVE  Taking(k, giveUp)
  <2>1. Skips(k, giveUp) /\ Start(PhysicalReport(g, buttons))
    BY <1>4 DEF StartPhysical
  <2>2. PhysicalReport(g, buttons).kind = "NONE"
    BY DEF PhysicalReport
  <2> QED
    BY <1>3, <2>1, <2>2
<1>5. ASSUME NEW g \in 1 .. generation, StartForeign(k, giveUp, g)
      PROVE  Taking(k, giveUp)
  <2>1. Skips(k, giveUp) /\ Start(ForeignReport(g))
    BY <1>5 DEF StartForeign
  <2>2. ForeignReport(g).kind = "NONE"
    BY DEF ForeignReport
  <2> QED
    BY <1>3, <2>1, <2>2
<1>6. ASSUME NEW carries \in BOOLEAN, NEW buttons \in SUBSET PhysicalButtons,
             StartEntry(k, giveUp, carries, buttons)
      PROVE  Taking(k, giveUp)
  <2>1. Skips(k, giveUp) /\ k < Len(queue) /\ held'
    BY <1>6 DEF StartEntry
  <2> DEFINE entry == Head(AfterSkip(k, giveUp))
  <2>2. entry = queue'[1] /\ 1 \in DOMAIN queue'
    <3>1. queue' = AfterSkip(k, giveUp) /\ queue' \in Seq(EntrySet) /\ queue' # <<>>
      BY <2>1, SkipsTyped, Typed DEF MoverInv, Tidy
    <3>2. Head(queue') = queue'[1] /\ 1 \in DOMAIN queue'
      BY <3>1, TailElements
    <3> QED
      BY <3>1, <3>2
  <2>3. PICK motion \in Moves(entry) : Start(EntryReport(entry, motion, carries, buttons))
    BY <1>6 DEF StartEntry
  <2> HIDE DEF entry
  <2> DEFINE report == EntryReport(entry, motion, carries, buttons)
  <2>4. /\ report.generation = generation /\ report.kind = entry.kind /\ report.key = entry.key
        /\ report.motion = motion
    BY DEF EntryReport
  <2>5. Start(report)
    BY <2>3
  <2> HIDE DEF report
  <2>6. UNCHANGED <<generation, told, events, overflow>> /\ Written' = report
    BY <2>5 DEF Start, Written
  <2>7. ASSUME Guarded(Written)'
        PROVE  /\ GuardedQueued /\ Written'.key = queue[1].key
               /\ Written'.generation = generation /\ Written'.motion \in Moves(queue[1])
               /\ Written'.kind = queue[1].kind
    <3>1. GuardedQueued'
      BY <2>2, <2>4, <2>6, <2>7 DEF GuardedQueued, Guarded
    <3>2. GuardedQueued /\ queue' = queue
      BY <2>1, <3>1, SkipsGuarded
    <3> QED
      BY <2>2, <2>3, <2>4, <2>6, <3>2
  <2> QED
    BY <2>1, <2>6, <2>7 DEF Taking
<1> QED
  BY <1>1, <1>2, <1>4, <1>5, <1>6

LEMMA WriterTakesKeeps ==
  ASSUME MoverInv, WriterTakesGuarded
  PROVE  MoverInv'
<1>1. WriterTakes /\ UNCHANGED serverVars /\ UNCHANGED <<mover, landed>>
  BY DEF WriterTakesGuarded, moverVars
<1>2. ServerInv' /\ WriterInv'
  BY <1>1, OutputActKeeps, OutputRests, Typed DEF MoverInv, Tidy
<1>3. PICK k \in 0 .. Len(queue), giveUp \in BOOLEAN : Taking(k, giveUp)
  BY <1>1, ReportTaken
<1> QED
  BY <1>1, <1>2, <1>3, TakeKept DEF Taking

(* What the end of a write leaves of the queue.                            *)
LEMMA FinishQueue ==
  ASSUME MoverInv, NEW success \in BOOLEAN, Finish(success)
  PROVE  /\ \A j \in DOMAIN queue' : \E i \in DOMAIN queue : queue'[j].kind = queue[i].kind
         /\ GuardedQueued /\ queue' = <<>> => held /\ success /\ Rewritten.left = 0
         /\ GuardedQueued' =>
              /\ GuardedQueued /\ Len(queue') = 1 /\ ~(held /\ success /\ Rewritten.left = 0)
              /\ queue'[1].kind = queue[1].kind /\ queue'[1].key = queue[1].key
              /\ ~queue'[1].latest
              /\ queue'[1].committed => queue'[1].left # 0
              /\ queue'[1].kind \in Motionless => queue'[1].left = 0
<1>1. Tidy /\ wire # <<>>
  BY Typed DEF Finish, MoverInv
<1>2. GuardedQueued => /\ Len(queue) = 1 /\ ~queue[1].latest
                       /\ queue[1].committed => queue[1].left # 0
                       /\ queue[1].kind \in Motionless => queue[1].left = 0
  BY DEF MoverInv, GuardedInv
<1>3. CASE ~(held /\ success)
  <2>1. queue' = queue
    BY <1>3 DEF Finish
  <2>2. GuardedQueued => queue # <<>>
    BY <1>1 DEF GuardedQueued
  <2> QED
    BY <1>2, <1>3, <2>1, <2>2 DEF GuardedQueued
<1>4. CASE held /\ success
  <2>1. queue # <<>> /\ queue \in Seq(EntrySet) /\ Written.motion \in Moves(queue[1])
    BY <1>1, <1>4 DEF Tidy, OutputTypes, HeldIsFront, MoverInv, WriterInv, HeldReport
  <2>2. /\ Rewritten \in EntrySet /\ Head(queue) = queue[1] /\ queue[1] \in EntrySet
        /\ Rewritten.left = queue[1].left - Written.motion /\ 1 \in DOMAIN queue
        /\ Rewritten = [queue[1] EXCEPT !.committed = TRUE,
                                        !.left = queue[1].left - Written.motion]
    BY <1>1, <2>1, RewrittenTyped, TailElements DEF Tidy
  <2>3. /\ Rewritten.kind = queue[1].kind /\ Rewritten.key = queue[1].key
        /\ Rewritten.latest = queue[1].latest
    BY <2>2 DEF EntrySet
  <2>4. CASE Rewritten.left = 0
    <3> DEFINE rest == Tail(queue)
    <3>1. queue' = rest
      BY <1>4, <2>4 DEF Finish
    <3>2. /\ Len(rest) = Len(queue) - 1 /\ rest \in Seq(EntrySet)
          /\ \A j \in DOMAIN rest : j + 1 \in DOMAIN queue /\ rest[j] = queue[j + 1]
      BY <2>1, TailElements
    <3> HIDE DEF rest
    <3>3. Len(queue) = 1 => DOMAIN rest = {}
      BY <3>2
    <3>4. GuardedQueued' => GuardedQueued
      BY <3>1, <3>2 DEF GuardedQueued
    <3>5. ~GuardedQueued'
      BY <1>2, <3>1, <3>3, <3>4 DEF GuardedQueued
    <3> QED
      BY <1>4, <2>4, <3>1, <3>2, <3>5
  <2>5. CASE Rewritten.left # 0
    <3>1. queue' = [queue EXCEPT ![1] = Rewritten]
      BY <1>4, <2>5 DEF Finish
    <3> HIDE DEF Rewritten
    <3>2. /\ Len(queue') = Len(queue) /\ DOMAIN queue' = DOMAIN queue /\ queue' # <<>>
          /\ \A j \in DOMAIN queue : queue'[j] = IF j = 1 THEN Rewritten ELSE queue[j]
      BY <2>1, <2>2, <3>1, FirstEdited
    <3>3. \A j \in DOMAIN queue' : j \in DOMAIN queue /\ queue'[j].kind = queue[j].kind
      BY <2>3, <3>2
    <3>4. GuardedQueued' => GuardedQueued
      BY <3>3 DEF GuardedQueued, Guarded
    <3>5. queue'[1] = Rewritten
      BY <2>2, <3>2
    <3>6. ASSUME GuardedQueued PROVE Rewritten.kind \notin Motionless
      <4> SUFFICES ASSUME Rewritten.kind \in Motionless PROVE FALSE
        OBVIOUS
      <4>1. queue[1].left = 0
        BY <1>2, <2>3, <3>6
      <4>2. Written.motion = 0
        BY <2>1, <4>1 DEF Moves
      <4> QED
        BY <2>2, <2>5, <4>1, <4>2
    <3> QED
      BY <1>2, <2>3, <2>5, <3>2, <3>3, <3>4, <3>5, <3>6
  <2> QED
    BY <2>4, <2>5
<1> QED
  BY <1>3, <1>4

LEMMA LandedTyped ==
  ASSUME MoverInv, NEW success \in BOOLEAN, Finish(success), Land(success)
  PROVE  landed' \in LandedSet
<1>1. Written \in WireSet
  BY Typed DEF Tidy, MoverInv, OutputTypes, WireTypes, Written, Finish
<1> DEFINE m == Written.motion
           p == landed.press \/
             (Written.kind = "TRANSACTION_PRESS" /\ mover.button \in host' \ host)
           r == landed.release \/
             (Written.kind = "TRANSACTION_RELEASE" /\ mover.button \in host \ host')
<1>2. m \in Int /\ landed \in LandedSet
  BY <1>1 DEF WireSet, MoverInv, MoverTypes
<1>3. p \in BOOLEAN /\ r \in BOOLEAN
  BY <1>2 DEF LandedSet
<1>4. landed' = landed \/ landed' = [net |-> landed.net + m, press |-> p, release |-> r]
  BY DEF Land
<1> HIDE DEF m, p, r
<1> QED
  BY <1>2, <1>3, <1>4 DEF LandedSet

(* The completion that is reported comes last.                             *)
LEMMA CompletionComes ==
  ASSUME MoverInv, NEW success \in BOOLEAN, Finish(success), UNCHANGED <<batch, mover>>
  PROVE  \/ Coming' = Coming /\ (Written.generation = generation => Written.kind \notin Reported)
         \/ /\ Coming' = Append(Coming, EventOf(success))
            /\ EventOf(success) \in EventSet /\ EventOf(success).kind = Written.kind
            /\ EventOf(success).key = Written.key /\ EventOf(success).success = success
            /\ EventOf(success).generation = Written.generation
            /\ EventOf(success).finished <=> success /\ held /\ Rewritten.left = 0
<1>1. told = <<>> /\ UNCHANGED <<batch, events>> /\ OutputTypes /\ batch \in Seq(EventSet)
  BY Typed DEF Finish, MoverInv, WireInv, Tidy
<1>2. /\ told' = <<>> => Coming' = Coming
      /\ \A e \in EventSet : told' = <<e>> => Coming' = Append(Coming, e)
  BY <1>1, CompletedComing
<1> DEFINE e == EventOf(success)
<1>3. /\ e.kind = Written.kind /\ e.key = Written.key /\ e.success = success
      /\ e.generation = Written.generation
      /\ e.finished <=> success /\ held /\ Rewritten.left = 0
  BY DEF EventOf
<1>4. told' = <<e>> \/
        (told' = <<>> /\ (Written.generation = generation => Written.kind \notin Reported))
  BY DEF Finish
<1> HIDE DEF e
<1>5. told' = <<e>> => e \in EventSet
  <2> SUFFICES ASSUME told' = <<e>> PROVE e \in EventSet
    OBVIOUS
  <2>1. told' \in Seq(EventSet)
    BY <1>1, FinishTyped DEF OutputTypes, ToldTypes
  <2>2. told' # <<>> /\ told'[1] = e
    OBVIOUS
  <2>3. told'[1] \in EventSet
    BY <2>1, <2>2, TailElements
  <2> QED
    BY <2>2, <2>3
<1>6. \/ Coming' = Coming /\ (Written.generation = generation => Written.kind \notin Reported)
      \/ Coming' = Append(Coming, e) /\ e \in EventSet
  BY <1>2, <1>4, <1>5
<1> QED
  BY <1>3, <1>6 DEF e

LEMMA WriterLandsKeeps ==
  ASSUME MoverInv, WriterLands
  PROVE  MoverInv'
<1>1. PICK success \in BOOLEAN : Finish(success) /\ Land(success)
  BY DEF WriterLands
<1>2. UNCHANGED serverVars /\ mover' = mover
  BY DEF WriterLands
<1>3. ServerInv' /\ WriterInv'
  BY <1>1, <1>2, OutputActKeeps, OutputRests, Typed DEF WriterFinishes, MoverInv, Tidy
<1>4. /\ UNCHANGED <<pc, latest, batch, work, scheduledButtons, persistentButtons, releasePending>>
      /\ NoClicksHere' /\ (pc' # "handle" => batch' = <<>>)
      /\ StaysAlone /\ TurnInv'
  BY <1>2, ServerStays
<1>5. /\ wire # <<>> /\ wire' = <<>> /\ generation' = generation /\ overflow' = overflow
      /\ events' = events /\ told = <<>>
  BY <1>1 DEF Finish, MoverInv, WireInv
<1>6. landed' \in LandedSet /\ Tidy /\ Active' = Active
  BY <1>1, <1>2, LandedTyped, Typed DEF MoverInv, Active
<1>7. \A r : Own(r)' <=> Own(r)
  BY <1>2 DEF Own, OwnReport
<1> DEFINE e == EventOf(success)
           c == Coming
<1>8. \/ Coming' = c /\ (Written.generation = generation => Written.kind \notin Reported)
      \/ /\ Coming' = Append(c, e)
         /\ e \in EventSet /\ e.kind = Written.kind
         /\ e.key = Written.key /\ e.success = success
         /\ e.generation = Written.generation
         /\ e.finished <=> success /\ held /\ Rewritten.left = 0
  BY <1>1, <1>2, <1>4, CompletionComes
<1> HIDE DEF e
<1>9. c \in Seq(EventSet) /\ DOMAIN c = 1 .. Len(c) /\ Len(c) \in Nat
  BY <1>6 DEF Tidy
<1> HIDE DEF c
<1>10. \A i \in DOMAIN c : i \in DOMAIN Coming' /\ Coming'[i] = c[i]
  BY <1>8, <1>9, AppendElements
<1>11. \A j \in DOMAIN Coming' :
         \/ j \in DOMAIN c /\ Coming'[j] = c[j]
         \/ /\ j = Len(c) + 1 /\ Coming'[j] = e
            /\ e.kind = Written.kind /\ e.key = Written.key /\ e.generation = Written.generation
            /\ e.finished => success /\ held /\ Rewritten.left = 0
  BY <1>8, <1>9, AppendElements
<1>12. e.kind = Written.kind /\ e.key = Written.key => (Own(e) <=> OwnWire)
  BY <1>5 DEF Own, OwnReport, OwnWire
<1>13. /\ \A i \in DOMAIN c : Guarded(c[i]) => c[i].key[1] \in 0 .. latest
       /\ \A i \in DOMAIN c : Own(c[i]) =>
            c[i].generation = mover.generation /\ (Active => mover.pending)
       /\ \A i, j \in DOMAIN c : i < j /\ Finishes(c[i]) => ~Own(c[j])
       /\ FinishComes <=> \E i \in DOMAIN c : Finishes(c[i])
  BY DEF MoverInv, ComingInv, Timely, FinishComes, c
<1>14. OwnWire => /\ Written.generation = mover.generation /\ ~FinishComes
                  /\ Active => mover.pending
  BY DEF MoverInv, WireInv, Owned, Running, Active
<1>15. Guarded(Written) => Written.key[1] \in 0 .. latest
  BY <1>5 DEF MoverInv, WireInv
<1>16. ComingInv'
  <2>1. \A i \in DOMAIN Coming' : Guarded(Coming'[i]) => Coming'[i].key[1] \in 0 .. latest
    BY <1>11, <1>13, <1>15 DEF Guarded
  <2>2. \A i \in DOMAIN Coming' :
          Own(Coming'[i]) => Coming'[i].generation = mover.generation /\ (Active => mover.pending)
    BY <1>11, <1>12, <1>13, <1>14
  <2>3. ASSUME NEW i \in DOMAIN Coming', NEW j \in DOMAIN Coming', i < j, Finishes(Coming'[i])
        PROVE  ~Own(Coming'[j])
    <3>1. i \in DOMAIN c /\ Coming'[i] = c[i]
      BY <1>9, <1>11, <2>3
    <3>2. CASE j \in DOMAIN c /\ Coming'[j] = c[j]
      BY <1>13, <2>3, <3>1, <3>2
    <3>3. CASE Coming'[j] = e /\ e.kind = Written.kind /\ e.key = Written.key
      BY <1>12, <1>13, <1>14, <2>3, <3>1, <3>3
    <3> QED
      BY <1>11, <3>2, <3>3
  <2>4. \A r : Finishes(r)' <=> Finishes(r)
    BY <1>7 DEF Finishes
  <2>5. Timely(Coming)'
    <3>1. \A i \in DOMAIN Coming' : Guarded(Coming[i])' => Coming'[i].key[1] \in 0 .. latest'
      BY <1>4, <2>1 DEF Guarded
    <3>2. \A i \in DOMAIN Coming' :
            Own(Coming[i])' =>
              Coming'[i].generation = mover'.generation /\ (Active' => mover'.pending)
      BY <1>2, <1>6, <1>7, <2>2
    <3>3. \A i, j \in DOMAIN Coming' : i < j /\ Finishes(Coming[i])' => ~Own(Coming[j])'
      BY <1>7, <2>3, <2>4
    <3> QED
      BY <3>1, <3>2, <3>3 DEF Timely
  <2> QED
    BY <1>4, <2>5 DEF ComingInv
<1>17. /\ \A j \in DOMAIN queue' : \E i \in DOMAIN queue : queue'[j].kind = queue[i].kind
       /\ GuardedQueued /\ queue' = <<>> => held /\ success /\ Rewritten.left = 0
       /\ GuardedQueued' =>
            /\ GuardedQueued /\ Len(queue') = 1 /\ ~(held /\ success /\ Rewritten.left = 0)
            /\ queue'[1].kind = queue[1].kind /\ queue'[1].key = queue[1].key
            /\ ~queue'[1].latest
            /\ queue'[1].committed => queue'[1].left # 0
            /\ queue'[1].kind \in Motionless => queue'[1].left = 0
  BY <1>1, FinishQueue
<1> HIDE DEF Rewritten, Written
<1>18. MoverTypes' /\ SoleUse'
  <2>1. MoverTypes'
    BY <1>2, <1>4, <1>5, <1>6 DEF MoverTypes, MoverInv
  <2>2. Active => \A j \in DOMAIN queue' : Guarded(queue'[j])
    BY <1>17 DEF MoverInv, SoleUse, Guarded
  <2>3. SoleUse'
    BY <1>4, <1>6, <2>2 DEF SoleUse, MoverInv, Guarded
  <2> QED
    BY <2>1, <2>3
<1>19. GuardedInv'
  <2> SUFFICES ASSUME GuardedQueued' PROVE GuardedInv'
    BY DEF GuardedInv
  <2>1. /\ Own(queue[1]) /\ Owned(mover) /\ generation = mover.generation /\ ~FinishComes
        /\ Active \/ pc = "moverReset"
    BY <1>17 DEF MoverInv, GuardedInv
  <2>2. ~FinishComes'
    <3> SUFFICES ASSUME NEW i \in DOMAIN Coming', Finishes(Coming'[i]) PROVE FALSE
      BY <1>7 DEF FinishComes, Finishes
    <3>1. Coming'[i].finished
      BY DEF Finishes
    <3> QED
      BY <1>11, <1>13, <1>17, <2>1, <3>1
  <2>3. Own(queue[1])'
    BY <1>2, <1>17, <2>1 DEF Own, OwnReport
  <2>4. Owned(mover)'
    BY <1>2, <2>1 DEF Owned, Running
  <2> QED
    BY <1>2, <1>4, <1>5, <1>6, <1>17, <2>1, <2>2, <2>3, <2>4 DEF GuardedInv
<1>20. WireInv'
  <2>1. ~OwnWire'
    BY <1>5 DEF OwnWire
  <2> QED
    BY <1>5, <2>1 DEF WireInv
<1>21. Underway'
  <2> SUFFICES ASSUME Active', mover'.pending, generation' = mover'.generation, ~overflow',
                      pc' # "lost"
               PROVE  queue' # <<>> \/ \E i \in DOMAIN Coming' : Answers(Coming[i])'
    BY DEF Underway
  <2>1. queue # <<>> \/ \E i \in DOMAIN c : Answers(c[i])
    BY <1>2, <1>4, <1>5, <1>6 DEF MoverInv, Underway, c
  <2>2. \A i \in DOMAIN Coming' : Answers(Coming[i])' <=> Answers(Coming'[i])
    BY <1>2 DEF Answers, OwnReport
  <2>3. CASE \E i \in DOMAIN c : Answers(c[i])
    BY <1>10, <2>2, <2>3
  <2>4. CASE queue # <<>> /\ queue' = <<>>
    <3>1. GuardedQueued
      BY <1>6, <2>4 DEF Tidy, MoverInv, SoleUse, GuardedQueued
    <3>2. held /\ success /\ Rewritten.left = 0
      BY <1>17, <2>4, <3>1
    <3>3. /\ Written.generation = generation
          /\ Written.kind = queue[1].kind /\ Written.key = queue[1].key /\ Own(queue[1])
      BY <3>1, <3>2 DEF MoverInv, WriterInv, HeldReport, GuardedInv
    <3>4. OwnReport(Written.kind, Written.key) /\ Written.kind \in Reported
      BY <3>3 DEF Own, OwnReport, Transactions, Reported
    <3>5. Coming' = Append(c, e) /\ e.kind = Written.kind /\ e.key = Written.key /\ e.finished /\
            e \in EventSet
      BY <1>8, <3>2, <3>3, <3>4
    <3>6. Answers(e)
      BY <3>4, <3>5 DEF Answers
    <3>7. Len(c) + 1 \in DOMAIN Coming' /\ Coming'[Len(c) + 1] = e
      BY <1>9, <3>5, AppendProperties
    <3> QED
      BY <2>2, <3>6, <3>7
  <2> QED
    BY <2>1, <2>3, <2>4
<1> QED
  BY <1>3, <1>4, <1>16, <1>18, <1>19, <1>20, <1>21 DEF MoverInv

-----------------------------------------------------------------------------
(* The theorems.                                                           *)

LEMMA MoveInitKeeps == MoveInit => MoverInv
<1> SUFFICES ASSUME MoveInit PROVE MoverInv
  OBVIOUS
<1>1. Init /\ mover = Idle /\ landed = NothingLanded
  BY DEF MoveInit
<1>2. ServerInv /\ WriterInv
  BY <1>1, InitKeeps, InitRests DEF RestInv
<1>3. /\ queue = <<>> /\ wire = <<>> /\ told = <<>> /\ events = <<>> /\ generation = 0
      /\ work = <<>> /\ scheduledButtons = {} /\ batch = <<>> /\ latest = 0 /\ pc = "top"
  BY <1>1 DEF Init, OutputInit, NoKey
<1>4. ~Active /\ mover \in MoverSet /\ mover.key = 0 /\ mover.generation = 0
  BY <1>1, IdleTyped DEF Idle, Running, Active, NoKey
<1>5. DOMAIN queue = {}
  BY <1>3
<1>6. DOMAIN Coming = {}
  <2>1. Coming \in Seq(EventSet) /\ Len(Coming) = 0
    <3>1. batch \in Seq(EventSet) /\ events \in Seq(EventSet) /\ told \in Seq(EventSet)
      BY <1>3, EmptyTyped
    <3>2. events \o told = <<>>
      BY <1>3, <3>1, ConcatEmptySeq
    <3>3. Coming = <<>>
      BY <1>3, <3>1, <3>2, ConcatEmptySeq DEF Coming
    <3> QED
      BY <3>3, EmptyTyped
  <2> QED
    BY <2>1
<1>7. MoverTypes
  <2>1. NothingLanded \in LandedSet
    BY DEF NothingLanded, LandedSet
  <2> QED
    BY <1>1, <1>3, <1>4, <2>1 DEF MoverTypes
<1>8. SoleUse /\ GuardedInv /\ TurnInv /\ Underway /\ NoClicksHere
  BY <1>3, <1>4, <1>5 DEF SoleUse, GuardedInv, GuardedQueued, TurnInv, Underway, NoClicksHere
<1>9. WireInv
  BY <1>3 DEF WireInv, OwnWire
<1>10. ComingInv
  BY <1>3, <1>6 DEF ComingInv, Timely
<1> QED
  BY <1>2, <1>7, <1>8, <1>9, <1>10 DEF MoverInv

LEMMA MoverStepKeeps == MoverInv /\ [MoveNext]_moveVars => MoverInv'
<1> SUFFICES ASSUME MoverInv, [MoveNext]_moveVars PROVE MoverInv'
  OBVIOUS
<1>1. CASE TickOver \/ TickNothing \/ TickStage \/ TickWants \/ EnqueueMover
  BY <1>1, TickOverKeeps, TicksKeep, EnqueueMoverKeeps
<1>2. CASE ResetMover \/ LoopStops \/ AskedToStop
  BY <1>2, ResetMoverKeeps, LoopStopsKeeps, AskedToStopKeeps
<1>3. CASE MoverFails \/ MoverProgresses
  BY <1>3, MoverFailsKeeps, MoverProgressesKeeps
<1>4. CASE Unmoved \/ MoverHold
  BY <1>4, UnmovedKeeps, HoldArrives
<1>5. CASE MovePacket
  BY <1>5, ReceiveExecuteKeeps, ReceiveControlKeeps DEF MovePacket
<1>6. CASE MoverLapse \/ PhysicalArrives
  BY <1>6, IdleSteps, Unchanged DEF MoverLapse, PhysicalArrives, moverVars
<1>7. CASE WriterTakesGuarded \/ WriterLands \/ EndpointActs
  BY <1>7, WriterTakesKeeps, WriterLandsKeeps, EndpointActsKeep
<1>8. CASE UNCHANGED moveVars
  BY <1>8, Unchanged DEF moveVars, moverVars
<1> QED
  BY <1>1, <1>2, <1>3, <1>4, <1>5, <1>6, <1>7, <1>8 DEF MoveNext, MoveLoop

(* The inductive invariant of movement transactions.                       *)
THEOREM MoverCorrect == MoveSpec => []MoverInv
  BY MoveInitKeeps, MoverStepKeeps, PTL DEF MoveSpec

LEMMA MoveTypesImplied == MoverInv => MoveTypeOK
<1> SUFFICES ASSUME MoverInv PROVE MoveTypeOK
  OBVIOUS
<1>1. TypeOK
  BY TypesImplied DEF MoverInv
<1>2. mover.stage \in Stages /\ mover.key \in Keys \cup {NoKey} /\
        mover.generation \in 0 .. generation
  BY Typed DEF Tidy, MoverInv, MoverTypes, MoverSet, AnyKey
<1>3. Active =>
        /\ ~releasePending /\ work = <<>> /\ persistentButtons \cup scheduledButtons = {}
        /\ \A j \in DOMAIN queue : queue[j].kind \in Transactions
  BY DEF MoverInv, SoleUse, NoClicksHere, Guarded
<1> QED
  BY <1>1, <1>2, <1>3 DEF MoveTypeOK

(* The mover's fields have their types, and an active transaction is the   *)
(* sole owner of synthetic output, whatever the packets and the endpoint   *)
(* do.                                                                     *)
THEOREM MoveTypesHold == MoveSpec => []MoveTypeOK
  BY MoverCorrect, MoveTypesImplied, PTL

LEMMA OwnedImplied == MoverInv => GuardedIsOwned
<1> SUFFICES ASSUME MoverInv, NEW j \in DOMAIN queue, queue[j].kind \in Transactions
             PROVE  \/ Active /\ mover.pending /\ OwnReport(queue[j].kind, queue[j].key)
                    \/ pc \in {"moverReset", "stopping"}
  BY DEF GuardedIsOwned
<1>1. GuardedQueued
  BY DEF GuardedQueued, Guarded
<1>2. Len(queue) = 1 /\ Own(queue[1]) /\ Owned(mover) /\ (Active \/ pc = "moverReset")
  BY <1>1 DEF MoverInv, GuardedInv
<1>3. j = 1
  BY <1>2, Typed DEF Tidy, MoverInv
<1> QED
  BY <1>2, <1>3 DEF Own, Owned, Running, Active

(* The queue is never blocked by a report whose transaction has gone: the  *)
(* one guarded report in it belongs to the transaction that waits for it,  *)
(* or the reset that clears the queue is the loop's next call.             *)
THEOREM GuardedOwned == MoveSpec => []GuardedIsOwned
  BY MoverCorrect, OwnedImplied, PTL

LEMMA UnderwayImplied == MoverInv => PendingIsUnderway
<1> SUFFICES ASSUME MoverInv, Active, mover.pending, ~overflow, pc # "lost",
                    generation = mover.generation
             PROVE  \/ \E j \in DOMAIN queue : OwnReport(queue[j].kind, queue[j].key)
                    \/ \E e \in {told[j] : j \in DOMAIN told} \cup {events[j] : j \in DOMAIN events}
                               \cup {batch[j] : j \in DOMAIN batch} : Answers(e)
  BY DEF PendingIsUnderway
<1>1. queue # <<>> \/ \E i \in DOMAIN Coming : Answers(Coming[i])
  BY DEF MoverInv, Underway
<1>2. CASE queue # <<>>
  <2>1. 1 \in DOMAIN queue /\ GuardedQueued
    BY <1>2, Typed DEF Tidy, MoverInv, SoleUse, GuardedQueued
  <2> QED
    BY <2>1 DEF MoverInv, GuardedInv, Own
<1>3. ASSUME NEW i \in DOMAIN Coming, Answers(Coming[i])
      PROVE  \E e \in {told[j] : j \in DOMAIN told} \cup {events[j] : j \in DOMAIN events}
                     \cup {batch[j] : j \in DOMAIN batch} : Answers(e)
  <2> DEFINE rest == events \o told
  <2>1. batch \in Seq(EventSet) /\ rest \in Seq(EventSet) /\ events \in Seq(EventSet)
        /\ told \in Seq(EventSet)
    BY ComingTyped, Typed DEF Tidy, MoverInv
  <2> HIDE DEF rest
  <2>2. Coming = batch \o rest
    BY DEF Coming, rest
  <2>3. \/ i \in DOMAIN batch /\ Coming[i] = batch[i]
        \/ i - Len(batch) \in DOMAIN rest /\ Coming[i] = rest[i - Len(batch)]
    BY <1>3, <2>1, <2>2, PlacesIn
  <2>4. \A k \in DOMAIN rest :
          \/ k \in DOMAIN events /\ rest[k] = events[k]
          \/ k - Len(events) \in DOMAIN told /\ rest[k] = told[k - Len(events)]
    BY <2>1, PlacesIn DEF rest
  <2> QED
    BY <1>3, <2>3, <2>4
<1> QED
  BY <1>1, <1>2, <1>3

(* A transaction that waits for its report does not wait for nothing: the  *)
(* report is queued, its end is to be told of, or the loop will learn that *)
(* it is gone.                                                             *)
THEOREM PendingUnderway == MoveSpec => []PendingIsUnderway
  BY MoverCorrect, UnderwayImplied, PTL

(* An ended transaction's record changes only when another one starts.     *)
LEMMA EndedStays ==
  MoverInv /\ [MoveNext]_moveVars =>
    (~Active /\ mover.key # NoKey => mover' = mover \/ mover'.key # mover.key)
<1> SUFFICES ASSUME MoverInv, [MoveNext]_moveVars, ~Active
             PROVE  mover' = mover \/ mover'.key # mover.key
  OBVIOUS
<1>1. \A reason : StopMover(mover, reason) = mover
  BY DEF StopMover, Active
<1>2. \A e : OnEvent(mover, e) = mover
  BY DEF OnEvent, Active
<1>3. CASE TickOver \/ TickNothing \/ TickStage \/ TickWants \/ EnqueueMover
  BY <1>3 DEF TickOver, TickNothing, TickStage, TickWants, MoverTurn, EnqueueMover, MoverInv,
     TurnInv
<1>4. CASE ResetMover \/ LoopStops \/ AskedToStop
  BY <1>1, <1>4 DEF ResetMover, LoopStops, AskedToStop, CancelMover
<1>5. CASE MoverFails \/ MoverProgresses
  BY <1>1, <1>2, <1>5 DEF MoverFails, MoverProgresses
<1>6. CASE Unmoved \/ MoverHold
  BY <1>6 DEF Unmoved, MoverHold
<1>7. CASE MovePacket
  <2>1. ASSUME NEW peer \in Peers, NEW key \in Keys, NEW r \in Requests,
               ReceiveExecute(peer, key, r)
        PROVE  mover'.key # mover.key
    <3>1. mover'.key = key /\ key > latest
      BY <2>1, ReceiveExecuteKeeps
    <3>2. mover.key <= latest /\ mover.key \in Nat /\ latest \in Nat /\ key \in Nat
      <4>1. latest \in Nat
        BY Typed DEF Tidy, MoverInv
      <4>2. mover.key <= latest /\ mover.key \in AnyKey
        BY DEF MoverInv, MoverTypes, MoverSet
      <4> QED
        BY <4>1, <4>2, ServerLimits DEF AnyKey, Keys, NoKey
    <3> QED
      BY <3>1, <3>2
  <2> QED
    BY <1>7, <2>1, ReceiveControlKeeps DEF MovePacket
<1>8. CASE MoverLapse \/ PhysicalArrives \/ WriterTakesGuarded \/ WriterLands \/ EndpointActs
  BY <1>8 DEF MoverLapse, PhysicalArrives, WriterTakesGuarded, WriterLands, EndpointActs, moverVars
<1>9. CASE UNCHANGED moveVars
  BY <1>9 DEF moveVars, moverVars
<1> QED
  BY <1>3, <1>4, <1>5, <1>6, <1>7, <1>8, <1>9 DEF MoveNext, MoveLoop

(* What is told of an ended transaction stays: no late event, no repeated  *)
(* packet and no reset changes it before another transaction starts.       *)
THEOREM OutcomeStays == MoveSpec => OutcomeIsFinal
<1>1. MoverInv /\ [MoveNext]_moveVars =>
        [~Active /\ mover.key # NoKey => mover' = mover \/ mover'.key # mover.key]_moveVars
  BY EndedStays
<1> QED
  BY <1>1, MoverCorrect, PTL DEF MoveSpec, OutcomeIsFinal
=============================================================================
