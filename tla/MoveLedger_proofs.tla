-------------------------- MODULE MoveLedger_proofs --------------------------
(***************************************************************************)
(* Proofs about what a movement transaction tells of the motion it made    *)
(* and of its click, for all values of the constants.                      *)
(*                                                                         *)
(* Motion: the events to come have a total, which added to what the        *)
(* transaction has been credited with is what the host was moved.  The     *)
(* total is a witness, a function of running sums.                         *)
(*                                                                         *)
(* Click: the reports and events around are of the stage that waits for    *)
(* them, and a press that is over is released by what the queue leads to,  *)
(* or a release is owed.  Within one layout the host shows the physical    *)
(* buttons and the masks in force, so that what the client is told of the  *)
(* click, and of a transaction that completes, is what the host has seen.  *)
(***************************************************************************)
EXTENDS MoveServer_proofs

-----------------------------------------------------------------------------
(* The ledger: what the client has been told of, added to what the events  *)
(* to come will tell, is what the host has seen.                           *)

(* The motion an event credits to the transaction of this key.             *)
MotionOf(key, e) ==
  IF e.success /\ e.kind \in {"TRANSACTION_OUT", "TRANSACTION_RETURN"} /\ e.key[1] = key
  THEN e.motion ELSE 0

(* The events of q lead from the total a to the total b.                   *)
Totals(key, q, a, b) ==
  \E g \in [0 .. Len(q) -> Int] :
    /\ g[0] = a /\ g[Len(q)] = b
    /\ \A i \in 1 .. Len(q) : g[i] = g[i - 1] + MotionOf(key, q[i])

LEMMA MotionTyped ==
  ASSUME NEW key, NEW e \in EventSet
  PROVE  MotionOf(key, e) \in Int
  BY DEF MotionOf, EventSet

(* Events that credit nothing change no total.                             *)
LEMMA LastTotal ==
  ASSUME NEW n \in Nat, NEW k \in 0 .. n, NEW g \in [0 .. n -> Int],
         \A i \in k + 1 .. n : g[i] = g[i - 1]
  PROVE  g[k] = g[n]
<1> DEFINE S == {i \in k .. n : g[i] = g[n]}
<1>1. S \in SUBSET Nat /\ S # {}
  BY DEF S
<1>2. PICK i \in S : \A o \in S : i <= o
  BY <1>1, Least
<1>3. CASE i = k
  BY <1>2, <1>3
<1>4. CASE i # k
  <2>1. i \in k + 1 .. n /\ i - 1 \in k .. n
    BY <1>2, <1>4
  <2>2. g[i - 1] = g[n]
    BY <1>2, <2>1
  <2>3. i - 1 \in S
    BY <2>1, <2>2
  <2> QED
    BY <1>2, <2>1, <2>3
<1> QED
  BY <1>3, <1>4

LEMMA TotalsPrefix ==
  ASSUME NEW key, NEW p \in Seq(EventSet), NEW s \in Seq(EventSet), NEW a, NEW b,
         Totals(key, p \o s, a, b),
         \A i \in DOMAIN s : MotionOf(key, s[i]) = 0
  PROVE  Totals(key, p, a, b)
<1> DEFINE q == p \o s
           n == Len(q)
           k == Len(p)
<1>1. /\ q \in Seq(EventSet) /\ n = k + Len(s) /\ k \in Nat /\ Len(s) \in Nat
      /\ \A i \in 1 .. n : q[i] = IF i <= k THEN p[i] ELSE s[i - k]
      /\ DOMAIN s = 1 .. Len(s)
  BY ConcatProperties
<1>2. PICK g \in [0 .. n -> Int] :
        g[0] = a /\ g[n] = b /\ \A i \in 1 .. n : g[i] = g[i - 1] + MotionOf(key, q[i])
  BY DEF Totals
<1> HIDE DEF q, n, k
<1>3. \A i \in k + 1 .. n : g[i] = g[i - 1]
  <2> TAKE i \in k + 1 .. n
  <2>1. i \in 1 .. n /\ i - k \in DOMAIN s /\ q[i] = s[i - k]
    BY <1>1
  <2>2. g[i] = g[i - 1] + 0
    BY <1>2, <2>1
  <2>3. i - 1 \in 0 .. n
    BY <1>1, <2>1
  <2>4. g[i - 1] \in Int
    BY <2>3
  <2> QED
    BY <2>2, <2>4
<1>4. g[k] = b
  <2>1. n \in Nat /\ k \in 0 .. n
    BY <1>1
  <2> QED
    BY <1>2, <1>3, <2>1, LastTotal
<1> DEFINE f == [i \in 0 .. k |-> g[i]]
<1>5. f \in [0 .. k -> Int] /\ f[0] = a /\ f[k] = b
  <2>1. 0 \in 0 .. k /\ k \in 0 .. k /\ \A i \in 0 .. k : i \in 0 .. n
    BY <1>1
  <2>2. \A i \in 0 .. k : g[i] \in Int
    BY <2>1
  <2>3. f \in [0 .. k -> Int]
    BY <2>2
  <2> QED
    BY <1>2, <1>4, <2>1, <2>3
<1>6. \A i \in 1 .. k : f[i] = f[i - 1] + MotionOf(key, p[i])
  <2> TAKE i \in 1 .. k
  <2>1. i \in 1 .. n /\ i - 1 \in 0 .. k /\ i \in 0 .. k /\ q[i] = p[i]
    BY <1>1
  <2> QED
    BY <1>2, <2>1
<1> HIDE DEF f
<1> QED
  BY <1>5, <1>6 DEF Totals, k

LEMMA TotalsQuiet ==
  ASSUME NEW key, NEW q \in Seq(EventSet), NEW a, NEW b,
         \A i \in DOMAIN q : MotionOf(key, q[i]) = 0
  PROVE  /\ Totals(key, q, a, b) => a = b
         /\ a \in Int => Totals(key, q, a, a)
<1>1. Len(q) \in Nat /\ DOMAIN q = 1 .. Len(q)
  OBVIOUS
<1>2. ASSUME Totals(key, q, a, b) PROVE a = b
  <2>1. PICK g \in [0 .. Len(q) -> Int] :
          g[0] = a /\ g[Len(q)] = b /\ \A i \in 1 .. Len(q) : g[i] = g[i - 1] + MotionOf(key, q[i])
    BY <1>2 DEF Totals
  <2>2. \A i \in 1 .. Len(q) : g[i] = g[i - 1]
    <3> TAKE i \in 1 .. Len(q)
    <3>1. i - 1 \in 0 .. Len(q) /\ g[i] = g[i - 1] + 0
      BY <1>1, <2>1
    <3> QED
      BY <3>1
  <2>3. 0 \in 0 .. Len(q) /\ \A i \in 0 + 1 .. Len(q) : g[i] = g[i - 1]
    BY <1>1, <2>2
  <2> QED
    BY <1>1, <2>1, <2>3, LastTotal
<1>3. ASSUME a \in Int PROVE Totals(key, q, a, a)
  <2> DEFINE g == [i \in 0 .. Len(q) |-> a]
  <2>1. g \in [0 .. Len(q) -> Int] /\ g[0] = a /\ g[Len(q)] = a
    BY <1>1, <1>3
  <2>2. \A i \in 1 .. Len(q) : g[i] = g[i - 1] + MotionOf(key, q[i])
    <3> TAKE i \in 1 .. Len(q)
    <3>1. i - 1 \in 0 .. Len(q) /\ i \in 0 .. Len(q) /\ MotionOf(key, q[i]) = 0
      BY <1>1
    <3> QED
      BY <1>3, <3>1
  <2> HIDE DEF g
  <2> QED
    BY <2>1, <2>2 DEF Totals
<1> QED
  BY <1>2, <1>3

(* One more event adds what it credits,                                    *)
LEMMA TotalsAppend ==
  ASSUME NEW key, NEW q \in Seq(EventSet), NEW e \in EventSet, NEW a, NEW b,
         Totals(key, q, a, b)
  PROVE  Totals(key, Append(q, e), a, b + MotionOf(key, e))
<1> DEFINE n == Len(q)
           c == b + MotionOf(key, e)
           r == Append(q, e)
<1>1. /\ n \in Nat /\ Len(r) = n + 1
      /\ \A i \in 1 .. n : r[i] = q[i]
      /\ r[n + 1] = e
  OBVIOUS
<1>2. PICK g \in [0 .. n -> Int] :
        g[0] = a /\ g[n] = b /\ \A i \in 1 .. n : g[i] = g[i - 1] + MotionOf(key, q[i])
  BY DEF Totals
<1>3. b \in Int /\ c \in Int
  BY <1>1, <1>2, MotionTyped
<1> HIDE DEF r, n
<1> DEFINE f == [i \in 0 .. n + 1 |-> IF i <= n THEN g[i] ELSE c]
<1>4. f \in [0 .. n + 1 -> Int] /\ f[0] = a /\ f[n + 1] = c /\ f[n] = b
  <2> HIDE DEF c
  <2> QED
    BY <1>1, <1>2, <1>3
<1>5. \A i \in 1 .. n + 1 : f[i] = f[i - 1] + MotionOf(key, r[i])
  <2> TAKE i \in 1 .. n + 1
  <2>1. CASE i <= n
    <3>1. i \in 1 .. n /\ f[i] = g[i] /\ f[i - 1] = g[i - 1] /\ r[i] = q[i]
      BY <1>1, <2>1
    <3> QED
      BY <1>2, <3>1
  <2>2. CASE i = n + 1
    <3>1. f[i] = c /\ f[i - 1] = b /\ r[i] = e
      BY <1>1, <1>4, <2>2
    <3> QED
      BY <3>1
  <2> QED
    BY <1>1, <2>1, <2>2
<1> HIDE DEF f, c
<1> QED
  BY <1>1, <1>4, <1>5 DEF Totals, r, c

(* and the first one is credited when it is handled.                       *)
LEMMA TotalsTail ==
  ASSUME NEW key, NEW q \in Seq(EventSet), q # <<>>, NEW a, NEW b, Totals(key, q, a, b)
  PROVE  Totals(key, Tail(q), a + MotionOf(key, q[1]), b)
<1> DEFINE n == Len(q)
           r == Tail(q)
<1>1. /\ n \in Nat /\ n > 0 /\ Len(r) = n - 1
      /\ \A i \in 1 .. n - 1 : r[i] = q[i + 1]
  OBVIOUS
<1>2. PICK g \in [0 .. n -> Int] :
        g[0] = a /\ g[n] = b /\ \A i \in 1 .. n : g[i] = g[i - 1] + MotionOf(key, q[i])
  BY DEF Totals
<1> HIDE DEF r, n
<1> DEFINE f == [i \in 0 .. n - 1 |-> g[i + 1]]
<1>3. f \in [0 .. n - 1 -> Int] /\ f[0] = a + MotionOf(key, q[1]) /\ f[n - 1] = b
  <2>1. \A i \in 0 .. n - 1 : i + 1 \in 0 .. n
    BY <1>1
  <2>2. f \in [0 .. n - 1 -> Int]
    BY <2>1
  <2>3. 0 \in 0 .. n - 1 /\ n - 1 \in 0 .. n - 1 /\ 1 \in 1 .. n /\ (n - 1) + 1 = n
    BY <1>1
  <2>4. f[0] = g[1] /\ f[n - 1] = g[n]
    BY <2>3
  <2>5. g[1] = g[1 - 1] + MotionOf(key, q[1])
    BY <1>2, <2>3
  <2> HIDE DEF f
  <2> QED
    BY <1>2, <2>2, <2>4, <2>5
<1>4. \A i \in 1 .. n - 1 : f[i] = f[i - 1] + MotionOf(key, r[i])
  <2> TAKE i \in 1 .. n - 1
  <2>1. i + 1 \in 1 .. n /\ i \in 0 .. n - 1 /\ i - 1 \in 0 .. n - 1 /\ (i + 1) - 1 = i
        /\ (i - 1) + 1 = i /\ r[i] = q[i + 1]
    BY <1>1
  <2>2. g[i + 1] = g[(i + 1) - 1] + MotionOf(key, q[i + 1])
    BY <1>2, <2>1
  <2>3. f[i] = g[i + 1] /\ f[i - 1] = g[(i - 1) + 1]
    BY <2>1
  <2> HIDE DEF f
  <2> QED
    BY <2>1, <2>2, <2>3
<1> HIDE DEF f
<1> QED
  BY <1>1, <1>3, <1>4 DEF Totals, r

(* The loop will learn of all that is written.                             *)
Counting == ~overflow /\ pc # "lost" /\ generation = mover.generation

(* The events it will handle before it learns that some are lost.          *)
Seen ==
  IF pc = "lost" \/ (overflow /\ pc \in {"handle", "overflow"}) THEN batch
  ELSE IF overflow THEN batch \o events
  ELSE Coming
FinishSeen == \E i \in DOMAIN Seen : Finishes(Seen[i])

(* After a loss no event comes before the loop has taken those there are.  *)
FullInv == overflow /\ pc \notin {"handle", "overflow"} => ~(Len(events) < EventLimit)

Balanced == Residual(mover) = landed.net
LedgerInv ==
  /\ Active /\ ~mover.pending => Balanced
  /\ Active /\ mover.pending /\ (Counting \/ FinishSeen) =>
       Totals(mover.key, Seen, Residual(mover), landed.net)
  /\ ~Active /\ mover.key # NoKey /\ ~mover.uncertain => Balanced

(* Where the host may be, and where what is on the way takes it.           *)
Span(dx) == IF dx >= 0 THEN 0 .. dx ELSE dx .. 0
Heads(entry) ==
  /\ entry.kind = "TRANSACTION_OUT" => landed.net + entry.left = mover.dx
  /\ entry.kind = "TRANSACTION_RETURN" => landed.net + entry.left = 0
ReachInv ==
  /\ landed.net \in Span(mover.dx)
  /\ OwnWire => landed.net + Written.motion \in Span(mover.dx)
  /\ \A j \in DOMAIN queue : Own(queue[j]) => Heads(queue[j])
  /\ Active /\ mover.stage = "Out" /\ ~mover.pending => Residual(mover) = 0

AccountInv == FullInv /\ LedgerInv /\ ReachInv

LEMMA SeenPart ==
  ASSUME MoverInv
  PROVE  /\ Seen \in Seq(EventSet) /\ DOMAIN Seen = 1 .. Len(Seen) /\ Len(Seen) \in Nat
         /\ \E rest \in Seq(EventSet) : Coming = Seen \o rest
         /\ \A i \in DOMAIN Seen : i \in DOMAIN Coming /\ Seen[i] = Coming[i]
         /\ FinishSeen => FinishComes
<1>1. /\ batch \in Seq(EventSet) /\ events \in Seq(EventSet) /\ told \in Seq(EventSet)
      /\ events \o told \in Seq(EventSet) /\ batch \o events \in Seq(EventSet)
      /\ Coming \in Seq(EventSet) /\ <<>> \in Seq(EventSet)
  BY Typed, ComingTyped, ConcatProperties DEF Tidy, MoverInv
<1>2. /\ Coming = batch \o (events \o told)
      /\ Coming = (batch \o events) \o told
      /\ Coming = Coming \o <<>>
  BY <1>1, EventsJoined, ConcatEmptySeq DEF Coming
<1>3. Seen \in Seq(EventSet) /\ \E rest \in Seq(EventSet) : Coming = Seen \o rest
  BY <1>1, <1>2 DEF Seen
<1>4. \A i \in DOMAIN Seen : i \in DOMAIN Coming /\ Seen[i] = Coming[i]
  BY <1>3, PlacesIn
<1>5. FinishSeen => FinishComes
  BY <1>4 DEF FinishSeen, FinishComes
<1>6. DOMAIN Seen = 1 .. Len(Seen) /\ Len(Seen) \in Nat
  BY <1>3
<1> QED
  BY <1>3, <1>4, <1>5, <1>6

(* Nothing comes of a transaction that waits for nothing.                  *)
LEMMA NothingSeen ==
  ASSUME MoverInv, Active, ~mover.pending
  PROVE  \A i \in DOMAIN Seen : MotionOf(mover.key, Seen[i]) = 0
<1> TAKE i \in DOMAIN Seen
<1>1. i \in DOMAIN Coming /\ Seen[i] = Coming[i]
  BY SeenPart
<1>2. ~Own(Coming[i])
  BY <1>1 DEF MoverInv, ComingInv, Timely
<1> QED
  BY <1>1, <1>2 DEF MotionOf, Own, OwnReport, Transactions, Forced

(* Steps that credit nothing and write nothing.                            *)
SameAccount(m, n) ==
  /\ SameRequest(m, n) /\ SameMotion(m, n)
  /\ n.status = m.status /\ n.stage = m.stage /\ n.pending = m.pending
  /\ n.uncertain = m.uncertain

MoverSettles ==
  \/ SameAccount(mover, mover')
  \/ Ends(mover, mover')
  \/ Active /\ ~mover.pending /\ GoesOn(mover, mover')

LEMMA SettledMover ==
  ASSUME MoverInv, MoverSettles
  PROVE  /\ mover'.key = mover.key /\ mover'.dx = mover.dx /\ mover'.generation = mover.generation
         /\ Residual(mover') = Residual(mover)
         /\ Active' => Active /\ mover'.pending = mover.pending
         /\ Active' /\ mover'.stage = "Out" => mover.stage = "Out"
         /\ ~Active' /\ Active /\ ~mover'.uncertain => ~mover.pending
         /\ ~Active' /\ ~Active /\ ~mover'.uncertain => ~mover.uncertain
<1>1. mover \in MoverSet
  BY DEF MoverInv, MoverTypes
<1>2. CASE SameAccount(mover, mover')
  BY <1>1, <1>2 DEF SameAccount, SameRequest, SameMotion, Residual, Active
<1>3. CASE Ends(mover, mover')
  BY <1>1, <1>3 DEF Ends, SameRequest, SameMotion, Residual, Active, Running
<1>4. CASE Active /\ ~mover.pending /\ GoesOn(mover, mover')
  BY <1>1, <1>4 DEF GoesOn, SameRequest, SameMotion, Residual, Active, Running, MoverSet
<1> QED
  BY <1>2, <1>3, <1>4 DEF MoverSettles

LEMMA LedgerKept ==
  ASSUME MoverInv, LedgerInv, MoverSettles, landed' = landed,
         Active' /\ mover.pending => Seen' = Seen /\ (Counting' => Counting)
  PROVE  LedgerInv'
<1>1. Balanced => Balanced'
  BY SettledMover DEF Balanced
<1>2. Active' /\ ~mover'.pending => Balanced'
  BY <1>1, SettledMover DEF LedgerInv
<1>3. ~Active' /\ mover'.key # NoKey /\ ~mover'.uncertain => Balanced'
  BY <1>1, SettledMover DEF LedgerInv
<1>4. ASSUME Active', mover'.pending, Counting' \/ FinishSeen'
      PROVE  Totals(mover'.key, Seen', Residual(mover'), landed'.net)
  <2>1. Active /\ mover.pending /\ mover'.key = mover.key /\ Residual(mover') = Residual(mover)
    BY <1>4, SettledMover
  <2>2. Seen' = Seen /\ (Counting' => Counting)
    BY <1>4, <2>1
  <2>3. FinishSeen' => FinishSeen
    BY <2>1, <2>2 DEF FinishSeen, Finishes, Own, OwnReport
  <2> QED
    BY <1>4, <2>1, <2>2, <2>3 DEF LedgerInv
<1> QED
  BY <1>2, <1>3, <1>4 DEF LedgerInv

LEMMA ReachKept ==
  ASSUME MoverInv, ReachInv, MoverSettles, landed' = landed, wire' = wire,
         \A j \in DOMAIN queue' : Own(queue[j])' => j \in DOMAIN queue /\ queue'[j] = queue[j]
  PROVE  ReachInv'
<1>1. mover'.key = mover.key /\ mover'.dx = mover.dx
  BY SettledMover
<1>2. Written' = Written /\ (OwnWire' => OwnWire)
  BY <1>1 DEF Written, OwnWire, Own, OwnReport
<1>3. \A j \in DOMAIN queue' : Own(queue[j])' => Heads(queue[j])'
  <2> TAKE j \in DOMAIN queue'
  <2> HAVE Own(queue[j])'
  <2>1. j \in DOMAIN queue /\ queue'[j] = queue[j]
    OBVIOUS
  <2>2. Own(queue[j])
    BY <1>1, <2>1 DEF Own, OwnReport
  <2> QED
    BY <1>1, <2>1, <2>2 DEF ReachInv, Heads
<1>4. Active' /\ mover'.stage = "Out" /\ ~mover'.pending => Residual(mover') = 0
  BY SettledMover DEF ReachInv
<1> QED
  BY <1>1, <1>2, <1>3, <1>4 DEF ReachInv

-----------------------------------------------------------------------------
(* The steps of the loop.                                                  *)

Handling == {"handle", "overflow", "lost"}

LEMMA SeenStays ==
  ASSUME UNCHANGED <<batch, events, told, overflow>>,
         pc' = pc \/ (pc \notin Handling /\ pc' \notin Handling)
  PROVE  Seen' = Seen /\ (FullInv => FullInv')
<1>1. Coming' = Coming
  BY DEF Coming
<1>2. Seen' = Seen
  BY <1>1 DEF Seen, Handling
<1>3. FullInv => FullInv'
  BY DEF FullInv, Handling
<1> QED
  BY <1>2, <1>3

LEMMA QuietAccount ==
  ASSUME MoverInv, AccountInv, MoverSettles, landed' = landed, UNCHANGED outputVars, batch' = batch,
         pc' = pc \/ (pc \notin Handling /\ pc' \notin Handling)
  PROVE  AccountInv'
<1>1. /\ generation' = generation /\ queue' = queue /\ wire' = wire /\ told' = told
      /\ events' = events /\ overflow' = overflow
  BY DEF outputVars
<1>2. Seen' = Seen /\ FullInv'
  BY <1>1, SeenStays DEF AccountInv
<1>3. Counting' => Counting
  BY <1>1, SettledMover DEF Counting, Handling
<1>4. LedgerInv'
  BY <1>2, <1>3, LedgerKept DEF AccountInv
<1>5. ReachInv'
  BY <1>1, ReachKept DEF AccountInv
<1> QED
  BY <1>2, <1>4, <1>5 DEF AccountInv

LEMMA SameSettles ==
  mover' = mover => MoverSettles
  BY DEF MoverSettles, SameAccount, SameRequest, SameMotion

LEMMA IdleAccount ==
  ASSUME MoverInv, AccountInv, mover' = mover, landed' = landed,
         \/ Top \/ Resnapshot \/ TickIdle \/ Timeout \/ (Watchdog /\ ~Silent) \/ Lapse
         \/ MoverHold \/ UNCHANGED vars
  PROVE  AccountInv'
<1>1. UNCHANGED outputVars /\ batch' = batch
  BY DEF Top, Resnapshot, TickIdle, Timeout, Watchdog, Lapse, MoverHold, ReceiveHold, Receive,
         loopVars, vars, serverVars
<1>2. pc' = pc \/ (pc \notin Handling /\ pc' \notin Handling)
  BY DEF Top, Resnapshot, TickIdle, Timeout, Watchdog, Lapse, MoverHold, ReceiveHold, Receive,
         vars, serverVars, Handling, Ticking
<1> QED
  BY <1>1, <1>2, SameSettles, QuietAccount

(* A step that ends the transaction, or that of one that has ended.        *)
LEMMA EndedAccount ==
  ASSUME MoverInv, AccountInv, MoverSettles, ~Active', landed' = landed, wire' = wire,
         \A j \in DOMAIN queue' : ~Own(queue[j])', FullInv'
  PROVE  AccountInv'
<1>1. LedgerInv'
  BY LedgerKept DEF AccountInv
<1>2. ReachInv'
  BY ReachKept DEF AccountInv
<1> QED
  BY <1>1, <1>2 DEF AccountInv

LEMMA StopSettles ==
  ASSUME MoverInv, NEW reason \in Statuses \ {"Active"}, mover' = StopMover(mover, reason)
  PROVE  MoverSettles /\ ~Active'
<1>1. Ends(mover, mover')
  BY StopEnds DEF MoverInv, MoverTypes
<1> QED
  BY <1>1 DEF MoverSettles, Ends, Running, Active

LEMMA ClearedAccount ==
  ASSUME MoverInv, AccountInv, ResetMover \/ LoopStops \/ AskedToStop \/ MoverFails
  PROVE  AccountInv'
<1>1. Clear /\ landed' = landed
  BY DEF ResetMover, LoopStops, ResetChanged, ResetLost, Watchdog, AskedToStop, Stop,
         ReceiveReleaseAll, MoverFails, HandleFailure, BeginReset, CancelMover, KeepMover
<1>2. MoverSettles /\ ~Active'
  <2>1. CASE ResetMover
    <3>1. mover' = mover /\ ~Active
      BY <2>1 DEF ResetMover, MoverInv, SoleUse
    <3> QED
      BY <3>1, SameSettles DEF Active
  <2>2. CASE LoopStops \/ AskedToStop
    <3>1. mover' = StopMover(mover, "Cancelled") /\ "Cancelled" \in Statuses \ {"Active"}
      BY <2>2 DEF LoopStops, AskedToStop, CancelMover, Statuses
    <3> QED
      BY <3>1, StopSettles
  <2>3. CASE MoverFails
    <3>1. mover' = StopMover(OnEvent(mover, Event), "Cancelled") /\ ~Event.success
          /\ pc = "handle"
      BY <2>3 DEF MoverFails, HandleFailure
    <3>2. Event \in EventSet
      <4>1. batch \in Seq(EventSet) /\ batch # <<>>
        BY <3>1, Typed DEF Tidy, MoverInv, ServerInv, ServerTypes, CallsReady
      <4> QED
        BY <4>1 DEF Event
    <3>3. Ends(mover, mover')
      BY <3>1, <3>2, FailureEnds DEF MoverInv, MoverTypes
    <3> QED
      BY <3>3 DEF MoverSettles, Ends, Running, Active
  <2> QED
    BY <2>1, <2>2, <2>3
<1>3. wire' = wire /\ queue' = <<>> /\ events' = events /\ overflow' = overflow
  BY <1>1 DEF Clear
<1>4. FullInv'
  <2>1. pc \in {"handle", "overflow"} => pc' \in {"handle", "overflow"}
    BY DEF ResetMover, LoopStops, ResetChanged, ResetLost, Watchdog, AskedToStop, Stop,
           ReceiveReleaseAll, Receive, MoverFails, HandleFailure, AfterEvent
  <2> QED
    BY <1>3, <2>1 DEF FullInv, AccountInv
<1>5. DOMAIN queue' = {}
  BY <1>3
<1> QED
  BY <1>1, <1>2, <1>3, <1>4, <1>5, EndedAccount

LEMMA TicksAccount ==
  ASSUME MoverInv, AccountInv, TickOver \/ TickNothing \/ TickStage \/ TickWants
  PROVE  AccountInv'
<1>1. /\ UNCHANGED outputVars /\ batch' = batch /\ landed' = landed /\ pc = "release" /\ Active
      /\ pc' \in {"release", "receive", "moverReset", "moverReport"}
  BY DEF TickOver, TickNothing, TickStage, TickWants, MoverTurn, Tocked, KeepServer, loopVars
<1>2. mover \in MoverSet /\ mover.stage \notin Resting
  BY <1>1 DEF MoverInv, MoverTypes
<1>3. MoverSettles
  <2>1. CASE TickOver
    <3>1. mover' = StopMover(mover, WhyOver) /\ WhyOver \in Statuses \ {"Active"}
      BY <2>1 DEF TickOver, WhyOver, Statuses
    <3> QED
      BY <3>1, StopSettles
  <2>2. CASE mover' = mover
    BY <2>2, SameSettles
  <2>3. CASE ~mover.pending /\ mover' \in {Diverted(mover), Waited(Diverted(mover))}
             /\ (mover' = Diverted(mover) \/ ~WantsReport(Diverted(mover)))
    <3>1. GoesOn(mover, Diverted(mover)) /\ Running(Diverted(mover))
      BY <1>1, <1>2, <2>3, DivertedGoesOn DEF Running, Active
    <3>2. ~WantsReport(Diverted(mover)) => GoesOn(Diverted(mover), Waited(Diverted(mover)))
      BY <3>1, WaitedGoesOn DEF GoesOn
    <3>3. ~WantsReport(Diverted(mover)) => GoesOn(mover, Waited(Diverted(mover)))
      BY <3>1, <3>2 DEF GoesOn, SameRequest, SameMotion
    <3>4. GoesOn(mover, mover')
      BY <2>3, <3>1, <3>3
    <3> QED
      BY <1>1, <2>3, <3>4 DEF MoverSettles
  <2> QED
    BY <2>1, <2>2, <2>3 DEF TickNothing, TickStage, TickWants
<1>4. pc \notin Handling /\ pc' \notin Handling
  BY <1>1 DEF Handling
<1> QED
  BY <1>1, <1>3, <1>4, QuietAccount

LEMMA ControlAccount ==
  ASSUME MoverInv, AccountInv, NEW peer \in Peers,
         NEW operation \in {"Continue", "Cancel", "Query"},
         ReceiveControl(peer, operation)
  PROVE  AccountInv'
<1> DEFINE go == mover.continued \/ (operation = "Continue" /\ Active /\ mover.stage = "Waiting")
           no == mover.cancelled \/ (operation = "Cancel" /\ Active)
           m == [mover EXCEPT !.continued = go, !.cancelled = no]
<1>1. /\ UNCHANGED outputVars /\ batch' = batch /\ landed' = landed /\ pc = "receive" /\ pc' = "top"
  BY DEF ReceiveControl, Receive, Done, loopVars
<1>2. mover \in MoverSet
  BY DEF MoverInv, MoverTypes
<1>3. mover' = m
  BY <1>2 DEF ReceiveControl, MoverSet
<1> HIDE DEF go, no
<1>4. SameAccount(mover, m)
  BY <1>2 DEF MoverSet, SameAccount, SameRequest, SameMotion
<1> HIDE DEF m
<1>5. MoverSettles
  BY <1>3, <1>4 DEF MoverSettles
<1>6. pc \notin Handling /\ pc' \notin Handling
  BY <1>1 DEF Handling
<1> QED
  BY <1>1, <1>5, <1>6, QuietAccount

(* What an event credits, and where it leaves the transaction.             *)
LEMMA EventCredits ==
  ASSUME NEW m \in MoverSet, Running(m) => m.stage \notin Resting, NEW e \in EventSet, e.success
  PROVE  /\ Residual(OnEvent(m, e)) =
              Residual(m) + (IF Concerns(m, e) THEN MotionOf(m.key, e) ELSE 0)
         /\ Concerns(m, e) /\ e.finished /\ Running(OnEvent(m, e)) => OnEvent(m, e).stage # "Out"
<1> DEFINE n == OnEvent(m, e)
           c == Credited(m, e)
           k == IF Concerns(m, e) THEN MotionOf(m.key, e) ELSE 0
<1>1. Residual(m) \in Int
  BY DEF MoverSet, Residual
<1>2. /\ c \in MoverSet
      /\ c.status = m.status
      /\ Residual(c) = Residual(m) + (IF e.kind \in {"TRANSACTION_OUT", "TRANSACTION_RETURN"}
                                      THEN e.motion ELSE 0)
  BY CreditedTyped
<1>3. Concerns(m, e) => Residual(c) = Residual(m) + MotionOf(m.key, e)
  BY <1>2 DEF Concerns, IsFor, MotionOf
<1>4. CASE ~Concerns(m, e)
  <2>1. n = m
    BY <1>4 DEF OnEvent, Concerns, Running
  <2> QED
    BY <1>1, <1>4, <2>1
<1>5. CASE Concerns(m, e) /\ ~e.finished
  <2>1. n = c
    BY <1>5 DEF OnEvent, Concerns, Running
  <2> HIDE DEF n, c
  <2> QED
    BY <1>3, <1>5, <2>1 DEF n
<1>6. CASE Concerns(m, e) /\ e.finished
  <2> DEFINE d == [c EXCEPT !.pending = FALSE]
  <2>1. n = Advance(d, e)
    BY <1>6 DEF OnEvent, Concerns, Running
  <2> HIDE DEF c
  <2>2. /\ d \in MoverSet /\ d.status = c.status /\ ~d.pending
        /\ Residual(d) = Residual(c)
    BY <1>2 DEF MoverSet, Residual
  <2> HIDE DEF d
  <2>3. Running(d) /\ e.kind \in Transactions
    BY <1>2, <1>6, <2>2 DEF Concerns, Running
  <2>4. SameMotion(d, n) /\ (Running(n) => n.stage \notin Resting \cup {"Out"})
    BY <2>1, <2>2, <2>3, AdvanceGoes
  <2> HIDE DEF n
  <2>5. Residual(n) = Residual(c)
    BY <2>2, <2>4 DEF SameMotion, Residual
  <2> QED
    BY <1>3, <1>6, <2>4, <2>5 DEF n
<1> QED
  BY <1>4, <1>5, <1>6

(* Handling takes the first of the events that are seen.                   *)
LEMMA HandledSeen ==
  ASSUME MoverInv, pc = "handle", AfterEvent, UNCHANGED outputVars
  PROVE  /\ Seen # <<>> /\ Event = Seen[1] /\ Seen' = Tail(Seen)
         /\ batch # <<>> /\ Event \in EventSet
<1>1. batch \in Seq(EventSet) /\ batch # <<>>
  BY Typed DEF Tidy, MoverInv, ServerInv, ServerTypes, CallsReady
<1>2. events \in Seq(EventSet) /\ told \in Seq(EventSet) /\ events \o told \in Seq(EventSet)
  BY <1>1, Typed, ComingTyped DEF Tidy, MoverInv
<1>3. /\ batch' = Tail(batch) /\ pc' \in {"handle", "overflow"} /\ events' = events /\ told' = told
      /\ overflow' = overflow
  BY DEF AfterEvent, outputVars
<1> DEFINE rest == events \o told
<1>4. rest \in Seq(EventSet)
  BY <1>2
<1> HIDE DEF rest
<1>5. /\ batch \o rest # <<>> /\ Head(batch) = (batch \o rest)[1]
      /\ Tail(batch) \o rest = Tail(batch \o rest)
  <2> DEFINE r == batch \o rest
             t == Tail(batch)
  <2>1. /\ r \in Seq(EventSet) /\ Len(r) = Len(batch) + Len(rest)
        /\ \A i \in 1 .. Len(batch) + Len(rest) :
             r[i] = IF i <= Len(batch) THEN batch[i] ELSE rest[i - Len(batch)]
    BY <1>1, <1>4, ConcatProperties
  <2>2. /\ t \in Seq(EventSet) /\ Len(t) = Len(batch) - 1 /\ Len(batch) \in Nat /\ Len(batch) > 0
        /\ \A i \in 1 .. Len(t) : t[i] = batch[i + 1]
        /\ Len(rest) \in Nat /\ Head(batch) = batch[1]
    BY <1>1, <1>4
  <2>3. /\ t \o rest \in Seq(EventSet) /\ Len(t \o rest) = Len(t) + Len(rest)
        /\ \A i \in 1 .. Len(t) + Len(rest) :
             (t \o rest)[i] = IF i <= Len(t) THEN t[i] ELSE rest[i - Len(t)]
    BY <1>4, <2>2, ConcatProperties
  <2> HIDE DEF r, t
  <2>4. r # <<>> /\ batch[1] = r[1]
    BY <2>1, <2>2
  <2>5. t \o rest = Tail(r)
    <3> DEFINE u == t \o rest
               v == Tail(r)
    <3>1. v \in Seq(EventSet) /\ Len(v) = Len(r) - 1 /\ \A i \in 1 .. Len(v) : v[i] = r[i + 1]
      BY <2>1, <2>4
    <3>2. u \in Seq(EventSet) /\ Len(u) = Len(v)
      BY <2>1, <2>2, <2>3, <3>1
    <3>3. \A i \in 1 .. Len(u) : u[i] = IF i <= Len(t) THEN t[i] ELSE rest[i - Len(t)]
      BY <2>3
    <3> HIDE DEF u, v
    <3>4. \A i \in 1 .. Len(u) : u[i] = v[i]
      <4> TAKE i \in 1 .. Len(u)
      <4>1. v[i] = r[i + 1] /\ i + 1 \in 1 .. Len(batch) + Len(rest)
        BY <2>1, <2>2, <3>1, <3>2
      <4>2. CASE i <= Len(t)
        BY <2>1, <2>2, <3>3, <4>1, <4>2
      <4>3. CASE ~(i <= Len(t))
        <5>1. i - Len(t) = (i + 1) - Len(batch) /\ ~(i + 1 <= Len(batch))
          BY <2>2, <3>2, <4>3
        <5> QED
          BY <2>1, <3>3, <4>1, <4>3, <5>1
      <4> QED
        BY <4>2, <4>3
    <3> QED
      BY <3>1, <3>2, <3>4, SeqEqual DEF u, v
  <2> QED
    BY <2>2, <2>4, <2>5 DEF r, t
<1>6. Seen \in {batch, batch \o rest} /\ (Seen = batch => Seen' = Tail(batch))
      /\ (Seen # batch => Seen' = Tail(batch) \o rest)
  <2>1. CASE overflow
    BY <1>3, <2>1 DEF Seen
  <2>2. CASE ~overflow
    <3>1. Seen = batch \o rest /\ Seen' = Tail(batch) \o rest
      BY <1>3, <2>2 DEF Seen, Coming, rest
    <3>2. CASE rest = <<>>
      <4>1. Seen = batch /\ Tail(batch) \in Seq(EventSet)
        BY <1>1, <3>1, <3>2, ConcatEmptySeq
      <4> QED
        BY <3>1, <3>2, <4>1, ConcatEmptySeq
    <3>3. CASE rest # <<>>
      <4>1. batch \o rest # batch
        <5>1. Len(batch \o rest) = Len(batch) + Len(rest)
          BY <1>1, <1>4, ConcatProperties
        <5>2. Len(rest) # 0 /\ Len(batch) \in Nat /\ Len(rest) \in Nat
          BY <1>1, <1>4, <3>3, EmptySeq
        <5> QED
          BY <5>1, <5>2
      <4> QED
        BY <3>1, <4>1
    <3> QED
      BY <3>2, <3>3
  <2> QED
    BY <2>1, <2>2
<1>7. Event = Head(batch) /\ Event = batch[1]
  BY <1>1 DEF Event
<1>8. Event \in EventSet
  BY <1>1, <1>7
<1> QED
  BY <1>1, <1>5, <1>6, <1>7, <1>8

LEMMA ProgressAccount ==
  ASSUME MoverInv, AccountInv, MoverProgresses
  PROVE  AccountInv'
<1>1. /\ UNCHANGED outputVars /\ pc = "handle" /\ Event.success /\ AfterEvent
      /\ landed' = landed /\ mover' = OnEvent(mover, Event)
  BY DEF MoverProgresses, HandleReleased, HandleOther, KeepMover
<1>2. /\ queue' = queue /\ wire' = wire /\ generation' = generation /\ overflow' = overflow
      /\ events' = events /\ pc' \in {"handle", "overflow"}
  BY <1>1 DEF outputVars, AfterEvent
<1>3. /\ Seen # <<>> /\ Event = Seen[1] /\ Seen' = Tail(Seen) /\ Event \in EventSet
  BY <1>1, HandledSeen
<1> DEFINE e == Event
           s == Seen
           t == Tail(Seen)
           k == MotionOf(mover.key, e)
<1>4. /\ s \in Seq(EventSet) /\ 1 \in DOMAIN s /\ e = s[1] /\ e = Coming[1] /\ 1 \in DOMAIN Coming
  BY <1>3, SeenPart
<1>5. /\ t \in Seq(EventSet)
      /\ \A i \in DOMAIN t : /\ i + 1 \in DOMAIN s /\ t[i] = s[i + 1] /\ i + 1 \in DOMAIN Coming
                             /\ t[i] = Coming[i + 1] /\ 1 < i + 1
  <2>1. t \in Seq(EventSet) /\ \A i \in DOMAIN t : i + 1 \in DOMAIN s /\ t[i] = s[i + 1] /\
          1 < i + 1
    BY <1>3, <1>4
  <2>2. \A i \in DOMAIN s : i \in DOMAIN Coming /\ s[i] = Coming[i]
    BY SeenPart
  <2> HIDE DEF s, t
  <2> QED
    BY <2>1, <2>2
<1>6. mover \in MoverSet /\ (Running(mover) => mover.stage \notin Resting)
  BY DEF MoverInv, MoverTypes, Active, Running
<1> HIDE DEF e, s, t, k
<1>7. e \in EventSet /\ e.success /\ mover' = OnEvent(mover, e) /\ Seen' = t
  BY <1>1, <1>3 DEF e, t
<1>8. GoesBy(mover, mover', e)
  BY <1>6, <1>7, EventEffect
<1>9. /\ Residual(mover') = Residual(mover) + (IF Concerns(mover, e) THEN k ELSE 0)
      /\ Concerns(mover, e) /\ e.finished /\ Running(mover') => mover'.stage # "Out"
  BY <1>6, <1>7, EventCredits DEF k
<1>10. Residual(mover) \in Int /\ k \in Int
  BY <1>6, <1>7, MotionTyped DEF MoverSet, Residual, k
<1>11. mover'.key = mover.key /\ mover'.dx = mover.dx /\ mover'.generation = mover.generation
  BY <1>8 DEF GoesBy, SameRequest
<1>12. Active /\ Own(e) => Concerns(mover, e) /\ mover.pending
  BY <1>4, <1>7 DEF MoverInv, ComingInv, Timely, Own, OwnReport, Concerns, IsFor, Active, Running
<1>13. ~Own(e) => k = 0 /\ ~Concerns(mover, e)
  BY DEF k, MotionOf, Own, OwnReport, Concerns, IsFor, Transactions, Forced
<1>14. Active => Residual(mover') = Residual(mover) + k
  BY <1>9, <1>10, <1>12, <1>13
<1>15. ~Concerns(mover, e) => mover' = mover
  BY <1>8 DEF GoesBy
<1>16. Active' => Active
  BY <1>8 DEF GoesBy, Running, Active
<1>17. Counting' => Counting
  BY <1>1, <1>2, <1>11 DEF Counting
<1>18. LedgerInv'
  <2>1. CASE ~Active
    <3>1. mover' = mover
      BY <1>15, <2>1 DEF Concerns, Running, Active
    <3> QED
      BY <1>1, <1>16, <2>1, <3>1, SameSettles, LedgerKept DEF AccountInv
  <2>2. CASE Active /\ Finishes(e)
    <3>1. Concerns(mover, e) /\ mover.pending /\ FinishSeen
      BY <1>4, <1>12, <2>2 DEF Finishes, FinishSeen, s
    <3>2. Totals(mover.key, s, Residual(mover), landed.net)
      BY <2>2, <3>1 DEF AccountInv, LedgerInv, s
    <3>3. Totals(mover.key, t, Residual(mover) + k, landed.net)
      BY <1>3, <1>4, <3>2, TotalsTail DEF k, s, t
    <3>4. \A i \in DOMAIN t : MotionOf(mover.key, t[i]) = 0
      <4> TAKE i \in DOMAIN t
      <4>1. ~Own(t[i])
        BY <1>4, <1>5, <2>2 DEF MoverInv, ComingInv, Timely
      <4> QED
        BY <4>1 DEF MotionOf, Own, OwnReport, Transactions, Forced
    <3>5. Residual(mover) + k = landed.net
      BY <1>5, <3>3, <3>4, TotalsQuiet
    <3>6. Balanced'
      BY <1>1, <1>14, <2>2, <3>5 DEF Balanced
    <3>7. ~mover'.pending
      BY <1>8, <2>2, <3>1 DEF GoesBy, Finishes
    <3> QED
      BY <3>6, <3>7 DEF LedgerInv
  <2>3. CASE Active /\ ~Finishes(e)
    <3>1. ~(Concerns(mover, e) /\ e.finished)
      BY <1>7, <1>13, <2>3 DEF Finishes
    <3>2. Active' /\ mover'.pending = mover.pending
      BY <1>8, <1>15, <2>3, <3>1 DEF GoesBy, Running, Active
    <3>3. ASSUME ~mover'.pending PROVE Balanced'
      <4>1. ~Own(e) /\ k = 0
        BY <1>12, <1>13, <2>3, <3>2, <3>3
      <4>2. Residual(mover') = Residual(mover)
        BY <1>10, <1>14, <2>3, <4>1
      <4> QED
        BY <1>1, <2>3, <3>2, <3>3, <4>2 DEF AccountInv, LedgerInv, Balanced
    <3>4. ASSUME mover'.pending, Counting' \/ FinishSeen'
          PROVE  Totals(mover'.key, Seen', Residual(mover'), landed'.net)
      <4>1. FinishSeen' => FinishSeen
        <5> SUFFICES ASSUME NEW i \in DOMAIN Seen', Finishes(Seen[i])' PROVE FinishSeen
          BY DEF FinishSeen
        <5>1. i \in DOMAIN t /\ Finishes(t[i])
          BY <1>7, <1>11 DEF Finishes, Own, OwnReport
        <5>2. Finishes(s[i + 1]) /\ i + 1 \in DOMAIN s
          BY <1>5, <5>1
        <5> QED
          BY <5>2 DEF FinishSeen, s
      <4>2. Totals(mover.key, s, Residual(mover), landed.net)
        BY <1>17, <2>3, <3>2, <3>4, <4>1 DEF AccountInv, LedgerInv, s
      <4>3. Totals(mover.key, t, Residual(mover) + k, landed.net)
        BY <1>3, <1>4, <4>2, TotalsTail DEF k, s, t
      <4> QED
        BY <1>1, <1>7, <1>11, <1>14, <2>3, <4>3
    <3> QED
      BY <3>2, <3>3, <3>4 DEF LedgerInv
  <2> QED
    BY <2>1, <2>2, <2>3
<1>19. ReachInv'
  <2>1. Written' = Written /\ (OwnWire' => OwnWire)
    BY <1>2, <1>11 DEF Written, OwnWire, Own, OwnReport
  <2>2. \A j \in DOMAIN queue' : Own(queue[j])' => Heads(queue[j])'
    BY <1>1, <1>2, <1>11 DEF AccountInv, ReachInv, Own, OwnReport, Heads
  <2>3. ASSUME Active', mover'.stage = "Out", ~mover'.pending PROVE Residual(mover') = 0
    <3>1. Active /\ ~(Concerns(mover, e) /\ e.finished)
      BY <1>9, <1>16, <2>3 DEF Active, Running
    <3>2. mover'.pending = mover.pending /\ mover'.stage = mover.stage
      BY <1>8, <1>15, <3>1 DEF GoesBy
    <3>3. k = 0
      BY <1>12, <1>13, <2>3, <3>1, <3>2
    <3> QED
      BY <1>10, <1>14, <2>3, <3>1, <3>2, <3>3 DEF AccountInv, ReachInv
  <2> QED
    BY <1>1, <1>11, <2>1, <2>2, <2>3 DEF AccountInv, ReachInv
<1>20. FullInv'
  BY <1>2 DEF FullInv
<1> QED
  BY <1>18, <1>19, <1>20 DEF AccountInv

LEMMA FetchAccount ==
  ASSUME MoverInv, AccountInv, FetchEvents \/ FetchOverflow, mover' = mover, landed' = landed
  PROVE  AccountInv'
<1>1. Tidy /\ batch = <<>>
  BY Typed DEF MoverInv, ComingInv, FetchEvents, FetchOverflow
<1>2. /\ queue' = queue /\ wire' = wire /\ generation' = generation /\ told' = told
  BY DEF FetchEvents, FetchOverflow, TakeEvents, TakeOverflow
<1>3. Seen' = Seen /\ (Counting' => Counting) /\ FullInv'
  <2>1. CASE FetchEvents
    <3>1. /\ batch' = events /\ overflow' = overflow /\ pc = "events"
          /\ pc' \in {"handle", "overflow"}
          /\ Coming' = Coming
      BY <1>1, <2>1, FetchedComing DEF FetchEvents, TakeEvents, Tidy
    <3>2. batch \o events = events
      <4>1. events \in Seq(EventSet)
        BY <1>1, ComingTyped DEF Tidy
      <4> QED
        BY <1>1, <4>1, ConcatEmptySeq
    <3>3. Seen' = Seen
      BY <3>1, <3>2 DEF Seen
    <3> QED
      BY <1>2, <3>1, <3>3 DEF Counting, FullInv
  <2>2. CASE FetchOverflow
    <3>1. /\ batch' = batch /\ events' = events /\ overflow' = FALSE /\ pc = "overflow"
          /\ pc' = IF overflow THEN "lost" ELSE "watchdog"
      BY <2>2 DEF FetchOverflow, TakeOverflow, loopVars
    <3>2. Coming' = Coming
      BY <1>2, <3>1 DEF Coming
    <3>3. Seen' = Seen
      BY <3>1, <3>2 DEF Seen
    <3>4. Counting' => Counting
      BY <1>2, <3>1 DEF Counting
    <3> QED
      BY <3>1, <3>3, <3>4 DEF FullInv
  <2> QED
    BY <2>1, <2>2
<1>4. LedgerInv'
  BY <1>3, SameSettles, LedgerKept DEF AccountInv
<1>5. ReachInv'
  BY <1>2, SameSettles, ReachKept DEF AccountInv
<1> QED
  BY <1>3, <1>4, <1>5 DEF AccountInv

(* What is accepted beside the mover's reports is when it is not active.   *)
LEMMA ReleaseAccount ==
  ASSUME MoverInv, MoverInv', AccountInv, TickRelease \/ LastRelease \/ EnqueueHold,
         mover' = mover, landed' = landed
  PROVE  AccountInv'
<1>1. /\ batch' = batch /\ pc \notin Handling /\ pc' \notin Handling /\ pc' # "moverReset"
      /\ pc \in {"stopping", "hold"} \/ TickRelease
  BY DEF TickRelease, LastRelease, EnqueueHold, loopVars, Handling, Done
<1>2. CASE UNCHANGED outputVars
  BY <1>1, <1>2, SameSettles, QuietAccount
<1>3. CASE ~UNCHANGED outputVars
  <2>1. \E c : Accept(c)
    BY <1>3 DEF TickRelease, LastRelease, EnqueueHold, Refuse
  <2>2. wire' = wire /\ told' = told /\ events' = events /\ overflow' = overflow
    BY <2>1 DEF Accept
  <2>3. ~Active
    BY <1>1, <1>3 DEF TickRelease, MoverInv, SoleUse
  <2>4. ~Active' /\ ~GuardedQueued'
    BY <1>1, <2>3 DEF MoverInv, GuardedInv, Active
  <2>5. \A j \in DOMAIN queue' : ~Own(queue[j])'
    BY <2>4 DEF GuardedQueued, Guarded, Own, OwnReport
  <2>6. FullInv'
    BY <1>1, <2>2, SeenStays DEF AccountInv
  <2> QED
    BY <2>2, <2>4, <2>5, <2>6, SameSettles, EndedAccount
<1> QED
  BY <1>2, <1>3

LEMMA UnmovedAccount ==
  ASSUME MoverInv, MoverInv', AccountInv, Unmoved
  PROVE  AccountInv'
<1>1. mover' = mover /\ landed' = landed
  BY DEF Unmoved, KeepMover
<1>2. \/ Top \/ Resnapshot \/ TickIdle \/ Timeout \/ (Watchdog /\ ~Silent)
      \/ FetchEvents \/ FetchOverflow \/ TickRelease \/ LastRelease \/ EnqueueHold
  BY DEF Unmoved
<1> QED
  BY <1>1, <1>2, IdleAccount, FetchAccount, ReleaseAccount

-----------------------------------------------------------------------------
(* The endpoint and the writer thread.                                     *)

LEMMA EndpointAccount ==
  ASSUME MoverInv, AccountInv, UNCHANGED serverVars, UNCHANGED <<mover, landed>>,
         BecomeReady \/ Discard \/ Reset
  PROVE  AccountInv'
<1>1. /\ UNCHANGED <<batch, events, told, overflow>> /\ pc' = pc /\ wire' = wire
      /\ queue' = queue \/ queue' = <<>>
  BY DEF serverVars, BecomeReady, Discard, Reset, loopVars
<1>2. Seen' = Seen /\ FullInv'
  BY <1>1, SeenStays DEF AccountInv
<1>3. Counting' => Counting
  <2>1. generation' = generation \/ generation' = generation + 1
    BY DEF BecomeReady, Discard, Reset
  <2>2. mover.generation \in Nat /\ mover.generation <= generation /\ generation \in Nat
    BY Typed DEF MoverInv, MoverTypes, MoverSet, Tidy
  <2>3. generation' = mover.generation => generation = mover.generation
    BY <2>1, <2>2
  <2> QED
    BY <1>1, <2>3 DEF Counting
<1>4. LedgerInv'
  BY <1>2, <1>3, SameSettles, LedgerKept DEF AccountInv
<1>5. \A j \in DOMAIN queue' : j \in DOMAIN queue /\ queue'[j] = queue[j]
  BY <1>1
<1>6. ReachInv'
  BY <1>1, <1>5, SameSettles, ReachKept DEF AccountInv
<1> QED
  BY <1>2, <1>4, <1>6 DEF AccountInv

LEMMA TellAccount ==
  ASSUME MoverInv, AccountInv, UNCHANGED serverVars, UNCHANGED <<mover, landed>>, Tell
  PROVE  AccountInv'
<1>1. /\ batch' = batch /\ pc' = pc /\ wire' = wire /\ queue' = queue /\ generation' = generation
  BY DEF serverVars, Tell, loopVars
<1>2. ReachInv'
  BY <1>1, SameSettles, ReachKept DEF AccountInv
<1>3. Tidy
  BY Typed DEF MoverInv
<1>4. /\ Len(events) < EventLimit => Coming' = Coming /\ overflow' = overflow
      /\ ~(Len(events) < EventLimit) => overflow' = TRUE /\ events' = events
  BY <1>1, <1>3, ToldComing DEF Tidy, Tell
<1>5. FullInv'
  BY <1>1, <1>4 DEF AccountInv, FullInv
<1>6. CASE Len(events) < EventLimit \/ overflow \/ pc = "lost"
  <2>1. Seen' = Seen
    BY <1>1, <1>4, <1>6 DEF Seen, AccountInv, FullInv
  <2>2. Counting' => Counting
    BY <1>1, <1>4, <1>6 DEF Counting
  <2>3. LedgerInv'
    BY <2>1, <2>2, SameSettles, LedgerKept DEF AccountInv
  <2> QED
    BY <1>2, <1>5, <2>3 DEF AccountInv
<1>7. CASE ~(Len(events) < EventLimit) /\ ~overflow /\ pc # "lost"
  <2>1. Seen = Coming /\ ~Counting'
    BY <1>4, <1>7 DEF Seen, Counting
  <2>2. PICK rest \in Seq(EventSet) : Seen = Seen' \o rest /\ Seen' \in Seq(EventSet)
    <3>1. /\ batch \in Seq(EventSet) /\ events \in Seq(EventSet) /\ told \in Seq(EventSet)
          /\ events \o told \in Seq(EventSet) /\ batch \o events \in Seq(EventSet)
      BY <1>3, ComingTyped, ConcatProperties DEF Tidy
    <3>2. Coming = batch \o (events \o told) /\ Coming = (batch \o events) \o told
      <4>1. batch \o (events \o told) = (batch \o events) \o told
        BY <3>1, EventsJoined
      <4>2. Coming = batch \o (events \o told)
        BY DEF Coming
      <4> QED
        BY <4>1, <4>2
    <3>3. Seen' \in {batch, batch \o events}
      BY <1>1, <1>4, <1>7 DEF Seen
    <3> DEFINE rest == events \o told
    <3>4. rest \in Seq(EventSet) /\ Coming = batch \o rest
      BY <3>1, <3>2
    <3> HIDE DEF rest
    <3>5. CASE Seen' = batch
      BY <2>1, <3>1, <3>4, <3>5
    <3> DEFINE now == batch \o events
    <3>6. now \in Seq(EventSet) /\ Coming = now \o told /\ Seen' \in {batch, now}
      BY <3>1, <3>2, <3>3
    <3> HIDE DEF now
    <3>7. CASE Seen' = now
      BY <2>1, <3>1, <3>6, <3>7
    <3> QED
      BY <3>5, <3>6, <3>7
  <2>3. ASSUME Active', mover'.pending, Counting' \/ FinishSeen'
        PROVE  Totals(mover'.key, Seen', Residual(mover'), landed'.net)
    <3>1. PICK f \in DOMAIN Seen' : Finishes(Seen[f])'
      BY <2>1, <2>3 DEF FinishSeen
    <3> DEFINE p == Seen'
    <3>2. p \in Seq(EventSet) /\ f \in DOMAIN p /\ Finishes(p[f])
      BY <2>2, <3>1 DEF Finishes, Own, OwnReport
    <3> HIDE DEF p
    <3>3. Coming = p \o rest
      BY <2>1, <2>2 DEF p
    <3>4. f \in DOMAIN Coming /\ Finishes(Coming[f])
      BY <3>2, <3>3, PlacesIn
    <3>5. \A i \in DOMAIN rest : MotionOf(mover.key, rest[i]) = 0
      <4> TAKE i \in DOMAIN rest
      <4>1. Len(p) + i \in DOMAIN Coming /\ Coming[Len(p) + i] = rest[i]
        BY <3>2, <3>3, PlacesIn
      <4>2. f < Len(p) + i
        BY <3>2
      <4>3. ~Own(rest[i])
        BY <3>4, <4>1, <4>2 DEF MoverInv, ComingInv, Timely
      <4> QED
        BY <4>3 DEF MotionOf, Own, OwnReport, Transactions, Forced
    <3>6. Totals(mover.key, p \o rest, Residual(mover), landed.net)
      <4>1. Active /\ mover.pending /\ FinishSeen
        BY <2>1, <2>3, <3>4 DEF FinishSeen, Active
      <4> QED
        BY <2>1, <3>3, <4>1 DEF AccountInv, LedgerInv
    <3>7. Totals(mover.key, p, Residual(mover), landed.net)
      BY <3>2, <3>5, <3>6, TotalsPrefix
    <3> QED
      BY <3>7 DEF p
  <2>4. LedgerInv'
    BY <2>3 DEF LedgerInv, AccountInv, Active, Balanced
  <2> QED
    BY <1>2, <1>5, <2>4 DEF AccountInv
<1> QED
  BY <1>6, <1>7

(* A report of the transaction is written within what it heads for.        *)
LEMMA MovesWithin ==
  ASSUME NEW a \in Int, NEW dx \in Int, NEW left \in Int, NEW m \in Int,
         a \in Span(dx), a + left \in Span(dx),
         m \in IF left >= 0 THEN 0 .. left ELSE left .. 0
  PROVE  a + m \in Span(dx)
  BY DEF Span

LEMMA QueuedReach ==
  ASSUME MoverInv, ReachInv, NEW j \in DOMAIN queue, Own(queue[j])
  PROVE  /\ queue[j] \in EntrySet /\ landed.net \in Int /\ mover.dx \in Int /\ queue[j].left \in Int
         /\ landed.net + queue[j].left \in Span(mover.dx)
<1>1. queue[j] \in EntrySet /\ landed.net \in Int /\ mover.dx \in Int /\ queue[j].left \in Int
  <2>1. queue \in Seq(EntrySet) /\ landed \in LandedSet /\ mover \in MoverSet
    BY Typed DEF MoverInv, MoverTypes, Tidy
  <2>2. queue[j] \in EntrySet
    BY <2>1
  <2> QED
    BY <2>1, <2>2 DEF LandedSet, MoverSet, EntrySet
<1>2. queue[j].kind \in Motionless \cup {"TRANSACTION_OUT", "TRANSACTION_RETURN"}
  BY DEF Own, OwnReport, Transactions, Forced, Motionless
<1>3. CASE queue[j].kind \in Motionless
  <2>1. GuardedQueued /\ j = 1
    <3>1. GuardedQueued
      BY DEF GuardedQueued, Guarded, Own, OwnReport
    <3> QED
      BY <3>1, Typed DEF MoverInv, GuardedInv, Tidy
  <2>2. queue[j].left = 0
    BY <1>3, <2>1 DEF MoverInv, GuardedInv
  <2> QED
    BY <1>1, <2>2 DEF ReachInv
<1>4. CASE queue[j].kind = "TRANSACTION_OUT"
  <2>1. landed.net + queue[j].left = mover.dx
    BY <1>4 DEF ReachInv, Heads
  <2> QED
    BY <1>1, <2>1 DEF Span
<1>5. CASE queue[j].kind = "TRANSACTION_RETURN"
  <2>1. landed.net + queue[j].left = 0
    BY <1>5 DEF ReachInv, Heads
  <2> QED
    BY <1>1, <2>1 DEF Span
<1> QED
  BY <1>1, <1>2, <1>3, <1>4, <1>5

LEMMA TakesAccount ==
  ASSUME MoverInv, MoverInv', AccountInv, WriterTakesGuarded
  PROVE  AccountInv'
<1>1. WriterTakes /\ UNCHANGED serverVars /\ mover' = mover /\ landed' = landed
  BY DEF WriterTakesGuarded, moverVars
<1>2. PICK k \in 0 .. Len(queue), giveUp \in BOOLEAN : Taking(k, giveUp)
  BY <1>1, ReportTaken
<1>3. /\ pc' = pc /\ UNCHANGED <<batch, events, told, overflow, generation>>
  BY <1>1, <1>2 DEF serverVars, Taking, loopVars
<1>4. Seen' = Seen /\ FullInv'
  BY <1>3, SeenStays DEF AccountInv
<1>5. Counting' => Counting
  BY <1>1, <1>3 DEF Counting
<1>6. LedgerInv'
  BY <1>1, <1>4, <1>5, SameSettles, LedgerKept DEF AccountInv
<1>7. /\ GuardedQueued => queue' = queue
      /\ GuardedQueued' => GuardedQueued
  BY <1>2, SkipsGuarded DEF Taking
<1>8. \A j \in DOMAIN queue' : Own(queue[j])' => Heads(queue[j])'
  <2> SUFFICES ASSUME NEW j \in DOMAIN queue', Own(queue[j])' PROVE Heads(queue[j])'
    OBVIOUS
  <2>1. queue' = queue
    BY <1>7 DEF GuardedQueued, Guarded, Own, OwnReport
  <2>2. Own(queue[j])
    BY <1>1, <2>1 DEF Own, OwnReport
  <2> QED
    BY <1>1, <2>1, <2>2 DEF AccountInv, ReachInv, Heads
<1>9. OwnWire' => landed'.net + Written'.motion \in Span(mover'.dx)
  <2> SUFFICES ASSUME OwnWire' PROVE landed.net + Written'.motion \in Span(mover.dx)
    BY <1>1
  <2>1. wire' # <<>> /\ Guarded(Written)'
    BY DEF OwnWire, Own, OwnReport, Guarded
  <2>2. GuardedQueued /\ Written'.motion \in Moves(queue[1])
    BY <1>2, <2>1 DEF Taking
  <2>3. Own(queue[1]) /\ 1 \in DOMAIN queue
    BY <2>2, Typed DEF MoverInv, GuardedInv, Tidy
  <2>4. /\ landed.net \in Int /\ mover.dx \in Int /\ queue[1].left \in Int
        /\ landed.net + queue[1].left \in Span(mover.dx)
    BY <2>3, QueuedReach DEF AccountInv
  <2>5. Written'.motion \in Int
    BY <2>2, <2>4 DEF Moves
  <2>6. landed.net \in Span(mover.dx)
    BY DEF AccountInv, ReachInv
  <2> QED
    BY <2>2, <2>4, <2>5, <2>6, MovesWithin DEF Moves
<1>10. ReachInv'
  BY <1>1, <1>8, <1>9 DEF AccountInv, ReachInv, Active
<1> QED
  BY <1>4, <1>6, <1>10 DEF AccountInv

LEMMA LandsAccount ==
  ASSUME MoverInv, MoverInv', AccountInv, WriterLands
  PROVE  AccountInv'
<1>1. PICK success \in BOOLEAN : Finish(success) /\ Land(success)
  BY DEF WriterLands
<1>2. UNCHANGED serverVars /\ mover' = mover
  BY DEF WriterLands
<1>3. /\ wire # <<>> /\ wire' = <<>> /\ generation' = generation /\ overflow' = overflow
      /\ events' = events /\ told = <<>> /\ pc' = pc /\ batch' = batch
  BY <1>1, <1>2 DEF Finish, MoverInv, WireInv, serverVars, loopVars
<1>4. Tidy /\ landed \in LandedSet /\ landed' \in LandedSet /\ Written \in WireSet
  <2>1. Written \in WireSet
    BY <1>1, Typed DEF Tidy, MoverInv, OutputTypes, WireTypes, Written, Finish
  <2> QED
    BY <1>1, <2>1, LandedTyped, Typed DEF MoverInv, MoverTypes
<1>5. landed.net \in Int /\ Written.motion \in Int /\ mover.dx \in Int
  BY <1>4 DEF LandedSet, WireSet, MoverInv, MoverTypes, MoverSet
<1>6. landed'.net = IF success /\ OwnWire THEN landed.net + Written.motion ELSE landed.net
  BY <1>1, <1>3 DEF Land, OwnWire, Own, OwnReport
<1> DEFINE e == EventOf(success)
<1>7. \/ Coming' = Coming /\ (Written.generation = generation => Written.kind \notin Reported)
      \/ /\ Coming' = Append(Coming, e)
         /\ e \in EventSet /\ e.kind = Written.kind
         /\ e.key = Written.key /\ e.success = success
         /\ e.generation = Written.generation
  BY <1>1, <1>2, <1>3, CompletionComes
<1>8. e.motion = Written.motion /\ (told' = <<>> \/ Written.generation = generation)
  BY <1>1 DEF EventOf, Finish
<1> HIDE DEF e
<1>9. OwnWire => /\ Written.generation = mover.generation /\ ~FinishComes /\ Owned(mover)
                 /\ Written.kind \in Reported
                 /\ Written.kind \in Motionless => Written.motion = 0
  BY <1>3 DEF MoverInv, WireInv, OwnWire, Own, OwnReport, Guarded, Transactions, Reported
<1>10. e.kind = Written.kind /\ e.key = Written.key /\ e.success = success =>
         MotionOf(mover.key, e) = IF success /\ OwnWire THEN Written.motion ELSE 0
  BY <1>3, <1>8, <1>9 DEF MotionOf, OwnWire, Own, OwnReport, Transactions, Forced, Motionless
<1> HIDE DEF Written, OwnWire
<1>11. Counting' = Counting /\ FullInv'
  BY <1>2, <1>3 DEF Counting, FullInv, AccountInv
<1>12. LedgerInv'
  <2>1. CASE ~OwnWire \/ ~success
    <3>1. landed'.net = landed.net
      BY <1>6, <2>1
    <3>2. ASSUME Active', mover'.pending, Counting' \/ FinishSeen'
          PROVE  Totals(mover'.key, Seen', Residual(mover'), landed'.net)
      <4>1. CASE Seen' = Seen
        <5>1. FinishSeen' => FinishSeen
          BY <1>2, <4>1 DEF FinishSeen, Finishes, Own, OwnReport
        <5> QED
          BY <1>2, <1>11, <3>1, <3>2, <4>1, <5>1 DEF AccountInv, LedgerInv, Active
      <4>2. CASE Seen' # Seen
        <5>1. /\ Seen = Coming /\ Seen' = Coming' /\ Coming' = Append(Coming, e)
              /\ ~overflow /\ pc # "lost" /\ e \in EventSet
              /\ e.kind = Written.kind /\ e.key = Written.key /\ e.success = success
          BY <1>3, <1>7, <4>2 DEF Seen
        <5>2. ASSUME FinishSeen', ~Counting PROVE FinishSeen
          <6>1. PICK f \in DOMAIN Coming' : Finishes(Coming'[f])
            BY <1>2, <5>1, <5>2 DEF FinishSeen, Finishes, Own, OwnReport
          <6>2. CASE f \in DOMAIN Coming /\ Coming'[f] = Coming[f]
            BY <5>1, <6>1, <6>2 DEF FinishSeen
          <6>3. CASE Coming'[f] = e
            BY <1>3, <2>1, <5>1, <6>1, <6>3 DEF Finishes, Own, OwnReport, OwnWire
          <6>4. (f \in DOMAIN Coming /\ Coming'[f] = Coming[f]) \/ Coming'[f] = e
            BY <1>4, <5>1, AppendElements DEF Tidy
          <6> QED
            BY <6>2, <6>3, <6>4
        <5>3. Totals(mover.key, Coming, Residual(mover), landed.net)
          BY <1>2, <1>11, <3>2, <5>1, <5>2 DEF AccountInv, LedgerInv, Active
        <5>4. MotionOf(mover.key, e) = 0
          BY <1>10, <2>1, <5>1
        <5>5. Totals(mover.key, Coming', Residual(mover), landed.net + 0)
          BY <1>4, <5>1, <5>3, <5>4, TotalsAppend DEF Tidy
        <5> QED
          BY <1>2, <1>5, <3>1, <5>1, <5>5
      <4> QED
        BY <4>1, <4>2
    <3> QED
      BY <1>2, <3>1, <3>2 DEF AccountInv, LedgerInv, Active, Balanced
  <2>2. CASE OwnWire /\ success
    <3>1. Owned(mover) /\ landed'.net = landed.net + Written.motion
      BY <1>6, <1>9, <2>2
    <3>2. (Active => mover.pending) /\ (~Active => mover.uncertain)
      BY <3>1 DEF Owned, Running, Active
    <3>3. ASSUME Active', mover'.pending, Counting' \/ FinishSeen'
          PROVE  Totals(mover'.key, Seen', Residual(mover'), landed'.net)
      <4>1. Counting
        <5> SUFFICES ASSUME FinishSeen', ~Counting PROVE FALSE
          BY <1>11, <3>3
        <5>1. PICK f \in DOMAIN Seen' : Finishes(Seen'[f])
          BY <1>2 DEF FinishSeen, Finishes, Own, OwnReport
        <5>2. Seen' = Seen
          <6>1. CASE overflow \/ pc = "lost"
            BY <1>3, <6>1 DEF Seen
          <6>2. CASE ~overflow /\ pc # "lost"
            <7>1. generation # mover.generation
              BY <6>2 DEF Counting
            <7>2. told' = <<>>
              BY <1>8, <1>9, <2>2, <7>1
            <7> QED
              BY <1>3, <7>2 DEF Seen, Coming
          <6> QED
            BY <6>1, <6>2
        <5>3. FinishSeen
          BY <5>1, <5>2 DEF FinishSeen
        <5> QED
          BY <1>9, <2>2, <5>3, SeenPart
      <4>2. Written.generation = generation /\ Seen = Coming /\ Seen' = Coming'
        BY <1>3, <1>9, <2>2, <4>1 DEF Counting, Seen
      <4>3. /\ Coming' = Append(Coming, e) /\ e \in EventSet
            /\ e.kind = Written.kind /\ e.key = Written.key /\ e.success = success
        BY <1>7, <1>9, <2>2, <4>2
      <4>4. Totals(mover.key, Coming, Residual(mover), landed.net)
        BY <1>2, <3>2, <3>3, <4>1, <4>2 DEF AccountInv, LedgerInv, Active
      <4>5. MotionOf(mover.key, e) = Written.motion
        BY <1>10, <2>2, <4>3
      <4>6. Totals(mover.key, Coming', Residual(mover), landed.net + Written.motion)
        BY <1>4, <4>3, <4>4, <4>5, TotalsAppend DEF Tidy
      <4> QED
        BY <1>2, <3>1, <4>2, <4>6
    <3> QED
      BY <1>2, <3>2, <3>3 DEF LedgerInv, Active
  <2> QED
    BY <2>1, <2>2
<1>13. ReachInv'
  <2>1. landed'.net \in Span(mover'.dx)
    BY <1>2, <1>6 DEF AccountInv, ReachInv
  <2>2. ~OwnWire'
    BY <1>3 DEF OwnWire
  <2>3. ASSUME NEW j \in DOMAIN queue', Own(queue[j])'
        PROVE  Heads(queue[j])'
    <3>1. GuardedQueued' /\ j = 1
      <4>1. GuardedQueued'
        BY <2>3 DEF GuardedQueued, Guarded, Own, OwnReport
      <4>2. Len(queue') = 1 /\ DOMAIN queue' = 1 .. Len(queue')
        BY <4>1, TypedNext DEF MoverInv, GuardedInv, Tidy
      <4> QED
        BY <4>1, <4>2
    <3>2. GuardedQueued /\ Own(queue[1]) /\ 1 \in DOMAIN queue
      <4>1. GuardedQueued
        BY <1>1, <3>1, FinishQueue
      <4> QED
        BY <4>1, <1>4 DEF MoverInv, GuardedInv, Tidy
    <3>3. Heads(queue[1]) /\ queue[1] \in EntrySet /\ queue[1].left \in Int
      BY <3>2, QueuedReach DEF AccountInv, ReachInv
    <3>4. CASE ~(held /\ success)
      <4>1. queue' = queue
        BY <1>1, <3>4 DEF Finish
      <4>2. ~(OwnWire /\ success)
        BY <3>2, <3>4 DEF MoverInv, WireInv
      <4>3. landed'.net = landed.net
        BY <1>6, <4>2
      <4> QED
        BY <1>2, <3>1, <3>3, <4>1, <4>3 DEF Heads
    <3>5. CASE held /\ success
      <4>1. Written.kind = queue[1].kind /\ Written.key = queue[1].key
        BY <3>5 DEF MoverInv, WriterInv, HeldReport
      <4>2. OwnWire
        BY <1>3, <3>2, <4>1 DEF OwnWire, Own
      <4>3. landed'.net = landed.net + Written.motion
        BY <1>6, <3>5, <4>2
      <4>4. /\ Rewritten.left = queue[1].left - Written.motion /\ Rewritten.kind = queue[1].kind
            /\ queue'[1] = Rewritten
        <5>1. queue # <<>> /\ queue \in Seq(EntrySet) /\ Head(queue) = queue[1]
          BY <1>4, <3>2, TailElements DEF Tidy
        <5>2. /\ Rewritten = [queue[1] EXCEPT !.committed = TRUE,
                                              !.left = queue[1].left - Written.motion]
              /\ Rewritten \in EntrySet
          BY <1>3, <1>4, <5>1, RewrittenTyped DEF Rewritten, Tidy
        <5>3. Rewritten.left # 0
          BY <1>1, <3>1, <3>5, FinishQueue
        <5>4. queue' = [queue EXCEPT ![1] = Rewritten]
          BY <1>1, <3>5, <5>3 DEF Finish
        <5> HIDE DEF Rewritten
        <5>5. queue'[1] = Rewritten
          BY <3>2, <5>4
        <5> QED
          BY <3>3, <5>2, <5>5 DEF EntrySet
      <4>5. landed'.net + queue'[1].left = landed.net + queue[1].left
        BY <1>5, <3>3, <4>3, <4>4
      <4> QED
        BY <1>2, <3>1, <3>3, <4>4, <4>5 DEF Heads
    <3> QED
      BY <3>4, <3>5
  <2> QED
    BY <1>2, <2>1, <2>2, <2>3 DEF AccountInv, ReachInv, Active
<1> QED
  BY <1>11, <1>12, <1>13 DEF AccountInv

LEMMA AcceptedAccount ==
  ASSUME MoverInv, MoverInv', AccountInv, pc = "moverReport", batch' = batch, landed' = landed,
         Accept(MoverReport(mover)), mover' = [mover EXCEPT !.pending = TRUE],
         pc' \notin Handling
  PROVE  AccountInv'
<1>1. /\ Active /\ ~mover.pending /\ WantsReport(mover) /\ mover \in MoverSet /\ ~OwnWire
      /\ wire' = wire /\ told' = told /\ events' = events /\ generation' = generation
      /\ overflow' = overflow
  BY ReportQueued
<1>2. Seen' = Seen /\ FullInv'
  BY <1>1, SeenStays DEF AccountInv, Handling
<1>3. /\ mover'.key = mover.key /\ mover'.dx = mover.dx /\ mover'.out = mover.out
      /\ mover'.back = mover.back /\ mover'.pending /\ Active'
  BY <1>1 DEF MoverSet, Active
<1>4. Residual(mover') = Residual(mover) /\ Residual(mover) = landed.net
      /\ Residual(mover) = mover.out + mover.back
  BY <1>1, <1>3 DEF Residual, AccountInv, LedgerInv, Balanced
<1>5. landed.net \in Int /\ mover.dx \in Int /\ mover.out \in Int /\ mover.back \in Int
  BY <1>1 DEF MoverInv, MoverTypes, MoverSet, LandedSet
<1>6. LedgerInv'
  <2>1. Totals(mover.key, Seen, landed.net, landed.net)
    BY <1>1, <1>5, SeenPart, NothingSeen, TotalsQuiet
  <2>2. Totals(mover'.key, Seen', Residual(mover'), landed'.net)
    BY <1>2, <1>3, <1>4, <2>1
  <2> QED
    BY <1>3, <2>2 DEF LedgerInv
<1>7. ReachInv'
  <2>1. PICK e \in EntrySet : /\ queue' = <<e>> /\ e.kind = MoverReport(mover).kind
                              /\ e.left = MoverReport(mover).x
    BY ReportQueued
  <2>2. e.kind = "TRANSACTION_OUT" => landed.net + e.left = mover.dx
    <3>1. SUFFICES ASSUME e.kind = "TRANSACTION_OUT" PROVE landed.net + e.left = mover.dx
      OBVIOUS
    <3>2. mover.stage = "Out" /\ e.left = mover.dx
      BY <1>1, <2>1, <3>1, MoverReports
    <3>3. landed.net = 0
      BY <1>1, <1>4, <3>2 DEF AccountInv, ReachInv
    <3> QED
      BY <1>5, <3>2, <3>3
  <2>3. e.kind = "TRANSACTION_RETURN" => landed.net + e.left = 0
    <3>1. SUFFICES ASSUME e.kind = "TRANSACTION_RETURN" PROVE landed.net + e.left = 0
      OBVIOUS
    <3>2. e.left = -(mover.out + mover.back)
      BY <1>1, <2>1, <3>1, MoverReports
    <3> QED
      BY <1>4, <1>5, <3>2
  <2>4. \A j \in DOMAIN queue' : queue'[j] = e
    BY <2>1
  <2>5. \A j \in DOMAIN queue' : Heads(queue[j])'
    BY <1>3, <2>2, <2>3, <2>4 DEF Heads
  <2>6. ~OwnWire'
    BY <1>1, <1>3 DEF OwnWire, Own, OwnReport, Written
  <2> QED
    BY <1>3, <2>5, <2>6 DEF ReachInv, AccountInv
<1> QED
  BY <1>2, <1>6, <1>7 DEF AccountInv

LEMMA EnqueueAccount ==
  ASSUME MoverInv, MoverInv', AccountInv, EnqueueMover
  PROVE  AccountInv'
<1>1. /\ pc = "moverReport" /\ landed' = landed /\ batch' = batch
      /\ Tocked => pc' \in {"moverReport", "receive"}
  BY DEF EnqueueMover, KeepServer, loopVars, Tocked
<1>2. CASE Accept(MoverReport(mover)) /\ mover' = [mover EXCEPT !.pending = TRUE] /\ Tocked
  BY <1>1, <1>2, AcceptedAccount DEF Handling
<1>3. CASE Refuse("QueueFull") /\ Tocked /\ UNCHANGED mover
  BY <1>1, <1>3, SameSettles, QuietAccount DEF Refuse, Handling
<1>4. CASE /\ mover' = StopMover(mover, "EndpointChanged")
           /\ pc' = "moverReset" /\ UNCHANGED <<outputVars, ticked>>
  <2>1. MoverSettles
    BY <1>4, StopSettles DEF Statuses
  <2> QED
    BY <1>1, <1>4, <2>1, QuietAccount DEF Handling
<1> QED
  BY <1>2, <1>3, <1>4 DEF EnqueueMover

LEMMA ExecuteAccount ==
  ASSUME MoverInv, MoverInv', AccountInv, NEW peer \in Peers, NEW key \in Keys, NEW r \in Requests,
         ReceiveExecute(peer, key, r)
  PROVE  AccountInv'
<1>1. /\ UNCHANGED outputVars /\ batch' = batch /\ pc = "receive" /\ pc' = "top"
      /\ landed' = NothingLanded /\ queue = <<>>
      /\ mover' = [Idle EXCEPT !.status = "Active", !.stage = "Out", !.key = key,
                               !.generation = generation, !.dx = r.dx, !.button = r.button,
                               !.wait = r.wait]
  BY DEF ReceiveExecute, Receive, SoleOwner, Done
<1>2. mover'.key = key /\ key > latest
  BY ReceiveExecuteKeeps
<1>3. /\ wire' = wire /\ told' = told /\ events' = events /\ overflow' = overflow /\ queue' = <<>>
  BY <1>1 DEF outputVars
<1>4. FullInv'
  BY <1>1, <1>3, SeenStays DEF AccountInv, Handling
<1>5. mover'.out = 0 /\ mover'.back = 0 /\ ~mover'.pending /\ landed'.net = 0 /\ mover'.dx = r.dx
  BY <1>1 DEF Idle, NothingLanded
<1>6. Residual(mover') = 0
  BY <1>5 DEF Residual
<1>7. LedgerInv'
  BY <1>5, <1>6 DEF LedgerInv, Balanced
<1>8. ~OwnWire'
  <2>1. Written' = Written
    BY <1>3 DEF Written
  <2>2. wire # <<>> /\ Guarded(Written) => Written.key[1] \in 0 .. latest
    BY DEF MoverInv, WireInv
  <2>3. latest \in Nat /\ key \in Nat
    BY ServerLimits, Typed DEF MoverInv, Tidy, Keys
  <2> QED
    BY <1>2, <1>3, <2>1, <2>2, <2>3 DEF OwnWire, Own, OwnReport, Guarded
<1>9. ReachInv'
  <2>1. r.dx \in Int
    BY MoveInputs
  <2>2. 0 \in Span(r.dx)
    BY <2>1 DEF Span
  <2> QED
    BY <1>3, <1>5, <1>6, <1>8, <2>2 DEF ReachInv
<1> QED
  BY <1>4, <1>7, <1>9 DEF AccountInv

-----------------------------------------------------------------------------
(* The ledger holds.                                                       *)

LEMMA MoveInitAccount == MoveInit => AccountInv
<1> SUFFICES ASSUME MoveInit PROVE AccountInv
  OBVIOUS
<1>1. mover = Idle /\ landed = NothingLanded /\ queue = <<>> /\ wire = <<>> /\ ~overflow
  BY DEF MoveInit, Init, OutputInit
<1>2. mover.key = NoKey /\ ~Active /\ mover.dx = 0 /\ landed.net = 0
  BY <1>1 DEF Idle, NothingLanded, Active
<1>3. FullInv
  BY <1>1 DEF FullInv
<1>4. LedgerInv
  BY <1>2 DEF LedgerInv
<1>5. 0 \in Span(0) /\ DOMAIN queue = {}
  BY <1>1 DEF Span
<1>6. ReachInv
  BY <1>1, <1>2, <1>5 DEF ReachInv, OwnWire
<1> QED
  BY <1>3, <1>4, <1>6 DEF AccountInv

LEMMA AccountStepKeeps ==
  MoverInv /\ MoverInv' /\ AccountInv /\ [MoveNext]_moveVars => AccountInv'
<1> SUFFICES ASSUME MoverInv, MoverInv', AccountInv, [MoveNext]_moveVars PROVE AccountInv'
  OBVIOUS
<1>1. CASE TickOver \/ TickNothing \/ TickStage \/ TickWants \/ EnqueueMover
  BY <1>1, TicksAccount, EnqueueAccount
<1>2. CASE ResetMover \/ LoopStops \/ AskedToStop \/ MoverFails
  BY <1>2, ClearedAccount
<1>3. CASE MoverProgresses
  BY <1>3, ProgressAccount
<1>4. CASE Unmoved
  BY <1>4, UnmovedAccount
<1>5. CASE MoverHold
  BY <1>5, IdleAccount DEF MoverHold, KeepMover
<1>6. CASE MovePacket
  BY <1>6, ExecuteAccount, ControlAccount DEF MovePacket
<1>7. CASE MoverLapse \/ PhysicalArrives \/ UNCHANGED moveVars
  BY <1>7, IdleAccount DEF MoverLapse, PhysicalArrives, moveVars, moverVars
<1>8. CASE WriterTakesGuarded \/ WriterLands
  BY <1>8, TakesAccount, LandsAccount
<1>9. CASE EndpointActs
  BY <1>9, EndpointAccount, TellAccount DEF EndpointActs, moverVars
<1> QED
  BY <1>1, <1>2, <1>3, <1>4, <1>5, <1>6, <1>7, <1>8, <1>9 DEF MoveNext, MoveLoop

(* The inductive invariant of the ledger: whatever is lost, stopped or     *)
(* written late, what the client has been told of and what the events to   *)
(* come will tell add up to what the host was moved, and no report on its  *)
(* way moves the host out of the reach of the request.                     *)
THEOREM AccountCorrect == MoveSpec => []AccountInv
<1>1. MoverInv /\ [MoveNext]_moveVars => MoverInv'
  BY MoverStepKeeps
<1> QED
  BY <1>1, MoverCorrect, MoveInitAccount, AccountStepKeeps, PTL DEF MoveSpec

(* The residual a client is told of a transaction that has ended is where  *)
(* the host was left, unless the outcome is flagged uncertain: USAGE.md,   *)
(* 'residual is outward plus return'.                                      *)
THEOREM LedgerIsHonest == MoveSpec => []LedgerHonest
<1>1. AccountInv => LedgerHonest
  BY DEF AccountInv, LedgerInv, Balanced, LedgerHonest
<1> QED
  BY <1>1, AccountCorrect, PTL

(* The host is never moved beyond what was asked, nor back beyond where it *)
(* started, however reports are split, lost or written late.               *)
THEOREM NeverTooFar == MoveSpec => []NeverOvershoots
<1>1. AccountInv => NeverOvershoots
  BY DEF AccountInv, ReachInv, Span, NeverOvershoots
<1> QED
  BY <1>1, AccountCorrect, PTL

-----------------------------------------------------------------------------
(* The stages of a transaction, its press and its release.                 *)

(* What a stage says of the press and the release: none before the press   *)
(* has been written, a press to be released until the release has been;    *)
(* one that has a button and has not been cancelled comes to its delay by  *)
(* way of the press.                                                       *)
StageOK(m) ==
  /\ m.stage \in {"Out", "Settle", "Waiting", "Press"} => ~m.pressed /\ ~m.released
  /\ m.stage \in {"Hold", "Release"} => m.pressed /\ ~m.released
  /\ m.stage \in {"Delay", "Return"} =>
       (m.pressed => m.released) /\ (m.cancelled \/ m.button = NoButton \/ m.pressed)
  /\ m.stage = "Press" \/ m.pressed => m.button # NoButton

(* There has been a press, and its release is accepted or the transaction  *)
(* has ended.                                                              *)
PressOver(m) ==
  m.pressed /\ (Running(m) => m.stage # "Hold" /\ (m.stage = "Release" => m.pending))

(* The stage whose report has this kind.                                   *)
StageOf(kind) ==
  CASE kind = "TRANSACTION_OUT" -> "Out"
    [] kind = "TRANSACTION_PRESS" -> "Press"
    [] kind = "TRANSACTION_RELEASE" -> "Release"
    [] kind = "TRANSACTION_RETURN" -> "Return"

LEMMA DivertedStage ==
  ASSUME NEW m \in MoverSet, Running(m), ~m.pending, StageOK(m)
  PROVE  /\ StageOK(Diverted(m))
         /\ PressOver(Diverted(m)) => PressOver(m)
         /\ WantsReport(Diverted(m)) \/ MayWait(Diverted(m)) => Diverted(m).stage # "Hold"
              \/ Diverted(m) = m
<1>1. CASE Diverted(m) = m
  BY <1>1
<1>2. CASE /\ m.cancelled /\ m.stage # "Return" /\ m.pressed /\ ~m.released
           /\ Diverted(m) = [m EXCEPT !.stage = "Release"]
  BY <1>2 DEF StageOK, PressOver, MoverSet, Running
<1>3. CASE /\ m.cancelled /\ m.stage # "Return" /\ ~(m.pressed /\ ~m.released)
           /\ Diverted(m) = [m EXCEPT !.stage = "Delay"]
  BY <1>3 DEF StageOK, PressOver, MoverSet, Running
<1> QED
  BY <1>1, <1>2, <1>3 DEF Diverted, Enter

LEMMA WaitedStage ==
  ASSUME NEW m \in MoverSet, Running(m), ~m.pending, m.stage \notin Resting, ~WantsReport(m),
         StageOK(m)
  PROVE  StageOK(Waited(m)) /\ (PressOver(Waited(m)) => PressOver(m))
<1>1. m.stage \in {"Out", "Settle", "Waiting", "Hold", "Delay"}
  BY DEF WantsReport, MoverSet, Stages, Resting
<1>2. CASE m.stage = "Out"
  <2>1. Waited(m) = [m EXCEPT !.stage = "Settle"]
    BY <1>2 DEF Waited, Enter
  <2> QED
    BY <1>2, <2>1 DEF StageOK, PressOver, MoverSet, Running
<1>3. ASSUME m.stage \in {"Settle", "Waiting"}, NEW stage \in {"Waiting", ActionStage(m)},
             Waited(m) = [m EXCEPT !.stage = stage]
      PROVE  StageOK(Waited(m)) /\ (PressOver(Waited(m)) => PressOver(m))
  BY <1>3 DEF ActionStage, StageOK, PressOver, MoverSet, Running
<1>4. CASE m.stage = "Settle"
  <2>1. \E stage \in {"Waiting", ActionStage(m)} : Waited(m) = [m EXCEPT !.stage = stage]
    BY <1>4 DEF Waited, Enter
  <2> QED
    BY <1>3, <1>4, <2>1
<1>5. CASE m.stage = "Waiting"
  <2>1. CASE m.continued
    <3>1. Waited(m) = [m EXCEPT !.stage = ActionStage(m)]
      BY <1>5, <2>1 DEF Waited, Enter
    <3> QED
      BY <1>3, <1>5, <3>1
  <2>2. CASE ~m.continued
    <3>1. Waited(m) = [m EXCEPT !.stage = "Delay", !.cancelled = TRUE]
      BY <1>5, <2>2 DEF Waited, Enter, MoverSet
    <3> QED
      BY <1>5, <3>1 DEF StageOK, PressOver, MoverSet, Running
  <2> QED
    BY <2>1, <2>2
<1>6. CASE m.stage = "Hold"
  <2>1. Waited(m) = [m EXCEPT !.stage = "Release"]
    BY <1>6 DEF Waited, Enter
  <2> QED
    BY <1>6, <2>1 DEF StageOK, PressOver, MoverSet, Running
<1>7. CASE m.stage = "Delay"
  <2>1. Waited(m) = Finished(m) \/ Waited(m) = [m EXCEPT !.stage = "Return"]
    BY <1>7 DEF Waited, Enter
  <2>2. Finished(m).stage = "Done" /\ Finished(m).pressed = m.pressed
       /\ Finished(m).button = m.button
    BY DEF Finished, MoverSet
  <2>3. CASE Waited(m) = Finished(m)
    BY <1>7, <2>2, <2>3 DEF StageOK, PressOver
  <2>4. CASE Waited(m) = [m EXCEPT !.stage = "Return"]
    BY <1>7, <2>4 DEF StageOK, PressOver, MoverSet, Running
  <2> QED
    BY <2>1, <2>3, <2>4
<1> QED
  BY <1>1, <1>2, <1>4, <1>5, <1>6, <1>7

(* What an event makes of them, when it is of the stage waited for.        *)
LEMMA EventStage ==
  ASSUME NEW m \in MoverSet, Running(m) => StageOK(m), NEW e \in EventSet, e.success,
         Concerns(m, e) => m.stage = StageOf(e.kind) /\ m.pending
  PROVE  /\ Running(OnEvent(m, e)) => StageOK(OnEvent(m, e))
         /\ PressOver(OnEvent(m, e)) => PressOver(m)
<1>1. CASE ~Concerns(m, e)
  <2>1. OnEvent(m, e) = m
    BY <1>1 DEF Concerns, OnEvent, Running
  <2> QED
    BY <2>1
<1>2. CASE Concerns(m, e) /\ ~e.finished
  <2> DEFINE c == Credited(m, e)
  <2>1. OnEvent(m, e) = c
    BY <1>2 DEF Concerns, OnEvent, Running
  <2>2. /\ c.stage = m.stage /\ c.pressed = m.pressed /\ c.released = m.released
        /\ c.cancelled = m.cancelled /\ c.pending = m.pending /\ c.status = m.status
        /\ c.button = m.button
    BY CreditedTyped DEF SameRequest
  <2> HIDE DEF c
  <2> QED
    BY <1>2, <2>1, <2>2 DEF Concerns, StageOK, PressOver, Running
<1>3. CASE Concerns(m, e) /\ e.finished
  <2> DEFINE c == Credited(m, e)
             d == [c EXCEPT !.pending = FALSE]
  <2>1. OnEvent(m, e) = Advance(d, e)
    BY <1>3 DEF Concerns, OnEvent, Running
  <2>2. /\ c \in MoverSet
        /\ c.stage = m.stage /\ c.pressed = m.pressed /\ c.released = m.released
        /\ c.cancelled = m.cancelled /\ c.status = m.status /\ c.button = m.button
    BY CreditedTyped DEF SameRequest
  <2> HIDE DEF c
  <2>3. /\ d \in MoverSet /\ ~d.pending
        /\ d.stage = m.stage /\ d.pressed = m.pressed /\ d.released = m.released
        /\ d.cancelled = m.cancelled /\ d.status = m.status /\ d.button = m.button
    BY <2>2 DEF MoverSet
  <2> HIDE DEF d
  <2>4. Running(m) /\ StageOK(m) /\ m.stage = StageOf(e.kind) /\ m.pending
        /\ e.kind \in Transactions
    BY <1>3 DEF Concerns
  <2>5. CASE e.kind = "TRANSACTION_OUT"
    <3>1. Advance(d, e) = [d EXCEPT !.stage = "Settle"] /\ m.stage = "Out"
      BY <2>4, <2>5 DEF Advance, Enter, StageOf
    <3> QED
      BY <2>1, <2>3, <2>4, <3>1 DEF StageOK, PressOver, Running, MoverSet
  <2>6. CASE e.kind = "TRANSACTION_PRESS"
    <3>1. m.stage = "Press"
      BY <2>4, <2>6 DEF StageOf
    <3>2. CASE e.blocked
      <4>1. Advance(d, e) = StopMover(d, "ButtonActive")
        BY <2>6, <3>2 DEF Advance
      <4>2. Advance(d, e).pressed = d.pressed /\ ~Running(Advance(d, e))
        BY <2>3, <2>4, <4>1 DEF StopMover, MoverSet, Running
      <4> QED
        BY <2>1, <2>3, <2>4, <3>1, <4>2 DEF StageOK, PressOver
    <3>3. CASE ~e.blocked
      <4>1. Advance(d, e) = [d EXCEPT !.stage = "Hold", !.pressed = TRUE]
        BY <2>3, <2>6, <3>3 DEF Advance, Enter, MoverSet
      <4> QED
        BY <2>1, <2>3, <2>4, <3>1, <4>1 DEF StageOK, PressOver, Running, MoverSet
    <3> QED
      BY <3>2, <3>3
  <2>7. CASE e.kind = "TRANSACTION_RELEASE"
    <3>1. Advance(d, e) = [d EXCEPT !.stage = "Delay", !.released = TRUE] /\ m.stage = "Release"
      BY <2>3, <2>4, <2>7 DEF Advance, Enter, StageOf, MoverSet
    <3> QED
      BY <2>1, <2>3, <2>4, <3>1 DEF StageOK, PressOver, Running, MoverSet
  <2>8. CASE e.kind = "TRANSACTION_RETURN"
    <3>1. Advance(d, e) = Finished(d) /\ m.stage = "Return"
      BY <2>4, <2>8 DEF Advance, StageOf
    <3>2. Finished(d).pressed = d.pressed /\ ~Running(Finished(d))
      BY <2>3 DEF Finished, MoverSet, Running
    <3> QED
      BY <2>1, <2>3, <2>4, <3>1, <3>2 DEF StageOK, PressOver
  <2> QED
    BY <2>4, <2>5, <2>6, <2>7, <2>8 DEF Transactions, Forced
<1> QED
  BY <1>1, <1>2, <1>3

-----------------------------------------------------------------------------
(* The reports of the transaction that are queued, in the writer thread or *)
(* told of are of the stage that waits for them.                           *)

OwnAround(kind) ==
  \/ \E j \in DOMAIN queue : Own(queue[j]) /\ queue[j].kind = kind
  \/ OwnWire /\ Written.kind = kind
  \/ \E i \in DOMAIN Coming : Own(Coming[i]) /\ Coming[i].kind = kind

StageInv == Active => StageOK(mover)
KindInv == Active => \A kind : OwnAround(kind) => mover.stage = StageOf(kind)
FlagsInv == StageInv /\ KindInv

LEMMA NothingAround ==
  ASSUME MoverInv, Active, ~mover.pending
  PROVE  \A kind : ~OwnAround(kind)
<1>1. ~GuardedQueued /\ ~OwnWire /\ \A i \in DOMAIN Coming : ~Own(Coming[i])
  BY OwnedNow DEF Owned, Running, Active, MoverInv, ComingInv, Timely
<1> QED
  BY <1>1 DEF OwnAround, GuardedQueued, Guarded, Own, OwnReport

LEMMA NothingAroundNext ==
  ASSUME MoverInv', Active', ~mover'.pending
  PROVE  \A kind : ~OwnAround(kind)'
<1>1. (GuardedQueued \/ OwnWire => Owned(mover))'
  BY DEF MoverInv, WireInv, GuardedInv
<1>2. ~Owned(mover)'
  BY DEF Owned, Running, Active
<1>3. ~GuardedQueued' /\ ~OwnWire' /\ \A i \in DOMAIN Coming' : ~Own(Coming[i])'
  BY <1>1, <1>2 DEF Active, MoverInv, ComingInv, Timely
<1> QED
  BY <1>3 DEF OwnAround, GuardedQueued, Guarded, Own, OwnReport

(* While a report is waited for the stage stays and no other report of the *)
(* transaction appears.                                                    *)
LEMMA KindKept ==
  ASSUME MoverInv', KindInv,
         Active' /\ mover'.pending =>
           /\ Active /\ mover'.stage = mover.stage
           /\ \A kind : OwnAround(kind)' => OwnAround(kind)
  PROVE  KindInv'
<1>1. CASE Active' /\ ~mover'.pending
  BY <1>1, NothingAroundNext DEF KindInv
<1>2. CASE Active' /\ mover'.pending
  BY <1>2 DEF KindInv
<1> QED
  BY <1>1, <1>2 DEF KindInv

LEMMA AroundStays ==
  ASSUME mover'.key = mover.key, wire' = wire \/ wire' = <<>>,
         queue' = queue \/ DOMAIN queue' = {},
         \E s \in Nat : PartOf(Coming', Coming, s)
  PROVE  \A kind : OwnAround(kind)' => OwnAround(kind)
<1>1. \A r : Own(r)' <=> Own(r)
  BY DEF Own, OwnReport
<1>2. OwnWire' => OwnWire /\ Written' = Written
  BY <1>1 DEF OwnWire, Own, OwnReport, Written
<1> QED
  BY <1>1, <1>2 DEF OwnAround, PartOf, Own, OwnReport

LEMMA SameComing ==
  ASSUME UNCHANGED <<batch, events, told>>
  PROVE  PartOf(Coming', Coming, 0) /\ Coming' = Coming
  BY DEF Coming, PartOf

(* Steps that leave the flags as they are.                                 *)
SameFlags ==
  /\ mover'.key = mover.key
  /\ Active' =>
       /\ Active /\ mover'.stage = mover.stage /\ mover'.pressed = mover.pressed
       /\ mover'.released = mover.released /\ mover'.button = mover.button
       /\ mover.cancelled => mover'.cancelled

LEMMA FlagsStay ==
  ASSUME MoverInv, MoverInv', FlagsInv, SameFlags, UNCHANGED <<batch, outputVars>>
  PROVE  FlagsInv'
<1>1. PartOf(Coming', Coming, 0)
  BY SameComing DEF outputVars
<1>2. \A kind : OwnAround(kind)' => OwnAround(kind)
  BY <1>1, AroundStays DEF SameFlags, outputVars
<1>3. KindInv'
  BY <1>2, KindKept DEF FlagsInv, SameFlags
<1>4. StageInv'
  BY DEF FlagsInv, StageInv, StageOK, SameFlags
<1> QED
  BY <1>3, <1>4 DEF FlagsInv

LEMMA FlagsEnd ==
  ~Active' => FlagsInv'
  BY DEF FlagsInv, StageInv, KindInv

LEMMA SameMoverFlags ==
  mover' = mover => SameFlags /\ (StageInv => StageInv')
  BY DEF SameFlags, StageInv, Active

LEMMA TicksFlags ==
  ASSUME MoverInv, MoverInv', FlagsInv, TickOver \/ TickNothing \/ TickStage \/ TickWants
  PROVE  FlagsInv' /\ (PressOver(mover)' => PressOver(mover) \/ pc' = "moverReset")
<1>1. /\ UNCHANGED outputVars /\ batch' = batch /\ Active
  BY DEF TickOver, TickNothing, TickStage, TickWants, MoverTurn, KeepServer, loopVars
<1>2. mover \in MoverSet /\ mover.stage \notin Resting /\ Running(mover) /\ StageOK(mover)
  BY <1>1 DEF MoverInv, MoverTypes, Active, Running, FlagsInv, StageInv
<1>3. CASE TickOver
  <2>1. mover' = StopMover(mover, WhyOver) /\ WhyOver \in Statuses \ {"Active"}
       /\ pc' = "moverReset"
    BY <1>3 DEF TickOver, WhyOver, Statuses
  <2>2. ~Active'
    BY <1>2, <2>1, StopEnds DEF Ends, Active, Running
  <2> QED
    BY <2>1, <2>2, FlagsEnd
<1>4. CASE mover' = mover
  BY <1>1, <1>4, SameMoverFlags, FlagsStay DEF PressOver, Running
<1>5. ASSUME ~mover.pending PROVE GoesOn(mover, Diverted(mover)) /\ Running(Diverted(mover))
        /\ StageOK(Diverted(mover)) /\ (PressOver(Diverted(mover)) => PressOver(mover))
  BY <1>2, <1>5, DivertedGoesOn, DivertedStage
<1>6. ASSUME ~mover.pending, mover' = Diverted(mover)
      PROVE  FlagsInv' /\ (PressOver(mover)' => PressOver(mover))
  <2>1. ~mover'.pending /\ StageOK(mover') /\ (PressOver(mover') => PressOver(mover))
    BY <1>5, <1>6 DEF GoesOn
  <2>2. KindInv'
    BY <2>1, KindKept DEF FlagsInv
  <2>3. StageInv'
    BY <2>1 DEF StageInv, StageOK
  <2> QED
    BY <2>1, <2>2, <2>3 DEF FlagsInv, PressOver, Running
<1>7. CASE TickNothing \/ TickWants
  BY <1>4, <1>6, <1>7 DEF TickNothing, TickWants
<1>8. CASE TickStage
  <2> DEFINE d == Diverted(mover)
  <2>1. ~mover.pending /\ ~WantsReport(d) /\ mover' = Waited(d)
    BY <1>8 DEF TickStage
  <2>2. GoesOn(mover, d) /\ Running(d) /\ StageOK(d) /\ (PressOver(d) => PressOver(mover))
    BY <1>5, <2>1
  <2> HIDE DEF d
  <2>3. d \in MoverSet /\ ~d.pending /\ d.stage \notin Resting
    BY <2>2 DEF GoesOn
  <2>4. /\ GoesOn(d, Waited(d)) /\ StageOK(Waited(d)) /\ (PressOver(Waited(d)) => PressOver(d))
    BY <2>1, <2>2, <2>3, WaitedGoesOn, WaitedStage
  <2>5. ~mover'.pending /\ StageOK(mover') /\ (PressOver(mover') => PressOver(mover))
    BY <2>1, <2>2, <2>4 DEF GoesOn
  <2>6. KindInv'
    BY <2>5, KindKept DEF FlagsInv
  <2>7. StageInv'
    BY <2>5 DEF StageInv, StageOK
  <2> QED
    BY <2>5, <2>6, <2>7 DEF FlagsInv, PressOver, Running
<1> QED
  BY <1>3, <1>7, <1>8

LEMMA ReportStage ==
  ASSUME NEW m \in MoverSet, WantsReport(m)
  PROVE  /\ m.stage = StageOf(MoverReport(m).kind)
         /\ MoverReport(m).persistent = {} /\ MoverReport(m).button = m.button
         /\ MoverReport(m).scheduled = IF m.stage = "Press" THEN {m.button} ELSE {}
<1>1. m.stage \in {"Out", "Press", "Release", "Return"}
  BY DEF WantsReport
<1> DEFINE r == MoverReport(m)
<1>2. /\ m.stage = "Out" => r = Report("TRANSACTION_OUT", m.key, 0, {}, {}, m.button, m.dx, FALSE)
      /\ m.stage = "Press" =>
           r = Report("TRANSACTION_PRESS", m.key, 0, {}, {m.button}, m.button, 0, FALSE)
      /\ m.stage = "Release" =>
           r = Report("TRANSACTION_RELEASE", m.key, 0, {}, {}, m.button, 0, FALSE)
      /\ m.stage = "Return" =>
           r = Report("TRANSACTION_RETURN", m.key, 0, {}, {}, m.button, -Residual(m), FALSE)
  BY DEF MoverReport
<1> HIDE DEF r
<1>3. /\ m.stage = "Out" => r.kind = "TRANSACTION_OUT" /\ r.scheduled = {}
      /\ m.stage = "Press" => r.kind = "TRANSACTION_PRESS" /\ r.scheduled = {m.button}
      /\ m.stage = "Release" => r.kind = "TRANSACTION_RELEASE" /\ r.scheduled = {}
      /\ m.stage = "Return" => r.kind = "TRANSACTION_RETURN" /\ r.scheduled = {}
      /\ r.persistent = {} /\ r.button = m.button
  BY <1>1, <1>2 DEF Report
<1> QED
  BY <1>1, <1>3 DEF StageOf, r

LEMMA EnqueueFlags ==
  ASSUME MoverInv, MoverInv', FlagsInv, EnqueueMover
  PROVE  FlagsInv'
<1>1. pc = "moverReport" /\ batch' = batch /\ Active /\ mover \in MoverSet /\ WantsReport(mover)
  BY DEF EnqueueMover, KeepServer, loopVars, MoverInv, TurnInv, MoverTypes
<1>2. CASE Accept(MoverReport(mover)) /\ mover' = [mover EXCEPT !.pending = TRUE]
  <2> DEFINE c == MoverReport(mover)
  <2>1. /\ mover'.stage = mover.stage /\ mover'.pressed = mover.pressed
        /\ mover'.released = mover.released /\ mover'.cancelled = mover.cancelled
        /\ mover'.button = mover.button /\ mover'.key = mover.key
    BY <1>1, <1>2 DEF MoverSet
  <2>2. StageInv'
    BY <1>1, <2>1 DEF FlagsInv, StageInv, StageOK
  <2>3. mover.stage = StageOf(c.kind)
    BY <1>1, ReportStage
  <2> HIDE DEF c
  <2>4. PICK e \in EntrySet : queue' = <<e>> /\ e.kind = c.kind
    BY <1>1, <1>2, ReportQueued DEF c
  <2>5. /\ ~OwnWire /\ (\A i \in DOMAIN Coming : ~Own(Coming[i]))
        /\ wire' = wire /\ told' = told /\ events' = events
    BY <1>1, <1>2, ReportQueued
  <2>6. Coming' = Coming /\ Written' = Written
    BY <1>1, <2>5 DEF Coming, Written
  <2>7. \A r : Own(r)' <=> Own(r)
    BY <2>1 DEF Own, OwnReport
  <2>8. \A kind : OwnAround(kind)' => kind = c.kind
    BY <2>4, <2>5, <2>6, <2>7 DEF OwnAround, OwnWire, Own, OwnReport
  <2>9. KindInv'
    BY <2>1, <2>3, <2>8 DEF KindInv
  <2> QED
    BY <2>2, <2>9 DEF FlagsInv
<1>3. CASE Refuse("QueueFull") /\ UNCHANGED mover
  BY <1>1, <1>3, SameMoverFlags, FlagsStay DEF Refuse
<1>4. CASE mover' = StopMover(mover, "EndpointChanged")
  <2>1. ~Active'
    BY <1>1, <1>4, StopEnds DEF Ends, Active, Running, Statuses
  <2> QED
    BY <2>1, FlagsEnd
<1> QED
  BY <1>2, <1>3, <1>4 DEF EnqueueMover

LEMMA StopsFlags ==
  ASSUME MoverInv, FlagsInv, ResetMover \/ LoopStops \/ AskedToStop \/ MoverFails
  PROVE  FlagsInv' /\ mover'.pressed = mover.pressed
<1>1. mover \in MoverSet
  BY DEF MoverInv, MoverTypes
<1>2. \A reason : StopMover(mover, reason).pressed = mover.pressed
  BY <1>1 DEF StopMover, MoverSet
<1>3. CASE ResetMover
  BY <1>3, FlagsEnd DEF ResetMover, MoverInv, SoleUse, Active
<1>4. CASE LoopStops \/ AskedToStop
  <2>1. mover' = StopMover(mover, "Cancelled")
    BY <1>4 DEF LoopStops, AskedToStop, CancelMover
  <2>2. ~Active'
    BY <1>1, <2>1, StopEnds DEF Ends, Active, Running, Statuses
  <2> QED
    BY <1>2, <2>1, <2>2, FlagsEnd
<1>5. CASE MoverFails
  <2>1. mover' = StopMover(OnEvent(mover, Event), "Cancelled") /\ ~Event.success
    BY <1>5 DEF MoverFails, HandleFailure
  <2>2. OnEvent(mover, Event) \in {mover, StopMover(mover, "WriterFailed")}
    BY <2>1 DEF OnEvent
  <2>3. mover' \in {StopMover(mover, "Cancelled"), StopMover(mover, "WriterFailed")}
    <3>1. CASE mover.status = "Active"
      <4>1. StopMover(mover, "WriterFailed").status # "Active"
        BY <1>1, <3>1 DEF StopMover, MoverSet
      <4> QED
        BY <2>1, <2>2, <4>1 DEF StopMover
    <3>2. CASE mover.status # "Active"
      BY <2>1, <2>2, <3>2 DEF StopMover
    <3> QED
      BY <3>1, <3>2
  <2>4. ~Active'
    BY <1>1, <2>3, StopEnds DEF Ends, Active, Running, Statuses
  <2> QED
    BY <1>2, <2>3, <2>4, FlagsEnd
<1> QED
  BY <1>3, <1>4, <1>5

LEMMA ControlFlags ==
  ASSUME MoverInv, MoverInv', FlagsInv, NEW peer \in Peers,
         NEW operation \in {"Continue", "Cancel", "Query"}, ReceiveControl(peer, operation)
  PROVE  FlagsInv' /\ (PressOver(mover)' => PressOver(mover))
<1> DEFINE go == mover.continued \/ (operation = "Continue" /\ Active /\ mover.stage = "Waiting")
           no == mover.cancelled \/ (operation = "Cancel" /\ Active)
<1>1. mover \in MoverSet
  BY DEF MoverInv, MoverTypes
<1>2. mover' = [mover EXCEPT !.continued = go, !.cancelled = no]
  BY <1>1 DEF ReceiveControl, MoverSet
<1>3. mover.cancelled => no
  OBVIOUS
<1> HIDE DEF go, no
<1>4. /\ mover'.stage = mover.stage /\ mover'.pressed = mover.pressed
      /\ mover'.released = mover.released /\ mover'.cancelled = no /\ mover'.pending = mover.pending
      /\ mover'.button = mover.button /\ mover'.key = mover.key /\ mover'.status = mover.status
  BY <1>1, <1>2 DEF MoverSet
<1>5. SameFlags /\ (PressOver(mover)' => PressOver(mover))
  BY <1>3, <1>4 DEF SameFlags, Active, PressOver, Running
<1>6. UNCHANGED <<batch, outputVars>>
  BY DEF ReceiveControl, loopVars
<1> QED
  BY <1>5, <1>6, FlagsStay

LEMMA ExecuteFlags ==
  ASSUME MoverInv', NEW peer \in Peers, NEW key \in Keys, NEW r \in Requests,
         ReceiveExecute(peer, key, r)
  PROVE  FlagsInv' /\ ~mover'.pressed /\ ~mover'.released /\ ~mover'.pending
<1>1. mover' = [Idle EXCEPT !.status = "Active", !.stage = "Out", !.key = key,
                           !.generation = generation, !.dx = r.dx, !.button = r.button,
                           !.wait = r.wait]
  BY DEF ReceiveExecute
<1>2. /\ mover'.stage = "Out" /\ ~mover'.pressed /\ ~mover'.released /\ ~mover'.pending
      /\ mover'.status = "Active"
  <2> DEFINE i == Idle
  <2>1. i \in MoverSet /\ ~i.pressed /\ ~i.released /\ ~i.pending
    BY IdleTyped DEF Idle
  <2> HIDE DEF i
  <2>2. mover' = [i EXCEPT !.status = "Active", !.stage = "Out", !.key = key,
                      !.generation = generation, !.dx = r.dx, !.button = r.button, !.wait = r.wait]
    BY <1>1 DEF i
  <2> QED
    BY <2>1, <2>2 DEF MoverSet
<1>3. \A kind : ~OwnAround(kind)'
  BY <1>2, NothingAroundNext DEF Active
<1> QED
  BY <1>2, <1>3 DEF FlagsInv, StageInv, KindInv, StageOK

LEMMA ProgressFlags ==
  ASSUME MoverInv, MoverInv', FlagsInv, MoverProgresses
  PROVE  FlagsInv' /\ (PressOver(mover)' => PressOver(mover))
<1>1. /\ pc = "handle" /\ Event.success /\ mover' = OnEvent(mover, Event)
      /\ UNCHANGED outputVars /\ batch' = Tail(batch)
  BY DEF MoverProgresses, HandleReleased, HandleOther, AfterEvent
<1>2. Tidy /\ batch # <<>>
  BY <1>1, Typed DEF MoverInv, ServerInv, ServerTypes, CallsReady
<1>3. Event = Coming[1] /\ 1 \in DOMAIN Coming /\ Event \in EventSet /\ PartOf(Coming', Coming, 1)
  BY <1>1, <1>2, HandledComing DEF Tidy, outputVars
<1>4. mover \in MoverSet /\ (Running(mover) => mover.stage \notin Resting)
  BY DEF MoverInv, MoverTypes, Running, Active
<1>5. GoesBy(mover, mover', Event)
  BY <1>1, <1>3, <1>4, EventEffect
<1>6. Concerns(mover, Event) => Own(Event) /\ Active
  BY DEF Concerns, Own, OwnReport, IsFor, Running, Active
<1>7. Concerns(mover, Event) => mover.stage = StageOf(Event.kind) /\ mover.pending
  BY <1>3, <1>6 DEF FlagsInv, KindInv, OwnAround, MoverInv, ComingInv, Timely
<1>8. /\ Running(mover') => StageOK(mover')
      /\ PressOver(mover') => PressOver(mover)
  BY <1>1, <1>3, <1>4, <1>7, EventStage DEF FlagsInv, StageInv, Running, Active
<1>9. Active' /\ mover'.pending => Active /\ mover'.stage = mover.stage
  <2> SUFFICES ASSUME Active', mover'.pending PROVE Active /\ mover'.stage = mover.stage
    OBVIOUS
  <2>1. Running(mover') /\ Running(mover)
    BY <1>5 DEF GoesBy, Running, Active
  <2>2. mover'.stage = mover.stage
    BY <1>5, <2>1 DEF GoesBy
  <2> QED
    BY <2>1, <2>2 DEF Running, Active
<1>10. \A kind : OwnAround(kind)' => OwnAround(kind)
  BY <1>1, <1>3, <1>5, AroundStays DEF GoesBy, SameRequest, outputVars
<1>11. KindInv'
  BY <1>9, <1>10, KindKept DEF FlagsInv
<1>12. StageInv'
  BY <1>8 DEF StageInv, StageOK, Running, Active
<1> QED
  BY <1>8, <1>11, <1>12 DEF FlagsInv, PressOver, Running

(* The loop's other steps leave a transaction alone.                       *)
LEMMA AsideFlags ==
  ASSUME MoverInv, MoverInv', FlagsInv,
         \/ Unmoved \/ MoverHold \/ MoverLapse \/ PhysicalArrives \/ UNCHANGED moveVars
  PROVE  FlagsInv' /\ mover' = mover
<1>1. mover' = mover
  BY DEF Unmoved, MoverHold, MoverLapse, PhysicalArrives, moverVars, moveVars
<1> SUFFICES ASSUME Active' PROVE FlagsInv'
  BY <1>1, FlagsEnd
<1>2. Active /\ ~releasePending /\ pc \notin {"hold", "stopping"}
  BY <1>1 DEF Active, MoverInv, SoleUse
<1>3. CASE \/ Top \/ Resnapshot \/ TickIdle \/ Timeout \/ (Watchdog /\ ~Silent) \/ TickRelease
           \/ EnqueueHold \/ LastRelease
           \/ MoverHold \/ MoverLapse \/ PhysicalArrives \/ UNCHANGED moveVars
  <2>1. UNCHANGED <<batch, outputVars>>
    BY <1>2, <1>3 DEF Top, Resnapshot, TickIdle, Timeout, Watchdog, TickRelease, EnqueueHold,
       LastRelease, MoverHold, MoverLapse, Lapse, PhysicalArrives, moveVars, vars, serverVars,
       loopVars
  <2> QED
    BY <1>1, <2>1, SameMoverFlags, FlagsStay
<1>4. CASE FetchEvents \/ FetchOverflow
  <2>1. Tidy /\ batch = <<>>
    BY <1>4, Typed DEF MoverInv, ComingInv, FetchEvents, FetchOverflow
  <2>2. Coming' = Coming
    <3>1. CASE FetchEvents
      BY <2>1, <3>1, FetchedComing DEF FetchEvents, Tidy
    <3>2. CASE FetchOverflow
      BY <3>2, SameComing DEF FetchOverflow, TakeOverflow, loopVars
    <3> QED
      BY <1>4, <3>1, <3>2
  <2>3. wire' = wire /\ queue' = queue
    BY <1>4 DEF FetchEvents, FetchOverflow, TakeEvents, TakeOverflow
  <2>4. PartOf(Coming', Coming, 0)
    BY <2>1, <2>2 DEF PartOf, Tidy
  <2>5. \A kind : OwnAround(kind)' => OwnAround(kind)
    BY <1>1, <2>3, <2>4, AroundStays
  <2>6. KindInv'
    BY <1>1, <1>2, <2>5, KindKept DEF FlagsInv
  <2> QED
    BY <1>1, <2>6, SameMoverFlags DEF FlagsInv
<1> QED
  BY <1>3, <1>4 DEF Unmoved

LEMMA OutputFlags ==
  ASSUME MoverInv, MoverInv', FlagsInv, WriterTakesGuarded \/ WriterLands \/ EndpointActs
  PROVE  FlagsInv' /\ mover' = mover
<1>1. mover' = mover /\ UNCHANGED batch
  BY DEF WriterTakesGuarded, WriterLands, EndpointActs, moverVars, serverVars, loopVars
<1>2. \A r : Own(r)' <=> Own(r)
  BY <1>1 DEF Own, OwnReport
<1>3. Tidy
  BY Typed DEF MoverInv
<1> SUFFICES ASSUME NEW kind, OwnAround(kind)' PROVE OwnAround(kind)
  <2>1. KindInv'
    BY <1>1, KindKept DEF FlagsInv, Active
  <2> QED
    BY <1>1, <2>1, SameMoverFlags DEF FlagsInv
<1>4. CASE WriterTakesGuarded
  <2>1. PICK k \in 0 .. Len(queue), giveUp \in BOOLEAN : Taking(k, giveUp)
    BY <1>4, ReportTaken DEF WriterTakesGuarded
  <2>2. GuardedQueued => queue' = queue
    BY <2>1, SkipsGuarded DEF Taking
  <2>3. GuardedQueued' => GuardedQueued
    BY <2>1, SkipsGuarded DEF Taking
  <2>4. Coming' = Coming
    BY <1>1, <2>1 DEF Taking, Coming
  <2>5. ASSUME NEW j \in DOMAIN queue', Own(queue'[j]), queue'[j].kind = kind
        PROVE  OwnAround(kind)
    BY <2>2, <2>3, <2>5 DEF GuardedQueued, Guarded, Own, OwnReport, OwnAround
  <2>6. ASSUME wire' # <<>>, Own(Written'), Written'.kind = kind
        PROVE  OwnAround(kind)
    <3>1. GuardedQueued /\ Written'.key = queue[1].key /\ Written'.kind = queue[1].kind
      BY <2>1, <2>6 DEF Taking, Guarded, Own, OwnReport
    <3>2. 1 \in DOMAIN queue
      BY <1>3, <3>1 DEF MoverInv, GuardedInv, Tidy
    <3> QED
      BY <2>6, <3>1, <3>2 DEF OwnAround, Own, OwnReport
  <2> QED
    BY <1>2, <2>4, <2>5, <2>6 DEF OwnAround, OwnWire, Own, OwnReport
<1>5. CASE WriterLands
  <2>1. PICK success \in BOOLEAN : Finish(success)
    BY <1>5 DEF WriterLands
  <2>2. wire # <<>> /\ wire' = <<>>
    BY <2>1 DEF Finish
  <2>3. \/ Coming' = Coming
        \/ /\ Coming' = Append(Coming, EventOf(success))
           /\ EventOf(success) \in EventSet /\ EventOf(success).kind = Written.kind
           /\ EventOf(success).key = Written.key
    BY <1>1, <2>1, CompletionComes
  <2> DEFINE e == EventOf(success)
             c == Coming
  <2>4. \A i \in DOMAIN Coming' :
          \/ i \in DOMAIN c /\ Coming'[i] = c[i]
          \/ Coming'[i] = e /\ e.kind = Written.kind /\ e.key = Written.key
    <3>1. c \in Seq(EventSet) /\ (Coming' = c \/
            (Coming' = Append(c, e) /\ e \in EventSet /\ e.kind = Written.kind
              /\ e.key = Written.key))
      BY <1>3, <2>3 DEF Tidy
    <3> HIDE DEF c, e
    <3> QED
      BY <3>1, AppendElements
  <2>5. GuardedQueued' =>
          /\ GuardedQueued /\ Len(queue') = 1
          /\ queue'[1].kind = queue[1].kind /\ queue'[1].key = queue[1].key
    BY <2>1, FinishQueue
  <2>6. ASSUME NEW j \in DOMAIN queue', Own(queue'[j]), queue'[j].kind = kind
        PROVE  OwnAround(kind)
    <3>1. GuardedQueued'
      BY <2>6 DEF GuardedQueued, Guarded, Own, OwnReport
    <3>2. Tidy'
      BY TypedNext DEF MoverInv
    <3>3. j = 1 /\ 1 \in DOMAIN queue
      BY <1>3, <2>5, <3>1, <3>2 DEF Tidy, MoverInv, GuardedInv
    <3> QED
      BY <2>5, <2>6, <3>1, <3>3 DEF OwnAround, Own, OwnReport
  <2>7. ASSUME NEW i \in DOMAIN Coming', Own(Coming'[i]), Coming'[i].kind = kind
        PROVE  OwnAround(kind)
    BY <2>2, <2>4, <2>7 DEF OwnAround, OwnWire, Own, OwnReport
  <2> QED
    BY <1>2, <2>2, <2>6, <2>7 DEF OwnAround, OwnWire, Own, OwnReport
<1>6. CASE EndpointActs
  <2>1. wire' = wire /\ (queue' = queue \/ DOMAIN queue' = {})
    BY <1>6 DEF EndpointActs, Tell, BecomeReady, Discard, Reset
  <2>2. \E s \in Nat : PartOf(Coming', Coming, s)
    <3>1. CASE Tell
      BY <1>1, <1>3, <3>1, ToldComing DEF Tidy
    <3>2. CASE BecomeReady \/ Discard \/ Reset
      BY <1>1, <3>2, SameComing DEF BecomeReady, Discard, Reset
    <3> QED
      BY <1>6, <3>1, <3>2 DEF EndpointActs
  <2> QED
    BY <1>1, <2>1, <2>2, AroundStays
<1> QED
  BY <1>4, <1>5, <1>6

LEMMA FlagsStepKeeps ==
  MoverInv /\ MoverInv' /\ FlagsInv /\ [MoveNext]_moveVars => FlagsInv'
<1> SUFFICES ASSUME MoverInv, MoverInv', FlagsInv, [MoveNext]_moveVars PROVE FlagsInv'
  OBVIOUS
<1>1. CASE TickOver \/ TickNothing \/ TickStage \/ TickWants \/ EnqueueMover
  BY <1>1, TicksFlags, EnqueueFlags
<1>2. CASE ResetMover \/ LoopStops \/ AskedToStop \/ MoverFails \/ MoverProgresses
  BY <1>2, StopsFlags, ProgressFlags
<1>3. CASE Unmoved \/ MoverHold \/ MoverLapse \/ PhysicalArrives \/ UNCHANGED moveVars
  BY <1>3, AsideFlags
<1>4. CASE MovePacket
  BY <1>4, ExecuteFlags, ControlFlags DEF MovePacket
<1>5. CASE WriterTakesGuarded \/ WriterLands \/ EndpointActs
  BY <1>5, OutputFlags
<1> QED
  BY <1>1, <1>2, <1>3, <1>4, <1>5 DEF MoveNext, MoveLoop

-----------------------------------------------------------------------------
(* A press that is over is released by what the queue leads to, unless a   *)
(* release is owed and will be enqueued.                                   *)

Obliged == Ending \/ (releasePending /\ ~releaseInflight)
TargetInv ==
  PressOver(mover) => Obliged \/ pc = "moverReset" \/ Target.scheduled = {}

LEMMA TargetStays ==
  ASSUME TargetInv, PressOver(mover)' => PressOver(mover), Target' \in {Target, NoMasks},
         Obliged => Obliged', pc = "moverReset" => pc' = "moverReset" \/ Obliged'
  PROVE  TargetInv'
<1>1. NoMasks.scheduled = {}
  BY DEF NoMasks
<1> HIDE DEF Target, Obliged, NoMasks
<1> QED
  BY <1>1 DEF TargetInv

LEMMA TargetMeets ==
  ASSUME Obliged' \/ pc' = "moverReset" \/ Target'.scheduled = {}
  PROVE  TargetInv'
  BY DEF TargetInv

LEMMA SameTarget ==
  UNCHANGED outputVars \/ TakeEvents \/ TakeOverflow => Target' = Target
  BY DEF outputVars, TakeEvents, TakeOverflow, Target

LEMMA TicksTarget ==
  ASSUME MoverInv, MoverInv', FlagsInv, TargetInv,
         \/ TickOver \/ TickNothing \/ TickStage \/ TickWants
  PROVE  TargetInv'
<1>1. PressOver(mover)' => PressOver(mover) \/ pc' = "moverReset"
  BY TicksFlags
<1>2. /\ UNCHANGED outputVars /\ UNCHANGED <<releasePending, releaseInflight>>
      /\ pc = "release"
  BY DEF TickOver, TickNothing, TickStage, TickWants, MoverTurn, KeepServer, releaseVars
<1>3. Target' = Target
  BY <1>2, SameTarget
<1>4. Obliged => Obliged'
  BY <1>2 DEF Obliged, Ending
<1> QED
  BY <1>1, <1>2, <1>3, <1>4, TargetStays, TargetMeets

LEMMA EnqueueTarget ==
  ASSUME MoverInv, FlagsInv, TargetInv, EnqueueMover
  PROVE  TargetInv'
<1>1. /\ pc = "moverReport" /\ UNCHANGED <<releasePending, releaseInflight>>
      /\ Active /\ mover \in MoverSet /\ WantsReport(mover) /\ StageOK(mover) /\ Tidy
  BY Typed DEF EnqueueMover, KeepServer, releaseVars, MoverInv, TurnInv, MoverTypes,
     FlagsInv, StageInv
<1>2. CASE Accept(MoverReport(mover)) /\ mover' = [mover EXCEPT !.pending = TRUE]
  <2> DEFINE c == MoverReport(mover)
  <2>1. c \in CommandSet /\ PlainRelease(c)
    BY <1>1, MoverReports
  <2>2. c.scheduled = IF mover.stage = "Press" THEN {mover.button} ELSE {}
    BY <1>1, ReportStage
  <2>3. Accept(c)
    BY <1>2
  <2> HIDE DEF c
  <2>4. Target' = [persistent |-> c.persistent, scheduled |-> c.scheduled]
    BY <1>1, <2>1, <2>3, AcceptRests DEF MoverInv, Tidy
  <2>5. Target'.scheduled = c.scheduled
    BY <2>4
  <2>6. mover.stage = "Press" => ~PressOver(mover)'
    BY <1>1, <1>2 DEF StageOK, PressOver, MoverSet
  <2> QED
    BY <2>2, <2>5, <2>6 DEF TargetInv
<1>3. CASE Refuse("QueueFull") /\ UNCHANGED mover
  <2>1. Target' = Target /\ (PressOver(mover)' => PressOver(mover))
    BY <1>3, SameTarget DEF Refuse, PressOver, Running
  <2>2. ~Obliged
    BY <1>1 DEF Obliged, Ending, MoverInv, SoleUse
  <2> QED
    BY <1>1, <2>1, <2>2, TargetStays
<1>4. CASE pc' = "moverReset"
  BY <1>4, TargetMeets
<1> QED
  BY <1>2, <1>3, <1>4 DEF EnqueueMover

LEMMA ResetsOblige ==
  ASSUME ResetMover \/ LoopStops \/ AskedToStop \/ MoverFails
  PROVE  TargetInv'
<1>1. CASE ResetMover \/ LoopStops \/ MoverFails
  BY <1>1, TargetMeets DEF ResetMover, LoopStops, MoverFails, ResetChanged, ResetLost, Watchdog,
     HandleFailure, BeginReset, Obliged
<1>2. CASE AskedToStop
  <2>1. CASE Stop
    BY <2>1, TargetMeets DEF Stop, Obliged, Ending
  <2>2. CASE \E peer \in Peers, key \in Keys : ReceiveReleaseAll(peer, key)
    BY <2>2, TargetMeets DEF ReceiveReleaseAll, BeginReset, Obliged
  <2> QED
    BY <1>2, <2>1, <2>2 DEF AskedToStop
<1> QED
  BY <1>1, <1>2

LEMMA PacketsTarget ==
  ASSUME MoverInv, MoverInv', FlagsInv, TargetInv, MovePacket
  PROVE  TargetInv'
<1>1. ASSUME NEW peer \in Peers, NEW key \in Keys, NEW r \in Requests,
             ReceiveExecute(peer, key, r)
      PROVE  TargetInv'
  BY <1>1, ExecuteFlags DEF TargetInv, PressOver
<1>2. ASSUME NEW peer \in Peers, NEW operation \in {"Continue", "Cancel", "Query"},
             ReceiveControl(peer, operation)
      PROVE  TargetInv'
  <2>1. /\ UNCHANGED outputVars /\ UNCHANGED <<releasePending, releaseInflight>>
        /\ pc = "receive"
    BY <1>2 DEF ReceiveControl, Receive, releaseVars
  <2>2. Target' = Target
    BY <2>1, SameTarget
  <2>3. Obliged => Obliged'
    BY <2>1 DEF Obliged, Ending
  <2> QED
    BY <1>2, <2>1, <2>2, <2>3, ControlFlags, TargetStays
<1> QED
  BY <1>1, <1>2 DEF MovePacket

LEMMA ProgressTarget ==
  ASSUME MoverInv, MoverInv', FlagsInv, TargetInv, MoverProgresses
  PROVE  TargetInv'
<1>1. UNCHANGED outputVars /\ pc = "handle"
  BY DEF MoverProgresses, HandleReleased, HandleOther
<1>2. Obliged => Obliged'
  <2>1. CASE HandleReleased
    BY <2>1 DEF HandleReleased, IsRelease, Obliged, Ending
  <2>2. CASE HandleOther
    BY <2>2 DEF HandleOther, releaseVars, Obliged, Ending
  <2> QED
    BY <2>1, <2>2 DEF MoverProgresses
<1>3. Target' = Target
  BY <1>1, SameTarget
<1> QED
  BY <1>1, <1>2, <1>3, ProgressFlags, TargetStays

(* An accepted report without scheduled buttons leads to none.             *)
LEMMA AcceptedTarget ==
  ASSUME OutputTypes, WriterInv, NEW c \in CommandSet, PlainRelease(c), c.scheduled = {}, Accept(c)
  PROVE  TargetInv'
<1>1. Target' = [persistent |-> c.persistent, scheduled |-> c.scheduled]
  BY AcceptRests
<1>2. Target'.scheduled = {}
  BY <1>1
<1> QED
  BY <1>2, TargetMeets

LEMMA AsideTarget ==
  ASSUME MoverInv, MoverInv', FlagsInv, TargetInv,
         \/ Unmoved \/ MoverHold \/ MoverLapse \/ PhysicalArrives \/ UNCHANGED moveVars
  PROVE  TargetInv'
<1>1. mover' = mover /\ (PressOver(mover)' => PressOver(mover))
  BY AsideFlags DEF PressOver, Running
<1>2. OutputTypes /\ WriterInv /\ ServerTypes /\ scheduledButtons = {}
  BY Typed DEF MoverInv, Tidy, ServerInv, NoClicksHere
<1>3. CASE \/ Top \/ Resnapshot \/ TickIdle \/ Timeout \/ (Watchdog /\ ~Silent)
           \/ FetchEvents \/ FetchOverflow
           \/ MoverHold \/ MoverLapse \/ PhysicalArrives \/ UNCHANGED moveVars
  <2>1. /\ UNCHANGED outputVars \/ TakeEvents \/ TakeOverflow
        /\ UNCHANGED <<releasePending, releaseInflight>>
    BY <1>3 DEF Top, Resnapshot, TickIdle, Timeout, Watchdog, FetchEvents, FetchOverflow,
       MoverHold, ReceiveHold,
       MoverLapse, Lapse, PhysicalArrives, moveVars, vars, serverVars, releaseVars
  <2>2. pc \notin {"moverReset", "stopping", "stopped"} \/ pc' = pc
    BY <1>3 DEF Top, Resnapshot, TickIdle, Ticking, Timeout, Watchdog, FetchEvents, FetchOverflow,
       MoverHold, ReceiveHold, Receive,
       MoverLapse, Lapse, PhysicalArrives, moveVars, vars, serverVars
  <2>3. Obliged => Obliged'
    BY <2>1, <2>2 DEF Obliged, Ending
  <2>4. Target' = Target
    BY <2>1, SameTarget
  <2> QED
    BY <1>1, <2>2, <2>3, <2>4, TargetStays
<1>4. CASE TickRelease
  <2>1. pc = "release"
    BY <1>4 DEF TickRelease
  <2>2. CASE Accept(ReleaseReport)
    <3> DEFINE c == ReleaseReport
    <3>1. c \in CommandSet
      BY <1>2, ReportsAreCommands
    <3>2. PlainRelease(c) /\ c.scheduled = {}
      BY DEF PlainRelease, ReleaseReport, Report
    <3> HIDE DEF c
    <3>3. Accept(c)
      BY <2>2 DEF c
    <3> QED
      BY <1>2, <3>1, <3>2, <3>3, AcceptedTarget
  <2>3. CASE UNCHANGED outputVars /\ UNCHANGED releaseInflight
    <3>1. Obliged => Obliged'
      BY <1>4, <2>1, <2>3 DEF TickRelease, Obliged, Ending
    <3>2. Target' = Target
      BY <2>3, SameTarget
    <3> QED
      BY <1>1, <2>1, <3>1, <3>2, TargetStays
  <2> QED
    BY <1>4, <2>2, <2>3 DEF TickRelease, Refuse
<1>5. CASE LastRelease
  BY <1>5, TargetMeets DEF LastRelease, Obliged, Ending
<1>6. CASE EnqueueHold
  <2>1. pc = "hold" /\ UNCHANGED <<releasePending, releaseInflight>>
    BY <1>6 DEF EnqueueHold, releaseVars
  <2>2. CASE Accept(HoldReport(asked))
    <3> DEFINE c == HoldReport(asked)
    <3>1. c \in CommandSet
      BY <1>2, ReportsAreCommands
    <3>2. PlainRelease(c) /\ c.scheduled = {}
      BY <1>2 DEF PlainRelease, HoldReport, Report
    <3> HIDE DEF c
    <3>3. Accept(c)
      BY <2>2 DEF c
    <3> QED
      BY <1>2, <3>1, <3>2, <3>3, AcceptedTarget
  <2>3. CASE UNCHANGED outputVars
    <3>1. Obliged => Obliged'
      BY <2>1 DEF Obliged, Ending
    <3>2. Target' = Target
      BY <2>3, SameTarget
    <3> QED
      BY <1>1, <2>1, <3>1, <3>2, TargetStays
  <2> QED
    BY <1>6, <2>2, <2>3 DEF EnqueueHold, Refuse
<1> QED
  BY <1>3, <1>4, <1>5, <1>6 DEF Unmoved

LEMMA OutputTarget ==
  ASSUME MoverInv, MoverInv', FlagsInv, TargetInv,
         WriterTakesGuarded \/ WriterLands \/ EndpointActs
  PROVE  TargetInv'
<1>1. mover' = mover /\ (PressOver(mover)' => PressOver(mover))
  BY OutputFlags DEF PressOver, Running
<1>2. WriterTakes \/ WriterFinishes \/ Tell \/ BecomeReady \/ Discard \/ Reset
  BY DEF WriterTakesGuarded, WriterLands, WriterFinishes, EndpointActs
<1>3. Target' \in {Target, NoMasks}
  BY <1>2, OutputRests, Typed DEF MoverInv, Tidy
<1>4. UNCHANGED <<pc, releasePending, releaseInflight>>
  BY DEF WriterTakesGuarded, WriterLands, EndpointActs, serverVars, releaseVars
<1>5. Obliged => Obliged'
  BY <1>4 DEF Obliged, Ending
<1> QED
  BY <1>1, <1>3, <1>4, <1>5, TargetStays

LEMMA TargetStepKeeps ==
  MoverInv /\ MoverInv' /\ FlagsInv /\ TargetInv /\ [MoveNext]_moveVars => TargetInv'
<1> SUFFICES ASSUME MoverInv, MoverInv', FlagsInv, TargetInv, [MoveNext]_moveVars PROVE TargetInv'
  OBVIOUS
<1>1. CASE TickOver \/ TickNothing \/ TickStage \/ TickWants \/ EnqueueMover
  BY <1>1, TicksTarget, EnqueueTarget
<1>2. CASE ResetMover \/ LoopStops \/ AskedToStop \/ MoverFails \/ MoverProgresses
  BY <1>2, ResetsOblige, ProgressTarget
<1>3. CASE Unmoved \/ MoverHold \/ MoverLapse \/ PhysicalArrives \/ UNCHANGED moveVars
  BY <1>3, AsideTarget
<1>4. CASE MovePacket
  BY <1>4, PacketsTarget
<1>5. CASE WriterTakesGuarded \/ WriterLands \/ EndpointActs
  BY <1>5, OutputTarget
<1> QED
  BY <1>1, <1>2, <1>3, <1>4, <1>5 DEF MoveNext, MoveLoop

LEMMA MoveInitTarget == MoveInit => FlagsInv /\ TargetInv
  BY DEF MoveInit, Idle, Active, FlagsInv, StageInv, KindInv, TargetInv, PressOver

(* The flags of a transaction are those of its stage, and a press that is  *)
(* over is released by what the queue leads to or by a release that is     *)
(* owed.                                                                   *)
THEOREM FlagsCorrect == MoveSpec => [](FlagsInv /\ TargetInv)
<1>1. MoverInv /\ MoverInv' /\ (FlagsInv /\ TargetInv) /\ [MoveNext]_moveVars =>
        (FlagsInv /\ TargetInv)'
  BY FlagsStepKeeps, TargetStepKeeps
<1> QED
  BY <1>1, MoveInitTarget, MoverCorrect, PTL DEF MoveSpec

LEMMA PressedReleased == MoverInv /\ TargetInv => PressIsReleased
<1> SUFFICES ASSUME MoverInv, TargetInv, ~Active, mover.pressed, MoveAtRest
             PROVE  applied.scheduled = {}
  BY DEF PressIsReleased
<1>1. PressOver(mover)
  BY DEF PressOver, Running, Active
<1>2. pc = "receive" /\ ~releasePending /\ queue = <<>>
  BY DEF MoveAtRest
<1> QED
  BY <1>1, <1>2 DEF TargetInv, Obliged, Ending, Target

(* A press the client is told of is released however the transaction ends: *)
(* when all is written and no release is owed, no scheduled button is in   *)
(* force any more.                                                         *)
THEOREM PressReleased == MoveSpec => []PressIsReleased
  BY MoverCorrect, FlagsCorrect, PressedReleased, PTL

-----------------------------------------------------------------------------
(* Within one layout the host shows the physical buttons and the masks in  *)
(* force, unless a release is owed or on its way.                          *)

OneLayout == generation <= 1

FirstInv ==
  OneLayout =>
    /\ ~fresh => physical = {}
    /\ generation = 0 =>
         wire = <<>> /\ queue = <<>> /\ host = {} /\ ~ready /\ ~fresh /\ ~Active
    /\ wire # <<>> => Current
    /\ held /\ ~Written.carries => Written.shown = physical \cup ButtonsOf(Written.masks)

HostExact == ~Orphan /\ host = physical \cup ButtonsOf(applied)
ExactInv == OneLayout => Obliged \/ ReleaseQueued \/ HostExact

HostInv == FirstInv /\ ExactInv

(* What a step of the loop does to the output and to what is owed.         *)
QuietCall == UNCHANGED outputVars \/ TakeEvents \/ TakeOverflow
Accepts(c) ==
  /\ c \in CommandSet /\ PlainRelease(c) /\ Accept(c)
  /\ c.kind = "RELEASE_ALL" \/ (Obliged => Obliged')
StepCalls ==
  /\ \/ QuietCall /\ (Obliged => Obliged')
     \/ Clear /\ Obliged'
     \/ \E c : Accepts(c)
  /\ Active' => Active \/ ready

LEMMA StillObliged ==
  ASSUME ~Ending \/ pc' = pc, UNCHANGED <<releasePending, releaseInflight>>
  PROVE  Obliged => Obliged'
  BY DEF Obliged, Ending

LEMMA TicksCall ==
  ASSUME MoverInv, TickOver \/ TickNothing \/ TickStage \/ TickWants \/ EnqueueMover
  PROVE  StepCalls
<1>1. /\ UNCHANGED <<releasePending, releaseInflight>> /\ Active
     /\ pc \in {"release", "moverReport"}
  BY DEF TickOver, TickNothing, TickStage, TickWants, MoverTurn, KeepServer, releaseVars,
     EnqueueMover, MoverInv, TurnInv
<1>2. Obliged => Obliged'
  BY <1>1, StillObliged DEF Ending
<1>3. CASE ~EnqueueMover
  <2>1. UNCHANGED outputVars
    BY <1>3 DEF TickOver, TickNothing, TickStage, TickWants
  <2> QED
    BY <1>1, <1>2, <2>1 DEF StepCalls, QuietCall
<1>4. CASE EnqueueMover
  <2>1. CASE Accept(MoverReport(mover))
    <3> DEFINE c == MoverReport(mover)
    <3>1. c \in CommandSet /\ PlainRelease(c)
      BY <1>4, MoverReports DEF EnqueueMover, MoverInv, TurnInv, MoverTypes
    <3> HIDE DEF c
    <3>2. Accepts(c)
      BY <1>2, <2>1, <3>1 DEF Accepts, c
    <3> QED
      BY <1>1, <3>2 DEF StepCalls
  <2>2. CASE UNCHANGED outputVars
    BY <1>1, <1>2, <2>2 DEF StepCalls, QuietCall
  <2> QED
    BY <1>4, <2>1, <2>2 DEF EnqueueMover, Refuse
<1> QED
  BY <1>3, <1>4

LEMMA ResetsCall ==
  ASSUME MoverInv, ResetMover \/ LoopStops \/ AskedToStop \/ MoverFails
  PROVE  StepCalls /\ Clear /\ Obliged' /\ ~Active'
<1>1. ~Active'
  <2>1. CASE ResetMover
    BY <2>1 DEF ResetMover, MoverInv, SoleUse, Active
  <2>2. CASE LoopStops \/ AskedToStop
    BY <2>2, StopEnds DEF LoopStops, AskedToStop, CancelMover, Ends, Running, Active, MoverInv,
       MoverTypes, Statuses
  <2>3. CASE MoverFails
    <3>1. Event \in EventSet /\ ~Event.success
      <4>1. batch # <<>> /\ ~Event.success
        BY <2>3 DEF MoverFails, HandleFailure, MoverInv, ServerInv, ServerTypes, CallsReady
      <4>2. Event = batch[1] /\ batch[1] \in EventSet
        BY <4>1, Typed, TailElements DEF MoverInv, Tidy, Event
      <4> QED
        BY <4>1, <4>2
    <3>2. mover' = StopMover(OnEvent(mover, Event), "Cancelled")
      BY <2>3 DEF MoverFails
    <3> QED
      BY <3>1, <3>2, FailureEnds DEF MoverInv, MoverTypes, Ends, Active, Running
  <2> QED
    BY <2>1, <2>2, <2>3
<1>2. CASE ResetMover \/ LoopStops \/ MoverFails
  <2>1. Clear /\ Obliged'
    BY <1>2 DEF ResetMover, LoopStops, MoverFails, ResetChanged, ResetLost, Watchdog,
       HandleFailure, BeginReset, Obliged
  <2> QED
    BY <1>1, <2>1 DEF StepCalls
<1>3. CASE AskedToStop
  <2>1. CASE Stop
    BY <1>1, <2>1 DEF Stop, Obliged, Ending, StepCalls
  <2>2. CASE \E peer \in Peers, key \in Keys : ReceiveReleaseAll(peer, key)
    BY <1>1, <2>2 DEF ReceiveReleaseAll, BeginReset, Obliged, StepCalls
  <2> QED
    BY <1>3, <2>1, <2>2 DEF AskedToStop
<1> QED
  BY <1>2, <1>3

LEMMA PacketsCall ==
  ASSUME MoverInv, MovePacket
  PROVE  StepCalls
<1>1. /\ UNCHANGED outputVars /\ UNCHANGED <<releasePending, releaseInflight>> /\ pc = "receive"
      /\ Active' => Active \/ ready
  <2>1. ASSUME NEW peer \in Peers, NEW operation \in {"Continue", "Cancel", "Query"},
               ReceiveControl(peer, operation)
        PROVE  UNCHANGED outputVars /\ UNCHANGED <<releasePending, releaseInflight>>
               /\ pc = "receive" /\ (Active' => Active)
    <3>1. mover'.status = mover.status
      BY <2>1 DEF ReceiveControl, MoverInv, MoverTypes, MoverSet
    <3> QED
      BY <2>1, <3>1 DEF ReceiveControl, Receive, releaseVars, Active
  <2>2. ASSUME NEW peer \in Peers, NEW key \in Keys, NEW r \in Requests,
               ReceiveExecute(peer, key, r)
        PROVE  UNCHANGED outputVars /\ UNCHANGED <<releasePending, releaseInflight>>
               /\ pc = "receive" /\ ready
    BY <2>2 DEF ReceiveExecute, Receive, releaseVars
  <2> QED
    BY <2>1, <2>2 DEF MovePacket
<1>2. Obliged => Obliged'
  BY <1>1, StillObliged DEF Ending
<1> QED
  BY <1>1, <1>2 DEF StepCalls, QuietCall

LEMMA ProgressCalls ==
  ASSUME MoverInv, MoverProgresses
  PROVE  StepCalls
<1>1. UNCHANGED outputVars /\ pc = "handle" /\ mover' = OnEvent(mover, Event)
  BY DEF MoverProgresses, HandleReleased, HandleOther
<1>2. Obliged => Obliged'
  <2>1. CASE HandleReleased
    BY <2>1 DEF HandleReleased, IsRelease, Obliged, Ending
  <2>2. CASE HandleOther
    BY <2>2 DEF HandleOther, releaseVars, Obliged, Ending
  <2> QED
    BY <2>1, <2>2 DEF MoverProgresses
<1>3. Active' => Active
  BY <1>1 DEF OnEvent, Active
<1> QED
  BY <1>1, <1>2, <1>3 DEF StepCalls, QuietCall

LEMMA AsideCalls ==
  ASSUME MoverInv,
         \/ Unmoved \/ MoverHold \/ MoverLapse \/ PhysicalArrives \/ UNCHANGED moveVars
  PROVE  StepCalls
<1>1. mover' = mover /\ (Active' => Active)
  BY DEF Unmoved, MoverHold, MoverLapse, PhysicalArrives, moverVars, moveVars, Active
<1>2. ServerTypes
  BY DEF MoverInv, ServerInv
<1>3. CASE \/ Top \/ Resnapshot \/ TickIdle \/ Timeout \/ (Watchdog /\ ~Silent)
           \/ FetchEvents \/ FetchOverflow
           \/ MoverHold \/ MoverLapse \/ PhysicalArrives \/ UNCHANGED moveVars
  <2>1. QuietCall /\ UNCHANGED <<releasePending, releaseInflight>>
    BY <1>3 DEF Top, Resnapshot, TickIdle, Timeout, Watchdog, FetchEvents, FetchOverflow,
       MoverHold, ReceiveHold, QuietCall,
       MoverLapse, Lapse, PhysicalArrives, moveVars, vars, serverVars, releaseVars
  <2>2. ~Ending \/ pc' = pc
    BY <1>3 DEF Top, Resnapshot, TickIdle, Ticking, Timeout, Watchdog, FetchEvents, FetchOverflow,
       MoverHold, ReceiveHold, Receive, Ending,
       MoverLapse, Lapse, PhysicalArrives, moveVars, vars, serverVars
  <2> QED
    BY <1>1, <2>1, <2>2, StillObliged DEF StepCalls
<1>4. ASSUME NEW c, c \in CommandSet, PlainRelease(c), Accept(c),
             c.kind = "RELEASE_ALL" \/ (Obliged => Obliged')
      PROVE  StepCalls
  BY <1>1, <1>4 DEF StepCalls, Accepts
<1>5. CASE TickRelease
  <2>1. pc = "release"
    BY <1>5 DEF TickRelease
  <2>2. CASE Accept(ReleaseReport)
    <3> DEFINE c == ReleaseReport
    <3>1. c \in CommandSet
      BY <1>2, ReportsAreCommands
    <3>2. PlainRelease(c) /\ c.kind = "RELEASE_ALL"
      BY DEF PlainRelease, ReleaseReport, Report
    <3> HIDE DEF c
    <3>3. Accept(c)
      BY <2>2 DEF c
    <3> QED
      BY <3>1, <3>2, <3>3, <1>4
  <2>3. CASE UNCHANGED outputVars /\ UNCHANGED releaseInflight
    <3>1. Obliged => Obliged'
      BY <1>5, <2>1, <2>3 DEF TickRelease, Obliged, Ending
    <3> QED
      BY <1>1, <2>3, <3>1 DEF StepCalls, QuietCall
  <2> QED
    BY <1>5, <2>2, <2>3 DEF TickRelease, Refuse
<1>6. CASE LastRelease
  <2>1. Obliged'
    BY <1>6 DEF LastRelease, Obliged, Ending
  <2>2. CASE Accept(Report("RELEASE_ALL", NoKey, 0, {}, {}, 0, 0, FALSE))
    <3> DEFINE c == Report("RELEASE_ALL", NoKey, 0, {}, {}, 0, 0, FALSE)
    <3>1. c \in CommandSet
      BY <1>2, ReportsAreCommands
    <3>2. PlainRelease(c)
      BY DEF PlainRelease, Report
    <3> HIDE DEF c
    <3>3. Accept(c)
      BY <2>2 DEF c
    <3> QED
      BY <2>1, <3>1, <3>2, <3>3, <1>4
  <2>3. CASE UNCHANGED outputVars
    BY <1>1, <2>1, <2>3 DEF StepCalls, QuietCall
  <2> QED
    BY <1>6, <2>2, <2>3 DEF LastRelease, Refuse
<1>7. CASE EnqueueHold
  <2>1. Obliged => Obliged'
    BY <1>7, StillObliged DEF EnqueueHold, releaseVars, Ending
  <2>2. CASE Accept(HoldReport(asked))
    <3> DEFINE c == HoldReport(asked)
    <3>1. c \in CommandSet
      BY <1>2, ReportsAreCommands
    <3>2. PlainRelease(c)
      BY DEF PlainRelease, HoldReport, Report
    <3> HIDE DEF c
    <3>3. Accept(c)
      BY <2>2 DEF c
    <3> QED
      BY <2>1, <3>1, <3>2, <3>3, <1>4
  <2>3. CASE UNCHANGED outputVars
    BY <1>1, <2>1, <2>3 DEF StepCalls, QuietCall
  <2> QED
    BY <1>7, <2>2, <2>3 DEF EnqueueHold, Refuse
<1> QED
  BY <1>3, <1>5, <1>6, <1>7 DEF Unmoved

LEMMA CallsHost ==
  ASSUME MoverInv, HostInv, StepCalls
  PROVE  HostInv'
<1>1. /\ UNCHANGED <<generation, ready, wire, fresh, physical, host, applied>>
      /\ held' \in {held, FALSE}
      /\ queue' = queue \/ queue' = <<>> \/ ready
  BY DEF StepCalls, QuietCall, outputVars, TakeEvents, TakeOverflow, Clear, Accepts, Accept
<1>2. FirstInv'
  BY <1>1 DEF HostInv, FirstInv, OneLayout, Current, Written, StepCalls
<1>3. CASE Obliged'
  BY <1>2, <1>3 DEF HostInv, ExactInv
<1>4. CASE QuietCall /\ (Obliged => Obliged')
  <2>1. queue' = queue /\ held' = held
    BY <1>4 DEF QuietCall, outputVars, TakeEvents, TakeOverflow
  <2>2. ReleaseQueued' = ReleaseQueued /\ HostExact' = HostExact
    BY <1>1, <2>1 DEF ReleaseQueued, HostExact, Orphan, Current, Written
  <2> QED
    BY <1>1, <1>2, <1>4, <2>2 DEF HostInv, ExactInv, OneLayout
<1>5. ASSUME NEW c, Accepts(c) PROVE HostInv'
  <2>1. held' = held
    BY <1>5 DEF Accepts, Accept
  <2>2. HostExact' = HostExact
    BY <1>1, <2>1 DEF HostExact, Orphan, Current, Written
  <2>3. (ReleaseQueued => ReleaseQueued') /\ (c.kind = "RELEASE_ALL" => ReleaseQueued')
    BY <1>5, Typed, AcceptRests DEF MoverInv, Tidy, Accepts
  <2> QED
    BY <1>1, <1>2, <1>5, <2>2, <2>3 DEF HostInv, ExactInv, OneLayout, Accepts
<1> QED
  BY <1>3, <1>4, <1>5 DEF StepCalls

LEMMA TakesHost ==
  ASSUME MoverInv, MoverInv', HostInv, WriterTakes, UNCHANGED serverVars, mover' = mover
  PROVE  HostInv'
<1>1. /\ UNCHANGED <<generation, ready, fresh, physical, host, applied, mover>>
      /\ UNCHANGED <<pc, releasePending, releaseInflight>>
  BY DEF WriterTakes, PassOver, StartEntry, StartPhysical, StartForeign, Start, serverVars,
     releaseVars
<1>2. PICK k \in 0 .. Len(queue), giveUp \in BOOLEAN :
        \/ PassOver(k, giveUp)
        \/ \E carries \in BOOLEAN, buttons \in SUBSET PhysicalButtons :
             StartEntry(k, giveUp, carries, buttons)
        \/ \E g \in 1 .. generation, buttons \in SUBSET PhysicalButtons :
             StartPhysical(k, giveUp, g, buttons)
        \/ \E g \in 1 .. generation : StartForeign(k, giveUp, g)
  BY DEF WriterTakes
<1>3. Tidy /\ Tidy'
  BY Typed, TypedNext DEF MoverInv
<1>4. ExactInv'
  <2>1. (ReleaseQueued => ReleaseQueued') /\ (HostClean => HostClean')
    BY <1>3, TakeRests DEF MoverInv, Tidy
  <2>2. HostExact => HostExact'
    BY <1>1, <2>1 DEF HostExact, HostClean
  <2> QED
    BY <1>1, <2>1, <2>2 DEF HostInv, ExactInv, OneLayout, Obliged, Ending
<1>5. Skips(k, giveUp) /\ ~held /\ wire = <<>>
  BY <1>2 DEF PassOver, StartEntry, StartPhysical, StartForeign, Skips, WriterFree
<1>6. Len(queue') = Len(queue) - k
  BY <1>3, <1>5, SkippedPlaces DEF Tidy
<1> SUFFICES ASSUME OneLayout PROVE FirstInv'
  BY <1>1, <1>4 DEF HostInv, FirstInv, OneLayout
<1>7. generation \in {0, 1} /\ (generation = 0 => queue = <<>> /\ queue' = <<>>)
  <2>1. generation \in {0, 1} /\ (generation = 0 => queue = <<>>)
    BY <1>3 DEF HostInv, FirstInv, OneLayout, Tidy
  <2>2. queue = <<>> => Len(queue') = 0
    BY <1>3, <1>6 DEF Tidy
  <2> QED
    BY <1>3, <2>1, <2>2 DEF Tidy
<1>8. (generation = 0 => wire' = <<>>) /\ (wire' # <<>> => Current')
  <2>1. CASE PassOver(k, giveUp)
    BY <1>5, <2>1 DEF PassOver
  <2>2. ASSUME NEW carries \in BOOLEAN, NEW buttons \in SUBSET PhysicalButtons,
               StartEntry(k, giveUp, carries, buttons)
        PROVE  generation # 0 /\ Current'
    <3>1. k < Len(queue)
      BY <2>2 DEF StartEntry
    <3>2. generation # 0
      BY <1>3, <1>7, <3>1 DEF Tidy
    <3>3. PICK motion : Start(EntryReport(Head(AfterSkip(k, giveUp)), motion, carries, buttons))
      BY <2>2 DEF StartEntry
    <3> QED
      BY <1>1, <3>2, <3>3 DEF Start, EntryReport, Current, Written
  <2>3. ASSUME NEW g \in 1 .. generation, StartForeign(k, giveUp, g)
               \/ \E buttons \in SUBSET PhysicalButtons : StartPhysical(k, giveUp, g, buttons)
        PROVE  generation # 0 /\ Current'
    <3>1. generation # 0 /\ g = generation
      BY <1>7
    <3> QED
      BY <1>1, <2>3, <3>1 DEF StartForeign, StartPhysical, ForeignReport, PhysicalReport, Start,
         Current, Written
  <2> QED
    BY <1>2, <2>1, <2>2, <2>3
<1>9. held' /\ ~Written'.carries => Written'.shown = physical' \cup ButtonsOf(Written'.masks)
  <2> SUFFICES ASSUME held', ~Written'.carries
               PROVE  Written'.shown = physical \cup ButtonsOf(Written'.masks)
    BY <1>1
  <2>1. PICK carries \in BOOLEAN, buttons \in SUBSET PhysicalButtons :
          StartEntry(k, giveUp, carries, buttons)
    BY <1>2, <1>5 DEF PassOver, StartPhysical, StartForeign
  <2> DEFINE entry == Head(AfterSkip(k, giveUp))
  <2>2. PICK motion : Start(EntryReport(entry, motion, carries, buttons))
    BY <2>1 DEF StartEntry
  <2> HIDE DEF entry
  <2>3. /\ Written'.carries = carries /\ Written'.masks = Masks(entry)
        /\ Written'.shown = buttons \cup ButtonsOf(Masks(entry))
    BY <2>2 DEF Start, EntryReport, Written
  <2>4. buttons = physical
    BY <2>1, <2>3 DEF StartEntry, Remembered, HostInv, FirstInv
  <2> QED
    BY <2>3, <2>4
<1> QED
  BY <1>1, <1>7, <1>8, <1>9 DEF HostInv, FirstInv, Active

LEMMA LandsHost ==
  ASSUME MoverInv, MoverInv', HostInv, NEW success \in BOOLEAN, Finish(success),
         UNCHANGED serverVars, mover' = mover
  PROVE  HostInv'
<1>1. /\ wire # <<>> /\ wire' = <<>> /\ held' = FALSE /\ HostSees(success)
      /\ UNCHANGED <<generation, ready>>
      /\ UNCHANGED <<pc, releasePending, releaseInflight>>
  BY DEF Finish, serverVars, releaseVars
<1>2. Written \in WireSet /\ Tidy /\ Tidy' /\ WriterInv
  BY <1>1, Typed, TypedNext DEF MoverInv, Tidy, OutputTypes, WireTypes, Written
<1> SUFFICES ASSUME OneLayout PROVE HostInv'
  BY <1>1 DEF HostInv, FirstInv, ExactInv, OneLayout
<1>3. Current /\ Written.generation = generation /\ generation # 0
  BY <1>1 DEF HostInv, FirstInv, Current
<1>4. ~(Written.generation < generation)
  BY <1>2, <1>3 DEF Tidy
<1> HIDE DEF Written
<1>5. FirstInv'
  <2>1. ~fresh' => physical' = {}
    <3>1. CASE success /\ Written.carries
      BY <1>1, <1>3, <3>1, Zenon DEF HostSees
    <3>2. CASE ~(success /\ Written.carries)
      <4>1. physical' = physical /\ (fresh => fresh')
        BY <1>1, <3>2, Zenon DEF HostSees
      <4> QED
        BY <4>1 DEF HostInv, FirstInv
    <3> QED
      BY <3>1, <3>2
  <2> QED
    BY <1>1, <1>3, <2>1 DEF FirstInv
<1>6. ~Current' /\ ~Orphan'
  BY <1>1 DEF Current, Orphan
<1>7. CASE held /\ success
  <2>1. applied' = Written.masks
    BY <1>7 DEF Finish
  <2>2. /\ Written.masks = Masks(queue[1]) /\ Written.kind = queue[1].kind
        /\ Written.carries => Written.shown = Written.buttons \cup ButtonsOf(Masks(queue[1]))
    BY <1>2, <1>7 DEF WriterInv, HeldReport
  <2>3. Written.kind # "NONE"
    <3>1. queue[1] \in EntrySet
      BY <1>2, <1>7, TailElements DEF OutputTypes, QueueTypes, HeldIsFront, Tidy
    <3> QED
      BY <2>2, <3>1 DEF EntrySet, ReportKinds, Reported, Forced
  <2>4. host' = Written.shown
    BY <1>1, <1>7, <2>3, Zenon DEF HostSees
  <2>5. physical' = IF Written.carries THEN Written.buttons ELSE physical
    BY <1>1, <1>4, <1>7 DEF HostSees
  <2>6. ~Written.carries => Written.shown = physical \cup ButtonsOf(Written.masks)
    BY <1>7 DEF HostInv, FirstInv
  <2>7. HostExact'
    BY <1>6, <2>1, <2>2, <2>4, <2>5, <2>6 DEF HostExact
  <2> QED
    BY <1>5, <2>7 DEF HostInv, ExactInv
<1>8. CASE ~(held /\ success)
  <2>1. applied' = applied /\ queue' = queue
    BY <1>8 DEF Finish
  <2>2. ASSUME HostExact PROVE host' = physical' \cup ButtonsOf(applied')
    <3>1. CASE ~success
      BY <1>1, <2>1, <2>2, <3>1 DEF HostSees, HostExact
    <3>2. CASE success
      <4>1. Written.kind = "NONE"
        BY <1>3, <1>8, <2>2, <3>2 DEF HostExact, Orphan
      <4>2. CASE Written.carries
        <5>1. host' = Written.shown /\ physical' = Written.buttons
          BY <1>1, <1>4, <3>2, <4>2 DEF HostSees
        <5>2. Written.shown = Written.buttons \cup ButtonsOf(applied)
          BY <1>2, <1>3, <4>1, <4>2 DEF WriterInv, PhysicalShown
        <5> QED
          BY <2>1, <5>1, <5>2
      <4>3. CASE ~Written.carries
        BY <1>1, <2>1, <2>2, <4>1, <4>3 DEF HostSees, HostExact
      <4> QED
        BY <4>2, <4>3
    <3> QED
      BY <3>1, <3>2
  <2>3. HostExact => HostExact'
    BY <1>6, <2>2 DEF HostExact
  <2>4. ReleaseQueued' = ReleaseQueued
    BY <2>1 DEF ReleaseQueued
  <2> QED
    BY <1>1, <1>5, <2>3, <2>4 DEF HostInv, ExactInv, OneLayout, Obliged, Ending
<1> QED
  BY <1>7, <1>8

LEMMA EndpointHost ==
  ASSUME MoverInv, HostInv, EndpointActs
  PROVE  HostInv'
<1>1. mover' = mover /\ UNCHANGED <<pc, releasePending, releaseInflight>>
  BY DEF EndpointActs, moverVars, serverVars, releaseVars
<1>2. Obliged => Obliged'
  BY <1>1 DEF Obliged, Ending
<1>3. CASE Tell \/ BecomeReady \/ Discard
  <2>1. /\ UNCHANGED <<generation, queue, held, wire, fresh, physical, host, applied>>
        /\ ready' => ready \/ generation # 0
    BY <1>3, Typed DEF Tell, BecomeReady, Discard, MoverInv, Tidy
  <2>2. FirstInv'
    BY <1>1, <2>1 DEF HostInv, FirstInv, OneLayout, Current, Written, Active
  <2>3. ReleaseQueued' = ReleaseQueued /\ HostExact' = HostExact
    BY <2>1 DEF ReleaseQueued, HostExact, Orphan, Current, Written
  <2> QED
    BY <1>2, <2>1, <2>2, <2>3 DEF HostInv, ExactInv, OneLayout
<1>4. CASE Reset
  <2>1. /\ generation' = generation + 1 /\ generation \in Nat
        /\ ready' = FALSE /\ queue' = <<>> /\ held' = FALSE /\ fresh' = FALSE
        /\ applied' = NoMasks /\ physical' \in {physical, {}} /\ host' \in {host, {}}
        /\ wire' = wire
    BY <1>4, Typed DEF Reset, MoverInv, Tidy
  <2> SUFFICES ASSUME OneLayout' PROVE HostInv'
    BY DEF HostInv, FirstInv, ExactInv
  <2>2. generation = 0 /\ generation' = 1
    BY <2>1 DEF OneLayout
  <2>3. wire = <<>> /\ host = {} /\ ~fresh /\ physical = {}
    BY <2>2 DEF HostInv, FirstInv, OneLayout
  <2>4. HostExact'
    BY <2>1, <2>3 DEF HostExact, Orphan, Current, ButtonsOf, NoMasks
  <2> QED
    BY <2>1, <2>2, <2>3, <2>4 DEF HostInv, FirstInv, ExactInv
<1> QED
  BY <1>3, <1>4 DEF EndpointActs

LEMMA OtherCalls ==
  ASSUME MoverInv, MoveLoop \/ AskedToStop \/ MovePacket \/ MoverHold \/ MoverLapse
                   \/ PhysicalArrives \/ UNCHANGED moveVars
  PROVE  StepCalls
  BY TicksCall, ResetsCall, PacketsCall, ProgressCalls, AsideCalls DEF MoveLoop

LEMMA HostStepKeeps ==
  MoverInv /\ MoverInv' /\ HostInv /\ [MoveNext]_moveVars => HostInv'
<1> SUFFICES ASSUME MoverInv, MoverInv', HostInv, [MoveNext]_moveVars PROVE HostInv'
  OBVIOUS
<1>1. CASE MoveLoop \/ AskedToStop \/ MovePacket \/ MoverHold \/ MoverLapse \/ PhysicalArrives
           \/ UNCHANGED moveVars
  BY <1>1, OtherCalls, CallsHost
<1>2. CASE WriterTakesGuarded
  BY <1>2, TakesHost DEF WriterTakesGuarded, moverVars
<1>3. CASE WriterLands
  BY <1>3, LandsHost DEF WriterLands
<1>4. CASE EndpointActs
  BY <1>4, EndpointHost
<1> QED
  BY <1>1, <1>2, <1>3, <1>4 DEF MoveNext

LEMMA MoveInitHost == MoveInit => HostInv
  BY DEF MoveInit, Init, OutputInit, Idle, HostInv, FirstInv, ExactInv, HostExact, Orphan, Current,
     Active, ButtonsOf, NoMasks

LEMMA HostHolds == MoveSpec => []HostInv
  BY MoveInitHost, HostStepKeeps, MoverCorrect, PTL DEF MoveSpec

(* A transaction is active only when no release is owed or queued.         *)
LEMMA ActiveExact ==
  ASSUME MoverInv, HostInv, OneLayout, Active
  PROVE  /\ HostExact /\ generation = 1
         /\ wire # <<>> => Written.generation = generation
<1>1. ~Obliged /\ ~ReleaseQueued
  BY DEF MoverInv, SoleUse, Obliged, Ending, ReleaseQueued, Guarded, Transactions
<1>2. generation \in Nat /\ generation # 0
  BY Typed DEF MoverInv, Tidy, HostInv, FirstInv
<1> QED
  BY <1>1, <1>2 DEF HostInv, ExactInv, FirstInv, OneLayout, Current

-----------------------------------------------------------------------------
(* Within one layout the flags are about what the host has seen: the press *)
(* is an edge because the host shows the physical buttons received and the *)
(* masks in force, and the button is in neither.                           *)

(* The press has been written and its release is still to be made.         *)
Hand(m) == m.stage = "Hold" \/ (m.stage = "Release" /\ ~m.pending)

(* Events to come that end a stage.                                        *)
EndTold(kind) == \E i \in DOMAIN Coming : Finishes(Coming[i]) /\ Coming[i].kind = kind
PressTold ==
  \E i \in DOMAIN Coming :
    Finishes(Coming[i]) /\ Coming[i].kind = "TRANSACTION_PRESS" /\ ~Coming[i].blocked
ReleaseTold == EndTold("TRANSACTION_RELEASE")
ReleaseQueuedHere ==
  \E j \in DOMAIN queue : Own(queue[j]) /\ queue[j].kind = "TRANSACTION_RELEASE"

(* The buttons received, and with them the physical ones the host has been *)
(* shown since the press, are without the transaction's.                   *)
ButtonInv ==
  ~disturbed =>
    /\ mover.button # NoButton => mover.button \notin received
    /\ wire # <<>> /\ Written.carries => Written.buttons = received
    /\ landed.press => mover.button # NoButton /\ mover.button \notin physical

MaskInv ==
  \A j \in DOMAIN queue :
    Own(queue[j]) =>
      /\ queue[j].persistent = {} /\ queue[j].button = mover.button
      /\ queue[j].scheduled =
           IF queue[j].kind = "TRANSACTION_PRESS" THEN {mover.button} ELSE {}

PressInv ==
  Hand(mover) \/ ReleaseQueuedHere \/ PressTold => mover.button \in applied.scheduled

EdgeInv ==
  OwnWire /\ held =>
    /\ Written.kind = "TRANSACTION_PRESS" /\ ~Written.blocked
         => mover.button \in Written.shown \ host
    /\ Written.kind = "TRANSACTION_RELEASE" => mover.button \in host \ Written.shown

ToldInv ==
  /\ PressTold => landed.press
  /\ ReleaseTold => landed.release

FlagsSeen ==
  /\ mover.pressed => landed.press
  /\ mover.released => landed.release

ClickInv ==
  OneLayout =>
    /\ FlagsSeen
    /\ Active => ButtonInv /\ MaskInv /\ PressInv /\ EdgeInv /\ ToldInv

(* A step that makes no report and writes none.                            *)
SameClick ==
  /\ Active
  /\ UNCHANGED <<wire, applied, physical, host>>
  /\ held' => held
  /\ queue' = queue \/ DOMAIN queue' = {}
  /\ \E s \in Nat : PartOf(Coming', Coming, s)
  /\ mover'.button = mover.button
  /\ (received' = received /\ disturbed' = disturbed) \/ disturbed'
  /\ Hand(mover') => Hand(mover) \/ PressTold

LEMMA ToldStays ==
  ASSUME mover'.key = mover.key, \E s \in Nat : PartOf(Coming', Coming, s)
  PROVE  /\ PressTold' => PressTold
         /\ \A kind : EndTold(kind)' => EndTold(kind)
<1>1. \A r : Own(r)' <=> Own(r)
  BY DEF Own, OwnReport
<1>2. \A i \in DOMAIN Coming' : \E j \in DOMAIN Coming : Coming'[i] = Coming[j]
  BY DEF PartOf
<1>3. ASSUME PressTold' PROVE PressTold
  <2>1. PICK i \in DOMAIN Coming' : /\ Finishes(Coming'[i])
                                    /\ Coming'[i].kind = "TRANSACTION_PRESS" /\ ~Coming'[i].blocked
    BY <1>1, <1>3 DEF PressTold, Finishes, Own, OwnReport
  <2> QED
    BY <1>2, <2>1 DEF PressTold
<1>4. ASSUME NEW kind, EndTold(kind)' PROVE EndTold(kind)
  <2>1. PICK i \in DOMAIN Coming' : Finishes(Coming'[i]) /\ Coming'[i].kind = kind
    BY <1>1, <1>4 DEF EndTold, Finishes, Own, OwnReport
  <2> QED
    BY <1>2, <2>1 DEF EndTold
<1> QED
  BY <1>3, <1>4

LEMMA ClickKept ==
  ASSUME ClickInv, OneLayout' => OneLayout, landed' = landed, mover'.key = mover.key,
         mover'.pressed => mover.pressed \/ (Active /\ PressTold),
         mover'.released => mover.released \/ (Active /\ ReleaseTold),
         Active' /\ OneLayout' => SameClick
  PROVE  ClickInv'
<1> SUFFICES ASSUME OneLayout' PROVE ClickInv'
  BY DEF ClickInv
<1>1. OneLayout /\ FlagsSeen'
  BY DEF ClickInv, FlagsSeen, ToldInv
<1> SUFFICES ASSUME Active', SameClick
             PROVE  ButtonInv' /\ MaskInv' /\ PressInv' /\ EdgeInv' /\ ToldInv'
  BY <1>1 DEF ClickInv
<1>2. Active /\ ButtonInv /\ MaskInv /\ PressInv /\ EdgeInv /\ ToldInv
  BY <1>1 DEF SameClick, ClickInv
<1>3. (PressTold' => PressTold) /\ (ReleaseTold' => ReleaseTold)
  BY ToldStays DEF SameClick, ReleaseTold
<1>4. \A r : Own(r)' <=> Own(r)
  BY DEF Own, OwnReport
<1>5. /\ mover'.button = mover.button /\ wire' = wire /\ Written' = Written /\ applied' = applied
      /\ physical' = physical /\ host' = host
  BY DEF SameClick, Written
<1>6. ButtonInv'
  BY <1>2, <1>5 DEF ButtonInv, SameClick
<1>7. MaskInv' /\ (ReleaseQueuedHere' => ReleaseQueuedHere)
  BY <1>2, <1>4, <1>5 DEF MaskInv, ReleaseQueuedHere, SameClick, Own, OwnReport
<1>8. PressInv'
  BY <1>2, <1>3, <1>5, <1>7 DEF PressInv, SameClick
<1>9. OwnWire' => OwnWire
  BY <1>4, <1>5 DEF OwnWire, Own, OwnReport
<1>10. EdgeInv'
  BY <1>2, <1>5, <1>9 DEF EdgeInv, SameClick
<1>11. ToldInv'
  BY <1>2, <1>3 DEF ToldInv
<1> QED
  BY <1>6, <1>7, <1>8, <1>10, <1>11

(* A tick leaves the flags alone and does not go to a stage between press  *)
(* and release.                                                            *)
SameHand(m, n) ==
  n.pressed = m.pressed /\ n.released = m.released /\ (Hand(n) => Hand(m))

LEMMA DivertedHand ==
  ASSUME NEW m \in MoverSet, Running(m), ~m.pending, m.stage \notin Resting, StageOK(m)
  PROVE  SameHand(m, Diverted(m))
<1>1. CASE Diverted(m) = m
  BY <1>1 DEF SameHand
<1>2. CASE m.pressed /\ ~m.released /\ Diverted(m) = [m EXCEPT !.stage = "Release"]
  <2>1. m.stage \in {"Hold", "Release"}
    BY <1>2 DEF StageOK, MoverSet, Stages, Resting
  <2> QED
    BY <1>2, <2>1 DEF SameHand, Hand, MoverSet
<1>3. CASE Diverted(m) = [m EXCEPT !.stage = "Delay"]
  BY <1>3 DEF SameHand, Hand, MoverSet
<1> QED
  BY <1>1, <1>2, <1>3 DEF Diverted, Enter

LEMMA WaitedHand ==
  ASSUME NEW m \in MoverSet, Running(m), ~m.pending, m.stage \notin Resting, ~WantsReport(m)
  PROVE  SameHand(m, Waited(m))
<1>1. m.stage \in {"Out", "Settle", "Waiting", "Hold", "Delay"}
  BY DEF WantsReport, MoverSet, Stages, Resting
<1>2. ASSUME NEW stage \in {"Settle", "Waiting", "Press", "Delay", "Return"},
             Waited(m) = [m EXCEPT !.stage = stage]
      PROVE  SameHand(m, Waited(m))
  BY <1>2 DEF SameHand, Hand, MoverSet
<1>3. CASE Waited(m) = [m EXCEPT !.stage = "Release"] /\ m.stage = "Hold"
  BY <1>3 DEF SameHand, Hand, MoverSet
<1>4. CASE Waited(m) = [m EXCEPT !.stage = "Delay", !.cancelled = TRUE]
  BY <1>4 DEF SameHand, Hand, MoverSet
<1>5. CASE Waited(m) = Finished(m)
  <2>1. /\ Finished(m).stage = "Done" /\ Finished(m).pressed = m.pressed
        /\ Finished(m).released = m.released
    BY DEF Finished, MoverSet
  <2> QED
    BY <1>5, <2>1 DEF SameHand, Hand
<1>6. ActionStage(m) \in {"Press", "Delay"}
  BY DEF ActionStage
<1>7. \/ \E stage \in {"Settle", "Waiting", "Press", "Delay", "Return"} :
           Waited(m) = [m EXCEPT !.stage = stage]
      \/ Waited(m) = [m EXCEPT !.stage = "Release"] /\ m.stage = "Hold"
      \/ Waited(m) = [m EXCEPT !.stage = "Delay", !.cancelled = TRUE]
      \/ Waited(m) = Finished(m)
  <2>1. CASE m.stage = "Out"
    <3>1. Waited(m) = [m EXCEPT !.stage = "Settle"]
      BY <2>1 DEF Waited, Enter
    <3> QED
      BY <3>1
  <2>2. CASE m.stage = "Settle"
    <3>1. \E stage \in {"Waiting", ActionStage(m)} : Waited(m) = [m EXCEPT !.stage = stage]
      BY <2>2 DEF Waited, Enter
    <3> QED
      BY <1>6, <3>1
  <2>3. CASE m.stage = "Waiting"
    <3>1. \/ Waited(m) = [m EXCEPT !.stage = ActionStage(m)]
          \/ Waited(m) = [m EXCEPT !.stage = "Delay", !.cancelled = TRUE]
      BY <2>3 DEF Waited, Enter, MoverSet
    <3> QED
      BY <1>6, <3>1
  <2>4. CASE m.stage = "Hold"
    <3>1. Waited(m) = [m EXCEPT !.stage = "Release"]
      BY <2>4 DEF Waited, Enter
    <3> QED
      BY <2>4, <3>1
  <2>5. CASE m.stage = "Delay"
    <3>1. Waited(m) = Finished(m) \/ Waited(m) = [m EXCEPT !.stage = "Return"]
      BY <2>5 DEF Waited, Enter
    <3> QED
      BY <3>1
  <2> QED
    BY <1>1, <2>1, <2>2, <2>3, <2>4, <2>5
<1> QED
  BY <1>2, <1>3, <1>4, <1>5, <1>7

LEMMA StoppedHand ==
  ASSUME NEW m \in MoverSet, NEW reason
  PROVE  /\ StopMover(m, reason).pressed = m.pressed
         /\ StopMover(m, reason).released = m.released
         /\ StopMover(m, reason).key = m.key
  BY DEF StopMover, MoverSet

(* A step that leaves the output and the events alone.                     *)
LEMMA QuietClick ==
  ASSUME MoverInv, ClickInv, UNCHANGED <<outputVars, batch, received, disturbed, landed>>,
         SameRequest(mover, mover'), Active' => Active, SameHand(mover, mover')
  PROVE  ClickInv'
<1>1. PartOf(Coming', Coming, 0)
  BY SameComing DEF outputVars
<1>2. Active' => SameClick
  BY <1>1 DEF SameClick, SameRequest, SameHand, outputVars
<1>3. OneLayout' => OneLayout
  BY DEF OneLayout, outputVars
<1> QED
  BY <1>2, <1>3, ClickKept DEF SameRequest, SameHand

LEMMA TicksClick ==
  ASSUME MoverInv, FlagsInv, ClickInv, TickOver \/ TickNothing \/ TickStage \/ TickWants
  PROVE  ClickInv'
<1>1. /\ UNCHANGED <<outputVars, batch, received, disturbed, landed>> /\ Active
  BY DEF TickOver, TickNothing, TickStage, TickWants, MoverTurn, KeepServer, loopVars
<1>2. mover \in MoverSet /\ mover.stage \notin Resting /\ Running(mover) /\ StageOK(mover)
  BY <1>1 DEF MoverInv, MoverTypes, Active, Running, FlagsInv, StageInv
<1>3. SameRequest(mover, mover') /\ SameHand(mover, mover')
  <2>1. CASE TickOver
    <3>1. mover' = StopMover(mover, WhyOver) /\ WhyOver \in Statuses \ {"Active"}
      BY <2>1 DEF TickOver, WhyOver, Statuses
    <3>2. SameRequest(mover, mover')
      BY <1>2, <3>1, StopEnds DEF Ends
    <3>3. mover'.stage = "Done"
      BY <1>2, <3>1 DEF StopMover, MoverSet, Running
    <3> QED
      BY <1>2, <3>1, <3>2, <3>3, StoppedHand DEF SameHand, Hand
  <2>2. CASE mover' = mover
    BY <2>2 DEF SameRequest, SameHand
  <2>3. CASE ~mover.pending /\ mover' = Diverted(mover)
    BY <1>2, <2>3, DivertedGoesOn, DivertedHand DEF GoesOn
  <2>4. CASE TickStage
    <3> DEFINE d == Diverted(mover)
    <3>1. ~mover.pending /\ ~WantsReport(d) /\ mover' = Waited(d)
      BY <2>4 DEF TickStage
    <3>2. GoesOn(mover, d) /\ Running(d) /\ SameHand(mover, d)
      BY <1>2, <3>1, DivertedGoesOn, DivertedHand
    <3> HIDE DEF d
    <3>3. d \in MoverSet /\ ~d.pending /\ d.stage \notin Resting
      BY <3>2 DEF GoesOn
    <3>4. GoesOn(d, mover') /\ SameHand(d, mover')
      BY <3>1, <3>2, <3>3, WaitedGoesOn, WaitedHand
    <3> QED
      BY <3>2, <3>4 DEF GoesOn, SameRequest, SameHand
  <2> QED
    BY <2>1, <2>2, <2>3, <2>4 DEF TickNothing, TickWants
<1> QED
  BY <1>1, <1>3, QuietClick

LEMMA StopsClick ==
  ASSUME MoverInv, ClickInv, ResetMover \/ LoopStops \/ AskedToStop \/ MoverFails
  PROVE  ClickInv'
<1>1. mover \in MoverSet
  BY DEF MoverInv, MoverTypes
<1>2. ~Active' /\ Clear
  <2>1. ~Active'
    BY ResetsCall
  <2>2. Clear
    BY DEF ResetMover, LoopStops, AskedToStop, MoverFails, ResetChanged, ResetLost, Watchdog,
       HandleFailure, ReceiveReleaseAll, Stop, BeginReset
  <2> QED
    BY <2>1, <2>2
<1>3. landed' = landed /\ (OneLayout' => OneLayout)
  BY <1>2 DEF ResetMover, LoopStops, AskedToStop, MoverFails, CancelMover, KeepMover, Clear,
     OneLayout
<1>4. /\ mover'.key = mover.key /\ mover'.pressed = mover.pressed
      /\ mover'.released = mover.released
  <2>1. CASE ResetMover
    BY <2>1 DEF ResetMover
  <2>2. CASE LoopStops \/ AskedToStop
    BY <1>1, <2>2, StoppedHand DEF LoopStops, AskedToStop, CancelMover
  <2>3. CASE MoverFails
    <3>1. mover' = StopMover(OnEvent(mover, Event), "Cancelled") /\ ~Event.success
      BY <2>3 DEF MoverFails, HandleFailure
    <3>2. OnEvent(mover, Event) \in {mover, StopMover(mover, "WriterFailed")}
      BY <3>1 DEF OnEvent
    <3>3. StopMover(mover, "WriterFailed") \in MoverSet
      BY <1>1, StopEnds DEF Ends, Statuses
    <3> QED
      BY <1>1, <3>1, <3>2, <3>3, StoppedHand
  <2> QED
    BY <2>1, <2>2, <2>3
<1> QED
  BY <1>2, <1>3, <1>4, ClickKept

LEMMA ControlClick ==
  ASSUME MoverInv, ClickInv, NEW peer \in Peers,
         NEW operation \in {"Continue", "Cancel", "Query"}, ReceiveControl(peer, operation)
  PROVE  ClickInv'
<1> DEFINE go == mover.continued \/ (operation = "Continue" /\ Active /\ mover.stage = "Waiting")
           no == mover.cancelled \/ (operation = "Cancel" /\ Active)
<1>1. mover \in MoverSet
  BY DEF MoverInv, MoverTypes
<1>2. mover' = [mover EXCEPT !.continued = go, !.cancelled = no]
  BY <1>1 DEF ReceiveControl, MoverSet
<1> HIDE DEF go, no
<1>3. SameRequest(mover, mover') /\ SameHand(mover, mover') /\ (Active' => Active)
  BY <1>1, <1>2 DEF MoverSet, SameRequest, SameHand, Hand, Active
<1>4. UNCHANGED <<outputVars, batch, received, disturbed, landed>>
  BY DEF ReceiveControl, loopVars
<1> QED
  BY <1>3, <1>4, QuietClick

(* An event sets a flag, or leads to a stage between press and release,    *)
(* only when it finishes the press or the release.                         *)
LEMMA EventHand ==
  ASSUME NEW m \in MoverSet, NEW e \in EventSet, e.success,
         Concerns(m, e) => m.stage = StageOf(e.kind) /\ m.pending
  PROVE  LET n == OnEvent(m, e)
             ends(kind) == Concerns(m, e) /\ e.finished /\ e.kind = kind
             press == ends("TRANSACTION_PRESS") /\ ~e.blocked
         IN /\ n.pressed => m.pressed \/ press
            /\ n.released => m.released \/ ends("TRANSACTION_RELEASE")
            /\ Hand(n) => Hand(m) \/ press
<1> DEFINE n == OnEvent(m, e)
           ends(kind) == Concerns(m, e) /\ e.finished /\ e.kind = kind
           press == ends("TRANSACTION_PRESS") /\ ~e.blocked
<1> SUFFICES /\ n.pressed => m.pressed \/ press
             /\ n.released => m.released \/ ends("TRANSACTION_RELEASE")
             /\ Hand(n) => Hand(m) \/ press
  OBVIOUS
<1>1. CASE ~Concerns(m, e)
  <2>1. n = m
    BY <1>1 DEF Concerns, OnEvent, Running
  <2> QED
    BY <2>1
<1>2. CASE Concerns(m, e) /\ ~e.finished
  <2> DEFINE c == Credited(m, e)
  <2>1. n = c
    BY <1>2 DEF Concerns, OnEvent, Running
  <2>2. /\ c.stage = m.stage /\ c.pressed = m.pressed /\ c.released = m.released
        /\ c.pending = m.pending
    BY CreditedTyped
  <2> HIDE DEF c
  <2> QED
    BY <2>1, <2>2 DEF Hand
<1>3. CASE Concerns(m, e) /\ e.finished
  <2> DEFINE c == Credited(m, e)
             d == [c EXCEPT !.pending = FALSE]
  <2>1. n = Advance(d, e)
    BY <1>3 DEF Concerns, OnEvent, Running
  <2>2. c \in MoverSet /\ c.pressed = m.pressed /\ c.released = m.released
    BY CreditedTyped
  <2> HIDE DEF c
  <2>3. d \in MoverSet /\ d.pressed = m.pressed /\ d.released = m.released
    BY <2>2 DEF MoverSet
  <2> HIDE DEF d
  <2>4. e.kind \in Transactions
    BY <1>3 DEF Concerns
  <2> HIDE DEF n, ends, press
  <2>5. CASE e.kind = "TRANSACTION_OUT"
    <3>1. n = [d EXCEPT !.stage = "Settle"]
      BY <2>1, <2>5 DEF Advance, Enter
    <3> QED
      BY <2>3, <3>1 DEF Hand, MoverSet
  <2>6. CASE e.kind = "TRANSACTION_PRESS" /\ e.blocked
    <3>1. n = StopMover(d, "ButtonActive")
      BY <2>1, <2>6 DEF Advance
    <3>2. d.status = "Active"
      BY <1>3, CreditedTyped DEF Concerns, Running, c, d
    <3>3. n.stage = "Done" /\ n.pressed = d.pressed /\ n.released = d.released
      BY <2>3, <3>1, <3>2 DEF StopMover, MoverSet
    <3> QED
      BY <2>3, <3>3 DEF Hand
  <2>7. CASE e.kind = "TRANSACTION_PRESS" /\ ~e.blocked
    <3>1. n = [d EXCEPT !.stage = "Hold", !.pressed = TRUE]
      BY <2>1, <2>3, <2>7 DEF Advance, Enter, MoverSet
    <3>2. n.released = d.released
      BY <2>3, <3>1 DEF MoverSet
    <3> QED
      BY <1>3, <2>3, <2>7, <3>2 DEF press, ends
  <2>8. CASE e.kind = "TRANSACTION_RELEASE"
    <3>1. n = [d EXCEPT !.stage = "Delay", !.released = TRUE]
      BY <2>1, <2>3, <2>8 DEF Advance, Enter, MoverSet
    <3> QED
      BY <1>3, <2>3, <2>8, <3>1 DEF Hand, MoverSet, ends
  <2>9. CASE e.kind = "TRANSACTION_RETURN"
    <3>1. n = Finished(d)
      BY <2>1, <2>9 DEF Advance
    <3>2. n.stage = "Done" /\ n.pressed = d.pressed /\ n.released = d.released
      BY <2>3, <3>1 DEF Finished, MoverSet
    <3> QED
      BY <2>3, <3>2 DEF Hand
  <2> QED
    BY <2>4, <2>5, <2>6, <2>7, <2>8, <2>9 DEF Transactions, Forced
<1> QED
  BY <1>1, <1>2, <1>3

LEMMA ProgressClick ==
  ASSUME MoverInv, FlagsInv, ClickInv, MoverProgresses
  PROVE  ClickInv'
<1>1. /\ pc = "handle" /\ Event.success /\ mover' = OnEvent(mover, Event)
      /\ UNCHANGED <<outputVars, received, disturbed, landed>> /\ batch' = Tail(batch)
  BY DEF MoverProgresses, HandleReleased, HandleOther, AfterEvent, KeepMover
<1>2. Tidy /\ batch # <<>>
  BY <1>1, Typed DEF MoverInv, ServerInv, ServerTypes, CallsReady
<1>3. Event = Coming[1] /\ 1 \in DOMAIN Coming /\ Event \in EventSet /\ PartOf(Coming', Coming, 1)
  BY <1>1, <1>2, HandledComing DEF Tidy, outputVars
<1>4. mover \in MoverSet /\ (Running(mover) => mover.stage \notin Resting)
  BY DEF MoverInv, MoverTypes, Running, Active
<1>5. GoesBy(mover, mover', Event)
  BY <1>1, <1>3, <1>4, EventEffect
<1>6. Concerns(mover, Event) => Own(Event) /\ Active
  BY DEF Concerns, Own, OwnReport, IsFor, Running, Active
<1>7. Concerns(mover, Event) => mover.stage = StageOf(Event.kind) /\ mover.pending
  BY <1>3, <1>6 DEF FlagsInv, KindInv, OwnAround, MoverInv, ComingInv, Timely
<1> DEFINE ends(kind) == Concerns(mover, Event) /\ Event.finished /\ Event.kind = kind
           press == ends("TRANSACTION_PRESS") /\ ~Event.blocked
<1>8. /\ mover'.pressed => mover.pressed \/ press
      /\ mover'.released => mover.released \/ ends("TRANSACTION_RELEASE")
      /\ Hand(mover') => Hand(mover) \/ press
  BY <1>1, <1>3, <1>4, <1>7, EventHand
<1>9. (press => Active /\ PressTold) /\ (ends("TRANSACTION_RELEASE") => Active /\ ReleaseTold)
  BY <1>1, <1>3, <1>6 DEF PressTold, ReleaseTold, EndTold, Finishes
<1> HIDE DEF ends, press
<1>10. Active' => Active
  BY <1>5 DEF GoesBy, Running, Active
<1>11. Active' => SameClick
  BY <1>1, <1>3, <1>5, <1>8, <1>9, <1>10 DEF SameClick, GoesBy, SameRequest, outputVars
<1>12. OneLayout' => OneLayout
  BY <1>1 DEF OneLayout, outputVars
<1> QED
  BY <1>1, <1>5, <1>8, <1>9, <1>11, <1>12, ClickKept DEF GoesBy, SameRequest

LEMMA AsideClick ==
  ASSUME MoverInv, ClickInv,
         \/ Unmoved \/ MoverHold \/ MoverLapse \/ PhysicalArrives \/ UNCHANGED moveVars
  PROVE  ClickInv'
<1>1. mover' = mover /\ landed' = landed
  BY DEF Unmoved, KeepMover, MoverHold, MoverLapse, PhysicalArrives, moverVars, moveVars
<1>2. generation' = generation
  BY DEF Unmoved, Top, Resnapshot, FetchEvents, FetchOverflow, TakeEvents, TakeOverflow, TickIdle,
     Timeout, EnqueueHold, LastRelease, Watchdog, TickRelease, Accept, Refuse, MoverHold,
     ReceiveHold, MoverLapse, Lapse, PhysicalArrives, moveVars, vars, outputVars
<1>3. (received' = received /\ disturbed' = disturbed) \/ disturbed'
  BY DEF Unmoved, KeepMover, MoverHold, MoverLapse, PhysicalArrives, moverVars, moveVars
<1>4. ASSUME Active' PROVE SameClick
  <2>1. Active /\ ~releasePending /\ pc \notin {"hold", "stopping"}
    BY <1>1, <1>4 DEF Active, MoverInv, SoleUse
  <2>2. UNCHANGED <<wire, applied, physical, host, held, queue>>
        /\ \E s \in Nat : PartOf(Coming', Coming, s)
    <3>1. CASE \/ Top \/ Resnapshot \/ TickIdle \/ Timeout \/ (Watchdog /\ ~Silent) \/ TickRelease
               \/ EnqueueHold \/ LastRelease
               \/ MoverHold \/ MoverLapse \/ PhysicalArrives \/ UNCHANGED moveVars
      <4>1. UNCHANGED <<batch, outputVars>>
        BY <2>1, <3>1 DEF Top, Resnapshot, TickIdle, Timeout, Watchdog, TickRelease, EnqueueHold,
           LastRelease, MoverHold, MoverLapse, Lapse, PhysicalArrives, moveVars, vars, serverVars,
           loopVars
      <4> QED
        BY <4>1, SameComing DEF outputVars
    <3>2. CASE FetchEvents
      <4>1. Tidy /\ batch = <<>> /\ Coming' = Coming
        BY <3>2, Typed, FetchedComing DEF MoverInv, ComingInv, FetchEvents, Tidy
      <4>2. PartOf(Coming', Coming, 0)
        BY <4>1 DEF PartOf, Tidy
      <4> QED
        BY <3>2, <4>2 DEF FetchEvents, TakeEvents
    <3>3. CASE FetchOverflow
      BY <3>3, SameComing DEF FetchOverflow, TakeOverflow, loopVars
    <3> QED
      BY <3>1, <3>2, <3>3 DEF Unmoved
  <2> QED
    BY <1>1, <1>3, <2>1, <2>2 DEF SameClick
<1> QED
  BY <1>1, <1>2, <1>4, ClickKept DEF OneLayout

LEMMA NothingTold ==
  ASSUME \A kind : ~OwnAround(kind)
  PROVE  ~PressTold /\ (\A kind : ~EndTold(kind)) /\ ~OwnWire
         /\ (\A j \in DOMAIN queue : ~Own(queue[j])) /\ ~ReleaseQueuedHere
  BY DEF OwnAround, PressTold, EndTold, Finishes, ReleaseQueuedHere

LEMMA EnqueueClick ==
  ASSUME MoverInv, ClickInv, EnqueueMover
  PROVE  ClickInv'
<1>1. /\ pc = "moverReport" /\ batch' = batch /\ Active /\ mover \in MoverSet
      /\ WantsReport(mover) /\ ~mover.pending
      /\ received' = received /\ disturbed' = disturbed /\ landed' = landed
  BY DEF EnqueueMover, KeepServer, loopVars, MoverInv, TurnInv, MoverTypes
<1>2. CASE Accept(MoverReport(mover)) /\ mover' = [mover EXCEPT !.pending = TRUE]
  <2> DEFINE c == MoverReport(mover)
  <2>1. /\ mover'.stage = mover.stage /\ mover'.pressed = mover.pressed
        /\ mover'.released = mover.released /\ mover'.pending
        /\ mover'.button = mover.button /\ mover'.key = mover.key
    BY <1>1, <1>2 DEF MoverSet
  <2>2. /\ mover.stage = StageOf(c.kind) /\ c.kind \in Transactions
        /\ c.persistent = {} /\ c.button = mover.button
        /\ c.scheduled = IF mover.stage = "Press" THEN {mover.button} ELSE {}
    BY <1>1, ReportStage, MoverReports
  <2>3. UNCHANGED <<applied, physical, host, held, wire, generation>>
    BY <1>2 DEF Accept
  <2> HIDE DEF c
  <2>4. PICK e \in EntrySet : /\ queue' = <<e>> /\ e.kind = c.kind /\ e.persistent = c.persistent
                              /\ e.scheduled = c.scheduled /\ e.button = c.button
    BY <1>1, <1>2, ReportQueued DEF c
  <2>5. /\ ~OwnWire /\ (\A i \in DOMAIN Coming : ~Own(Coming[i]))
        /\ told' = told /\ events' = events
    BY <1>1, <1>2, ReportQueued
  <2>6. Coming' = Coming /\ Written' = Written
    BY <1>1, <2>3, <2>5 DEF Coming, Written
  <2>7. \A r : Own(r)' <=> Own(r)
    BY <2>1 DEF Own, OwnReport
  <2>8. ~PressTold' /\ ~ReleaseTold' /\ ~OwnWire'
    BY <2>3, <2>5, <2>6, <2>7 DEF PressTold, ReleaseTold, EndTold, Finishes, OwnWire, Own, OwnReport
  <2> SUFFICES ASSUME OneLayout PROVE ClickInv'
    BY <2>3 DEF ClickInv, OneLayout
  <2>9. FlagsSeen /\ ButtonInv /\ PressInv
    BY <1>1 DEF ClickInv
  <2>10. FlagsSeen' /\ ButtonInv'
    BY <1>1, <2>1, <2>3, <2>6, <2>9 DEF FlagsSeen, ButtonInv
  <2>11. (c.kind = "TRANSACTION_PRESS" <=> mover.stage = "Press")
         /\ (c.kind = "TRANSACTION_RELEASE" => mover.stage = "Release")
    BY <2>2 DEF StageOf, Transactions, Forced
  <2>12. MaskInv'
    BY <2>1, <2>2, <2>4, <2>11 DEF MaskInv
  <2>13. PressInv'
    <3>1. ReleaseQueuedHere' => Hand(mover)
      BY <1>1, <2>4, <2>11 DEF ReleaseQueuedHere, Hand
    <3>2. Hand(mover') => Hand(mover)
      BY <2>1 DEF Hand
    <3> QED
      BY <2>1, <2>3, <2>8, <2>9, <3>1, <3>2 DEF PressInv
  <2> QED
    BY <2>8, <2>10, <2>12, <2>13 DEF ClickInv, EdgeInv, ToldInv
<1>3. CASE Refuse("QueueFull") /\ UNCHANGED mover
  BY <1>1, <1>3, QuietClick DEF Refuse, SameRequest, SameHand, Active
<1>4. CASE UNCHANGED outputVars /\ mover' = StopMover(mover, "EndpointChanged")
  <2>1. Ends(mover, mover')
    BY <1>1, <1>4, StopEnds DEF Statuses
  <2>2. mover'.stage = "Done"
    BY <1>1, <1>4 DEF StopMover, MoverSet, Active
  <2> QED
    BY <1>1, <1>4, <2>1, <2>2, StoppedHand, QuietClick DEF Ends, SameHand, Hand, Running, Active
<1> QED
  BY <1>2, <1>3, <1>4 DEF EnqueueMover

LEMMA ExecuteClick ==
  ASSUME MoverInv', HostInv, ClickInv, NEW peer \in Peers, NEW key \in Keys, NEW r \in Requests,
         ReceiveExecute(peer, key, r)
  PROVE  ClickInv'
<1>1. ~mover'.pressed /\ ~mover'.released /\ ~mover'.pending
  BY ExecuteFlags
<1>2. mover'.stage = "Out" /\ mover'.button = r.button /\ mover'.status = "Active"
  <2> DEFINE i == Idle
  <2>1. i \in MoverSet
    BY IdleTyped
  <2>2. mover' = [i EXCEPT !.status = "Active", !.stage = "Out", !.key = key,
                      !.generation = generation, !.dx = r.dx, !.button = r.button, !.wait = r.wait]
    BY DEF ReceiveExecute
  <2> HIDE DEF i
  <2> QED
    BY <2>1, <2>2 DEF MoverSet
<1>3. \A kind : ~OwnAround(kind)'
  BY <1>1, <1>2, NothingAroundNext DEF Active
<1>4. ~PressTold' /\ ~ReleaseTold' /\ ~OwnWire' /\ MaskInv' /\ ~ReleaseQueuedHere'
  BY <1>3 DEF OwnAround, PressTold, ReleaseTold, EndTold, Finishes, ReleaseQueuedHere, MaskInv
<1>5. /\ UNCHANGED outputVars /\ landed' = NothingLanded /\ LastReceived(received')
      /\ r.button # NoButton => r.button \notin received'
  BY DEF ReceiveExecute
<1>6. OneLayout' /\ wire # <<>> /\ Written.carries => Written.buttons = received'
  BY <1>5 DEF LastReceived, HostInv, FirstInv, OneLayout, Current, outputVars
<1>7. OneLayout' => ButtonInv'
  BY <1>2, <1>5, <1>6 DEF ButtonInv, NothingLanded, outputVars, Written
<1>8. ~Hand(mover')
  BY <1>2 DEF Hand
<1> QED
  BY <1>1, <1>4, <1>7, <1>8 DEF ClickInv, FlagsSeen, PressInv, EdgeInv, ToldInv

LEMMA EndpointClick ==
  ASSUME MoverInv, HostInv, ClickInv, EndpointActs
  PROVE  ClickInv'
<1>1. /\ mover' = mover /\ landed' = landed /\ batch' = batch
      /\ received' = received /\ disturbed' = disturbed
  BY DEF EndpointActs, moverVars, serverVars, loopVars
<1>2. CASE Tell \/ BecomeReady \/ Discard
  <2>1. UNCHANGED <<generation, queue, held, wire, physical, host, applied>>
    BY <1>2 DEF Tell, BecomeReady, Discard
  <2>2. \E s \in Nat : PartOf(Coming', Coming, s)
    <3>1. CASE Tell
      BY <1>1, <3>1, Typed, ToldComing DEF MoverInv, Tidy
    <3>2. CASE BecomeReady \/ Discard
      BY <1>1, <3>2, SameComing DEF BecomeReady, Discard
    <3> QED
      BY <1>2, <3>1, <3>2
  <2>3. Active' => SameClick
    BY <1>1, <2>1, <2>2 DEF SameClick, Active
  <2> QED
    BY <1>1, <2>1, <2>3, ClickKept DEF OneLayout
<1>3. CASE Reset
  <2>1. OneLayout' => OneLayout /\ ~Active'
    BY <1>1, <1>3, Typed DEF Reset, OneLayout, HostInv, FirstInv, Active, MoverInv, Tidy
  <2> QED
    BY <1>1, <2>1, ClickKept
<1> QED
  BY <1>2, <1>3 DEF EndpointActs

LEMMA TakesClick ==
  ASSUME MoverInv, MoverInv', FlagsInv, HostInv, HostInv', ClickInv, WriterTakesGuarded
  PROVE  ClickInv'
<1>1. /\ WriterTakes /\ GuardHolds /\ SameButtons
      /\ UNCHANGED <<generation, physical, host, applied, mover, landed,
                   received, disturbed, batch>>
  BY DEF WriterTakesGuarded, WriterTakes, PassOver, StartEntry, StartPhysical, StartForeign, Start,
     serverVars, loopVars, moverVars
<1>2. PICK k \in 0 .. Len(queue), giveUp \in BOOLEAN :
        \/ PassOver(k, giveUp)
        \/ \E carries \in BOOLEAN, buttons \in SUBSET PhysicalButtons :
             StartEntry(k, giveUp, carries, buttons)
        \/ \E g \in 1 .. generation, buttons \in SUBSET PhysicalButtons :
             StartPhysical(k, giveUp, g, buttons)
        \/ \E g \in 1 .. generation : StartForeign(k, giveUp, g)
  BY <1>1 DEF WriterTakes
<1>3. Skips(k, giveUp) /\ ~held /\ wire = <<>> /\ UNCHANGED <<told, events>>
  BY <1>2 DEF PassOver, StartEntry, StartPhysical, StartForeign, Start, Skips, WriterFree
<1>4. FlagsSeen' = FlagsSeen /\ OneLayout' = OneLayout /\ Active' = Active
  BY <1>1 DEF FlagsSeen, OneLayout, Active
<1> SUFFICES ASSUME OneLayout, Active
             PROVE  ButtonInv' /\ MaskInv' /\ PressInv' /\ EdgeInv' /\ ToldInv'
  BY <1>4 DEF ClickInv
<1>5. FlagsSeen /\ ButtonInv /\ MaskInv /\ PressInv /\ EdgeInv /\ ToldInv
  BY DEF ClickInv
<1>6. Coming' = Coming
  BY <1>1, <1>3 DEF Coming
<1>7. \A r : Own(r)' <=> Own(r)
  BY <1>1 DEF Own, OwnReport
<1>8. PressTold' = PressTold /\ ReleaseTold' = ReleaseTold
  BY <1>1, <1>6 DEF PressTold, ReleaseTold, EndTold, Finishes, Own, OwnReport
<1>9. ToldInv'
  BY <1>1, <1>5, <1>8 DEF ToldInv
<1>10. /\ GuardedQueued => queue' = queue
       /\ GuardedQueued' => GuardedQueued
  BY <1>3, SkipsGuarded
<1>11. MaskInv' /\ (ReleaseQueuedHere' => ReleaseQueuedHere)
  <2>1. CASE queue' = queue
    BY <1>1, <1>5, <2>1 DEF MaskInv, ReleaseQueuedHere, Own, OwnReport
  <2>2. CASE queue' # queue
    <3>1. \A j \in DOMAIN queue' : ~Own(queue'[j])
      BY <1>10, <2>2 DEF GuardedQueued, Guarded, Own, OwnReport
    <3> QED
      BY <1>7, <3>1 DEF MaskInv, ReleaseQueuedHere, Own, OwnReport
  <2> QED
    BY <2>1, <2>2
<1>12. PressInv'
  BY <1>1, <1>5, <1>8, <1>11 DEF PressInv
<1>13. wire' # <<>> => wire' # wire /\ Written'.generation = generation /\ Written' = wire'[1]
  BY <1>1, <1>3, <1>4 DEF HostInv, FirstInv, Current, Written
<1>14. ~disturbed /\ wire' # <<>> /\ Written'.carries => Written'.buttons = received
  BY <1>1, <1>13 DEF SameButtons
<1>15. ButtonInv'
  BY <1>1, <1>5, <1>14 DEF ButtonInv
<1>16. EdgeInv'
  <2> SUFFICES ASSUME OwnWire', held'
               PROVE  /\ Written'.kind = "TRANSACTION_PRESS" /\ ~Written'.blocked
                           => mover.button \in Written'.shown \ host
                      /\ Written'.kind = "TRANSACTION_RELEASE"
                           => mover.button \in host \ Written'.shown
    BY <1>1 DEF EdgeInv
  <2>1. wire' # <<>> /\ Guarded(Written')
    BY DEF OwnWire, Own, OwnReport, Guarded
  <2>2. ~disturbed
    BY <1>1, <1>13, <2>1 DEF GuardHolds, Guarded
  <2>3. PICK carries \in BOOLEAN, buttons \in SUBSET PhysicalButtons :
          StartEntry(k, giveUp, carries, buttons)
    BY <1>2, <1>3 DEF PassOver, StartPhysical, StartForeign
  <2> DEFINE entry == Head(AfterSkip(k, giveUp))
  <2>4. entry = queue'[1]
    <3>1. OutputTypes /\ k < Len(queue)
      BY <2>3, Typed DEF StartEntry, MoverInv, Tidy
    <3>2. queue' = AfterSkip(k, giveUp) /\ queue' \in Seq(EntrySet) /\ queue' # <<>>
      BY <1>3, <3>1, SkipsTyped
    <3>3. Head(queue') = queue'[1]
      BY <3>2, TailElements
    <3> QED
      BY <3>2, <3>3
  <2>5. PICK motion : Start(EntryReport(entry, motion, carries, buttons))
    BY <2>3 DEF StartEntry
  <2> HIDE DEF entry
  <2>6. /\ Written'.carries = carries /\ Written'.masks = Masks(entry)
        /\ Written'.kind = entry.kind /\ Written'.key = entry.key
        /\ Written'.shown = buttons \cup ButtonsOf(Masks(entry))
        /\ carries => Written'.buttons = buttons
        /\ entry.kind \in Presses /\ entry.button \in physical \cup ButtonsOf(applied)
             => Written'.blocked
    BY <2>5 DEF Start, EntryReport, Written
  <2>7. Own(entry) /\ 1 \in DOMAIN queue'
    <3>1. Own(entry)
      BY <1>7, <2>6 DEF OwnWire, Own, OwnReport
    <3>2. queue' # <<>>
      BY Typed, TypedNext DEF MoverInv, Tidy, OutputTypes, HeldIsFront
    <3> QED
      BY <3>1, <3>2, TypedNext DEF MoverInv, Tidy
  <2>8. /\ entry.persistent = {} /\ entry.button = mover.button
        /\ entry.scheduled = IF entry.kind = "TRANSACTION_PRESS" THEN {mover.button} ELSE {}
    BY <1>1, <1>11, <2>4, <2>7 DEF MaskInv, Own, OwnReport
  <2>9. host = physical \cup ButtonsOf(applied)
    BY ActiveExact DEF HostExact
  <2>10. ASSUME Written'.kind = "TRANSACTION_PRESS", ~Written'.blocked
         PROVE  mover.button \in Written'.shown \ host
    <3>1. mover.button \notin host
      BY <2>6, <2>8, <2>9, <2>10 DEF Presses
    <3> QED
      BY <2>6, <2>8, <2>10, <3>1 DEF Masks, ButtonsOf
  <2>11. ASSUME Written'.kind = "TRANSACTION_RELEASE"
         PROVE  mover.button \in host \ Written'.shown
    <3>1. queue' = queue /\ ReleaseQueuedHere
      <4>1. ReleaseQueuedHere'
        BY <1>7, <2>4, <2>6, <2>7, <2>11 DEF ReleaseQueuedHere, Own, OwnReport
      <4>2. GuardedQueued'
        BY <2>4, <2>7 DEF GuardedQueued, Guarded, Own, OwnReport
      <4> QED
        BY <1>10, <1>11, <4>1, <4>2
    <3>2. mover.button \in host
      BY <1>5, <2>9, <3>1 DEF PressInv, ButtonsOf
    <3>3. landed.press /\ mover.button # NoButton
      <4>1. mover.stage = "Release"
        BY <3>1 DEF ReleaseQueuedHere, FlagsInv, KindInv, OwnAround, StageOf
      <4>2. mover.pressed /\ mover.button # NoButton
        BY <4>1 DEF FlagsInv, StageInv, StageOK
      <4> QED
        BY <1>5, <4>2 DEF FlagsSeen
    <3>4. mover.button \notin buttons
      <4>1. CASE carries
        BY <1>5, <1>14, <2>1, <2>2, <2>6, <3>3, <4>1 DEF ButtonInv
      <4>2. CASE ~carries
        <5>1. buttons \subseteq physical
          BY <2>3, <4>2 DEF StartEntry, Remembered
        <5> QED
          BY <1>5, <2>2, <3>3, <5>1 DEF ButtonInv
      <4> QED
        BY <4>1, <4>2
    <3> QED
      BY <2>6, <2>8, <2>11, <3>2, <3>4 DEF Masks, ButtonsOf
  <2> QED
    BY <2>10, <2>11
<1> QED
  BY <1>9, <1>11, <1>12, <1>15, <1>16

(* The report of the transaction that has been written is the one it waits *)
(* for; what the host sees of it is what its event will say.               *)
LEMMA LandsClick ==
  ASSUME MoverInv, MoverInv', FlagsInv, HostInv, HostInv', ClickInv, WriterLands
  PROVE  ClickInv'
<1>1. PICK success \in BOOLEAN : Finish(success) /\ Land(success)
  BY DEF WriterLands
<1>2. /\ UNCHANGED <<generation, mover, disturbed, received, batch>>
      /\ wire # <<>> /\ wire' = <<>> /\ held' = FALSE /\ HostSees(success)
  BY <1>1 DEF WriterLands, Finish, serverVars, loopVars
<1>3. /\ Written \in WireSet /\ Tidy /\ WriterInv /\ landed \in LandedSet
      /\ mover \in MoverSet
  BY <1>2, Typed DEF MoverInv, MoverTypes, Tidy, OutputTypes, WireTypes, Written
<1>4. OneLayout' = OneLayout /\ Active' = Active /\ (\A r : Own(r)' <=> Own(r))
  BY <1>2 DEF OneLayout, Active, Own, OwnReport
<1>5. (landed.press => landed'.press) /\ (landed.release => landed'.release)
  BY <1>1, <1>3 DEF Land, LandedSet
<1> SUFFICES ASSUME OneLayout PROVE ClickInv'
  BY <1>4 DEF ClickInv
<1>6. FlagsSeen'
  BY <1>2, <1>5 DEF ClickInv, FlagsSeen
<1> SUFFICES ASSUME Active
             PROVE  ButtonInv' /\ MaskInv' /\ PressInv' /\ EdgeInv' /\ ToldInv'
  BY <1>4, <1>6 DEF ClickInv
<1>7. ButtonInv /\ MaskInv /\ PressInv /\ EdgeInv /\ ToldInv
  BY DEF ClickInv
<1>8. EdgeInv'
  BY <1>2 DEF EdgeInv, OwnWire
<1>9. HostExact /\ Current /\ ~(Written.generation < generation)
  <2>1. HostExact /\ Written.generation = generation
    BY <1>2, ActiveExact DEF MoverInv
  <2> QED
    BY <1>2, <1>3, <2>1 DEF Current, Tidy
<1> HIDE DEF Written
<1>10. /\ PressTold' => PressTold \/ (Own(Written) /\ success /\ held /\ Rewritten.left = 0
                                       /\ Written.kind = "TRANSACTION_PRESS" /\ ~Written.blocked)
       /\ ReleaseTold' => ReleaseTold \/ (Own(Written) /\ success /\ held
                                           /\ Written.kind = "TRANSACTION_RELEASE")
  <2> DEFINE e == EventOf(success)
  <2>1. CASE Coming' = Coming
    BY <1>4, <2>1 DEF PressTold, ReleaseTold, EndTold, Finishes, Own, OwnReport
  <2>2. CASE Coming' # Coming
    <3>1. /\ Coming' = Append(Coming, e) /\ e \in EventSet
          /\ e.kind = Written.kind /\ e.key = Written.key /\ e.success = success
          /\ e.finished <=> success /\ held /\ Rewritten.left = 0
      BY <1>1, <1>2, <2>2, CompletionComes
    <3>2. e.blocked = Written.blocked
      BY DEF EventOf
    <3> HIDE DEF e
    <3>3. \A i \in DOMAIN Coming' :
            (i \in DOMAIN Coming /\ Coming'[i] = Coming[i]) \/ Coming'[i] = e
      BY <1>3, <3>1, AppendElements DEF Tidy
    <3>4. Finishes(e) => Own(Written) /\ success /\ held /\ Rewritten.left = 0
      BY <3>1 DEF Finishes, Own
    <3>5. \A r : Finishes(r)' <=> Finishes(r)
      BY <1>4 DEF Finishes
    <3>6. ASSUME PressTold' PROVE PressTold \/ (Finishes(e) /\ e.kind = "TRANSACTION_PRESS"
                                                /\ ~e.blocked)
      <4>1. PICK i \in DOMAIN Coming' : /\ Finishes(Coming'[i])
                                        /\ Coming'[i].kind = "TRANSACTION_PRESS"
                                        /\ ~Coming'[i].blocked
        BY <1>4, <3>6 DEF PressTold, Finishes, Own, OwnReport
      <4> QED
        BY <3>3, <4>1 DEF PressTold
    <3>7. ASSUME ReleaseTold' PROVE ReleaseTold \/ (Finishes(e) /\ e.kind = "TRANSACTION_RELEASE")
      <4>1. PICK i \in DOMAIN Coming' : /\ Finishes(Coming'[i])
                                        /\ Coming'[i].kind = "TRANSACTION_RELEASE"
        BY <1>4, <3>7 DEF ReleaseTold, EndTold, Finishes, Own, OwnReport
      <4> QED
        BY <3>3, <4>1 DEF ReleaseTold, EndTold
    <3> QED
      BY <3>1, <3>2, <3>4, <3>6, <3>7
  <2> QED
    BY <2>1, <2>2
<1>11. physical' = physical \/ (Written.carries /\ physical' = Written.buttons)
  BY <1>2, <1>9 DEF HostSees
<1>12. CASE ~held
  <2>1. Written.kind = "NONE"
    BY <1>9, <1>12 DEF HostExact, Orphan
  <2>2. landed' = landed /\ applied' = applied /\ queue' = queue
    BY <1>1, <1>12, <2>1 DEF Land, Finish, Transactions, Forced
  <2>3. (PressTold' => PressTold) /\ (ReleaseTold' => ReleaseTold)
    BY <1>10, <1>12
  <2>4. ToldInv'
    BY <1>5, <1>7, <2>3 DEF ToldInv
  <2>5. MaskInv' /\ (ReleaseQueuedHere' => ReleaseQueuedHere)
    BY <1>2, <1>4, <1>7, <2>2 DEF MaskInv, ReleaseQueuedHere, Own, OwnReport
  <2>6. PressInv'
    BY <1>2, <1>7, <2>2, <2>3, <2>5 DEF PressInv, Hand
  <2>7. ButtonInv'
    BY <1>2, <1>7, <1>11, <2>2 DEF ButtonInv
  <2> QED
    BY <1>8, <2>4, <2>5, <2>6, <2>7
<1>13. CASE held
  <2>1. /\ queue # <<>> /\ queue \in Seq(EntrySet) /\ DOMAIN queue = 1 .. Len(queue)
        /\ Head(queue) = queue[1] /\ queue[1] \in EntrySet /\ 1 \in DOMAIN queue
    BY <1>3, <1>13, TailElements DEF Tidy, OutputTypes, QueueTypes, HeldIsFront
  <2>2. /\ Written.kind = queue[1].kind /\ Written.key = queue[1].key
        /\ Written.masks = Masks(queue[1])
    BY <1>3, <1>13 DEF WriterInv, HeldReport
  <2>3. /\ GuardedQueued /\ Len(queue) = 1 /\ Own(queue[1]) /\ mover.pending /\ ~FinishComes
    <3>1. GuardedQueued
      BY <2>1 DEF MoverInv, SoleUse, GuardedQueued
    <3> QED
      BY <3>1 DEF MoverInv, GuardedInv, Owned, Running, Active
  <2>4. Own(Written) /\ OwnWire
    BY <1>2, <2>2, <2>3 DEF OwnWire, Own
  <2>5. mover.stage = StageOf(Written.kind) /\ Written.kind \in Transactions
    BY <2>4 DEF FlagsInv, KindInv, OwnAround, Own, OwnReport
  <2>6. ~Hand(mover)' /\ ~PressTold /\ ~ReleaseTold
    <3>1. ~Hand(mover)
      BY <2>3, <2>5 DEF Hand, StageOf, Transactions, Forced
    <3> QED
      BY <1>2, <2>3, <3>1 DEF Hand, PressTold, ReleaseTold, EndTold, FinishComes
  <2>7. /\ queue[1].persistent = {} /\ queue[1].button = mover.button
        /\ queue[1].scheduled =
             IF queue[1].kind = "TRANSACTION_PRESS" THEN {mover.button} ELSE {}
    BY <1>7, <2>1, <2>3 DEF MaskInv
  <2>8. Written.kind = "TRANSACTION_PRESS" => mover.button # NoButton
    <3>1. StageOK(mover)
      BY DEF FlagsInv, StageInv
    <3> QED
      BY <2>5, <3>1 DEF StageOK, StageOf
  <2>9. /\ Written.kind = "TRANSACTION_PRESS" /\ ~Written.blocked
             => mover.button \in Written.shown \ host
        /\ Written.kind = "TRANSACTION_RELEASE" => mover.button \in host \ Written.shown
    BY <1>7, <1>13, <2>4 DEF EdgeInv
  <2>10. mover.button \in host' \ host => mover.button \notin physical
    BY <1>9 DEF HostExact
  <2>11. ButtonInv'
    <3>1. landed'.press => landed.press
            \/ (Written.kind = "TRANSACTION_PRESS" /\ mover.button \in host' \ host)
      BY <1>1 DEF Land
    <3> QED
      BY <1>2, <1>7, <1>11, <2>8, <2>10, <3>1 DEF ButtonInv
  <2>12. CASE ~success
    <3>1. landed' = landed /\ applied' = applied /\ queue' = queue
      BY <1>1, <2>12 DEF Land, Finish
    <3>2. ~PressTold' /\ ~ReleaseTold'
      BY <1>10, <2>6, <2>12
    <3>3. MaskInv' /\ (ReleaseQueuedHere' => ReleaseQueuedHere)
      BY <1>2, <1>4, <1>7, <3>1 DEF MaskInv, ReleaseQueuedHere, Own, OwnReport
    <3>4. PressInv'
      BY <1>2, <1>7, <2>6, <3>1, <3>2, <3>3 DEF PressInv
    <3> QED
      BY <1>8, <2>11, <3>2, <3>3, <3>4 DEF ToldInv
  <2>13. CASE success
    <3>1. applied' = Written.masks /\ host' = Written.shown
      <4>1. Written.kind # "NONE"
        BY <2>5 DEF Transactions, Forced
      <4> QED
        BY <1>1, <1>2, <1>13, <2>13, <4>1 DEF Finish, HostSees
    <3>2. /\ Written.kind = "TRANSACTION_PRESS" /\ mover.button \in host' \ host => landed'.press
          /\ Written.kind = "TRANSACTION_RELEASE" /\ mover.button \in host \ host'
               => landed'.release
      BY <1>1, <2>4, <2>13 DEF Land, Own, OwnReport
    <3>3. ToldInv'
      BY <1>10, <2>6, <2>9, <3>1, <3>2 DEF ToldInv
    <3>4. \/ DOMAIN queue' = {}
          \/ /\ DOMAIN queue' = {1} /\ queue'[1].left # 0 /\ queue'[1].committed
             /\ \A field \in {"kind", "key", "button", "persistent", "scheduled"} :
                  queue'[1][field] = queue[1][field]
      <4>1. /\ Rewritten \in EntrySet
            /\ Rewritten = [queue[1] EXCEPT !.committed = TRUE,
                                            !.left = queue[1].left - Written.motion]
        BY <1>2, <1>3, <2>1, RewrittenTyped DEF Tidy
      <4>2. CASE Rewritten.left = 0
        <5>1. queue' = Tail(queue)
          BY <1>1, <1>13, <2>13, <4>2 DEF Finish
        <5>2. Tail(queue) \in Seq(EntrySet) /\ Len(Tail(queue)) = 0
          BY <2>1, <2>3, TailElements
        <5> QED
          BY <5>1, <5>2
      <4>3. CASE Rewritten.left # 0
        <5>1. queue' = [queue EXCEPT ![1] = Rewritten]
          BY <1>1, <1>13, <2>13, <4>3 DEF Finish
        <5> HIDE DEF Rewritten
        <5>2. DOMAIN queue' = DOMAIN queue /\ queue'[1] = Rewritten
          BY <2>1, <4>1, <5>1, FirstEdited
        <5>3. DOMAIN queue = {1}
          BY <2>1, <2>3
        <5> QED
          BY <2>1, <4>1, <4>3, <5>2, <5>3 DEF EntrySet
      <4> QED
        BY <4>2, <4>3
    <3>5. MaskInv'
      BY <1>2, <2>7, <3>4 DEF MaskInv
    <3>6. ~ReleaseQueuedHere'
      <4> SUFFICES ASSUME ReleaseQueuedHere' PROVE FALSE
        OBVIOUS
      <4>1. DOMAIN queue' = {1} /\ queue'[1].kind = "TRANSACTION_RELEASE" /\ Own(queue'[1])
        BY <1>2, <3>4 DEF ReleaseQueuedHere, Own, OwnReport
      <4>2. GuardedQueued'
        BY <4>1 DEF GuardedQueued, Guarded, Own, OwnReport
      <4>3. queue'[1].left = 0
        BY <4>1, <4>2 DEF MoverInv, GuardedInv, Motionless
      <4> QED
        BY <3>4, <4>1, <4>3
    <3>7. PressInv'
      <4>1. PressTold' => mover.button \in applied'.scheduled
        BY <1>10, <2>2, <2>6, <2>7, <3>1 DEF Masks
      <4> QED
        BY <1>2, <2>6, <3>6, <4>1 DEF PressInv
    <3> QED
      BY <1>8, <2>11, <3>3, <3>5, <3>7
  <2> QED
    BY <2>12, <2>13
<1> QED
  BY <1>12, <1>13

LEMMA ClickStepKeeps ==
  MoverInv /\ MoverInv' /\ FlagsInv /\ HostInv /\ HostInv' /\ ClickInv /\ [MoveNext]_moveVars
    => ClickInv'
<1> SUFFICES ASSUME MoverInv, MoverInv', FlagsInv, HostInv, HostInv', ClickInv,
                    [MoveNext]_moveVars
             PROVE  ClickInv'
  OBVIOUS
<1>1. CASE MoveLoop
  BY <1>1, TicksClick, StopsClick, EnqueueClick, ProgressClick, AsideClick DEF MoveLoop
<1>2. CASE AskedToStop
  BY <1>2, StopsClick
<1>3. CASE MovePacket
  BY <1>3, ExecuteClick, ControlClick DEF MovePacket
<1>4. CASE MoverHold \/ MoverLapse \/ PhysicalArrives \/ UNCHANGED moveVars
  BY <1>4, AsideClick
<1>5. CASE WriterTakesGuarded \/ WriterLands \/ EndpointActs
  BY <1>5, TakesClick, LandsClick, EndpointClick
<1> QED
  BY <1>1, <1>2, <1>3, <1>4, <1>5 DEF MoveNext

LEMMA MoveInitClick == MoveInit => ClickInv
  BY DEF MoveInit, Idle, NothingLanded, ClickInv, FlagsSeen, Active

LEMMA ClickHolds == MoveSpec => []ClickInv
  BY MoveInitClick, ClickStepKeeps, MoverCorrect, FlagsCorrect, HostHolds, PTL DEF MoveSpec

-----------------------------------------------------------------------------
(* A transaction completes by the whole way back: by the last report of    *)
(* its return, or without one when the host is where it started.           *)

DoneInv ==
  /\ Active => ~mover.uncertain
  /\ Active /\ EndTold("TRANSACTION_RETURN") => landed.net = 0
  /\ mover.status = "Completed" =>
       /\ landed.net = 0 /\ ~mover.uncertain
       /\ mover.button # NoButton => mover.pressed /\ mover.released

(* Ways to go on, and to end, that do not complete a transaction; and the  *)
(* way that does.                                                          *)
SameOutcome(m, n) ==
  /\ n.key = m.key /\ n.status = m.status /\ n.uncertain = m.uncertain
  /\ m.status = "Completed" => n = m
Unfinished(m) == m.status \notin {"Active", "Completed"}
Completes(m, n) ==
  /\ Running(m) /\ ~m.cancelled
  /\ n.status = "Completed" /\ n.uncertain = m.uncertain
  /\ n.button = m.button /\ n.pressed = m.pressed /\ n.released = m.released

LEMMA DoneKept ==
  ASSUME DoneInv, landed' = landed,
         \/ Unfinished(mover')
         \/ /\ SameOutcome(mover, mover')
            /\ Active' => \E s \in Nat : PartOf(Coming', Coming, s)
  PROVE  DoneInv'
<1>1. CASE Unfinished(mover')
  BY <1>1 DEF DoneInv, Unfinished, Active
<1>2. CASE /\ SameOutcome(mover, mover')
           /\ Active' => \E s \in Nat : PartOf(Coming', Coming, s)
  <2>1. Active' => Active /\ (EndTold("TRANSACTION_RETURN")' => EndTold("TRANSACTION_RETURN"))
    BY <1>2, ToldStays DEF SameOutcome, Active
  <2> QED
    BY <1>2, <2>1 DEF DoneInv, SameOutcome
<1> QED
  BY <1>1, <1>2

LEMMA StopDone ==
  ASSUME NEW m \in MoverSet, NEW reason \in Statuses \ {"Active", "Completed"}
  PROVE  /\ StopMover(m, reason) = m \/ Unfinished(StopMover(m, reason))
         /\ ~Running(StopMover(m, reason)) /\ StopMover(m, reason) \in MoverSet
<1>1. StopMover(m, reason) \in MoverSet /\ ~Running(StopMover(m, reason))
  BY StopEnds DEF Ends
<1> QED
  BY <1>1 DEF StopMover, MoverSet, Unfinished

LEMMA DivertedDone ==
  ASSUME NEW m \in MoverSet, Running(m)
  PROVE  /\ SameOutcome(m, Diverted(m)) /\ Diverted(m).cancelled = m.cancelled
         /\ Diverted(m).button = m.button
         /\ Diverted(m).pressed = m.pressed /\ Diverted(m).released = m.released
<1>1. Diverted(m) = m \/ \E stage : Diverted(m) = [m EXCEPT !.stage = stage]
  BY DEF Diverted, Enter
<1> QED
  BY <1>1 DEF SameOutcome, MoverSet, Running

LEMMA FinishedDone ==
  ASSUME NEW m \in MoverSet, Running(m)
  PROVE  Unfinished(Finished(m)) \/ Completes(m, Finished(m))
  BY DEF Finished, Unfinished, Completes, MoverSet, Running

LEMMA WaitedDone ==
  ASSUME NEW m \in MoverSet, Running(m), m.stage \notin Resting, ~WantsReport(m)
  PROVE  \/ SameOutcome(m, Waited(m)) \/ Unfinished(Waited(m))
         \/ Completes(m, Waited(m)) /\ m.stage = "Delay" /\ Residual(m) = 0
<1>1. CASE m.stage = "Delay" /\ Residual(m) = 0
  BY <1>1, FinishedDone DEF Waited
<1>2. CASE ~(m.stage = "Delay" /\ Residual(m) = 0)
  <2>1. \E stage : Waited(m) \in {[m EXCEPT !.stage = stage],
                                  [m EXCEPT !.stage = stage, !.cancelled = TRUE]}
    BY <1>2 DEF Waited, WantsReport, Enter, MoverSet, Stages, Resting
  <2> QED
    BY <2>1 DEF SameOutcome, MoverSet, Running
<1> QED
  BY <1>1, <1>2

LEMMA EventDone ==
  ASSUME NEW m \in MoverSet, NEW e \in EventSet, e.success
  PROVE  LET n == OnEvent(m, e)
         IN \/ SameOutcome(m, n) \/ Unfinished(n)
            \/ Completes(m, n) /\ Concerns(m, e) /\ e.finished /\ e.kind = "TRANSACTION_RETURN"
<1> DEFINE n == OnEvent(m, e)
<1> SUFFICES \/ SameOutcome(m, n) \/ Unfinished(n)
             \/ Completes(m, n) /\ Concerns(m, e) /\ e.finished /\ e.kind = "TRANSACTION_RETURN"
  OBVIOUS
<1>1. CASE ~Concerns(m, e)
  <2>1. n = m
    BY <1>1 DEF Concerns, OnEvent, Running
  <2> QED
    BY <2>1 DEF SameOutcome
<1>2. CASE Concerns(m, e)
  <2> DEFINE c == Credited(m, e)
             d == [c EXCEPT !.pending = FALSE]
  <2>1. n = IF e.finished THEN Advance(d, e) ELSE c
    BY <1>2 DEF Concerns, OnEvent, Running
  <2>2. /\ c \in MoverSet /\ SameRequest(m, c) /\ c.status = m.status
        /\ c.uncertain = m.uncertain /\ c.pressed = m.pressed /\ c.released = m.released
        /\ c.cancelled = m.cancelled /\ Running(m) /\ e.kind \in Transactions
    BY <1>2, CreditedTyped DEF Concerns
  <2> HIDE DEF c
  <2>3. /\ d \in MoverSet /\ SameRequest(m, d) /\ d.status = m.status
        /\ d.uncertain = m.uncertain /\ d.pressed = m.pressed /\ d.released = m.released
        /\ d.cancelled = m.cancelled /\ Running(d)
    BY <2>2 DEF MoverSet, SameRequest, Running
  <2> HIDE DEF d, n
  <2>4. CASE ~e.finished
    BY <2>1, <2>2, <2>4 DEF SameOutcome, SameRequest, Running
  <2>5. CASE e.finished
    <3>1. CASE e.kind = "TRANSACTION_RETURN"
      <4>1. n = Finished(d)
        BY <2>1, <2>5, <3>1 DEF Advance
      <4>2. Unfinished(n) \/ Completes(d, n)
        BY <2>3, <4>1, FinishedDone
      <4> QED
        BY <1>2, <2>2, <2>3, <2>5, <3>1, <4>2 DEF Completes, SameRequest
    <3>2. CASE e.kind = "TRANSACTION_PRESS" /\ e.blocked
      <4>1. n = StopMover(d, "ButtonActive")
        BY <2>1, <2>5, <3>2 DEF Advance
      <4>2. n = d \/ Unfinished(n)
        BY <2>3, <4>1, StopDone DEF Statuses
      <4> QED
        BY <2>3, <4>2 DEF SameOutcome, SameRequest, Running
    <3>3. CASE e.kind # "TRANSACTION_RETURN" /\ ~(e.kind = "TRANSACTION_PRESS" /\ e.blocked)
      <4>1. \E stage : n \in {[d EXCEPT !.stage = stage],
                              [d EXCEPT !.stage = stage, !.pressed = TRUE],
                              [d EXCEPT !.stage = stage, !.released = TRUE]}
        BY <2>1, <2>2, <2>3, <2>5, <3>3 DEF Advance, Enter, Transactions, Forced, MoverSet
      <4> QED
        BY <2>3, <4>1 DEF SameOutcome, SameRequest, Running, MoverSet
    <3> QED
      BY <3>1, <3>2, <3>3
  <2> QED
    BY <2>4, <2>5
<1> QED
  BY <1>1, <1>2

(* What completes: the press and the release were made, or there is none.  *)
LEMMA CompletedDone ==
  ASSUME NEW m \in MoverSet, StageOK(m), m.stage \in {"Delay", "Return"}, NEW n, Completes(m, n),
         ~m.uncertain
  PROVE  n.status = "Completed" /\ ~n.uncertain /\ (n.button # NoButton => n.pressed /\ n.released)
  BY DEF StageOK, Completes

LEMMA TicksDone ==
  ASSUME MoverInv, FlagsInv, AccountInv, DoneInv, TickOver \/ TickNothing \/ TickStage \/ TickWants
  PROVE  DoneInv'
<1>1. UNCHANGED <<outputVars, batch, landed>> /\ Active
  BY DEF TickOver, TickNothing, TickStage, TickWants, MoverTurn, KeepServer, loopVars
<1>2. /\ mover \in MoverSet /\ mover.stage \notin Resting /\ Running(mover) /\ StageOK(mover)
      /\ ~mover.uncertain
  BY <1>1 DEF MoverInv, MoverTypes, Active, Running, FlagsInv, StageInv, DoneInv
<1>3. \E s \in Nat : PartOf(Coming', Coming, s)
  BY <1>1, SameComing DEF outputVars
<1>4. CASE TickOver
  <2>1. mover' = StopMover(mover, WhyOver) /\ WhyOver \in Statuses \ {"Active", "Completed"}
    BY <1>4 DEF TickOver, WhyOver, Statuses
  <2>2. Unfinished(mover')
    BY <1>2, <2>1, StopDone DEF Running
  <2> QED
    BY <1>1, <2>2, DoneKept
<1>5. CASE TickNothing \/ TickWants
  <2>1. SameOutcome(mover, mover')
    BY <1>2, <1>5, DivertedDone DEF TickNothing, TickWants, SameOutcome
  <2> QED
    BY <1>1, <1>3, <2>1, DoneKept
<1>6. CASE TickStage
  <2> DEFINE d == Diverted(mover)
  <2>1. ~mover.pending /\ ~WantsReport(d) /\ mover' = Waited(d)
    BY <1>6 DEF TickStage
  <2>2. GoesOn(mover, d) /\ Running(d)
    BY <1>2, <2>1, DivertedGoesOn
  <2>3. StageOK(d) /\ SameOutcome(mover, d)
    BY <1>2, <2>1, DivertedStage, DivertedDone
  <2> HIDE DEF d
  <2>4. d \in MoverSet /\ d.stage \notin Resting /\ ~d.uncertain
    BY <1>2, <2>2 DEF GoesOn
  <2>5. \/ SameOutcome(d, mover') \/ Unfinished(mover')
        \/ Completes(d, mover') /\ d.stage = "Delay" /\ Residual(d) = 0
    BY <2>1, <2>2, <2>4, WaitedDone
  <2>6. CASE SameOutcome(d, mover') \/ Unfinished(mover')
    <3>1. SameOutcome(mover, mover') \/ Unfinished(mover')
      BY <1>2, <2>3, <2>6 DEF SameOutcome, Running
    <3> QED
      BY <1>1, <1>3, <3>1, DoneKept
  <2>7. CASE Completes(d, mover') /\ d.stage = "Delay" /\ Residual(d) = 0
    <3>1. landed.net = 0
      BY <1>1, <2>1, <2>2, <2>7 DEF AccountInv, LedgerInv, Balanced, GoesOn, SameMotion, Residual
    <3>2. mover'.status = "Completed" /\ ~mover'.uncertain
          /\ (mover'.button # NoButton => mover'.pressed /\ mover'.released)
      BY <2>3, <2>4, <2>7, CompletedDone
    <3> QED
      BY <1>1, <3>1, <3>2 DEF DoneInv, Active
  <2> QED
    BY <2>5, <2>6, <2>7
<1> QED
  BY <1>4, <1>5, <1>6

LEMMA StopsDone ==
  ASSUME MoverInv, DoneInv, ResetMover \/ LoopStops \/ AskedToStop \/ MoverFails
  PROVE  DoneInv'
<1>1. mover \in MoverSet
  BY DEF MoverInv, MoverTypes
<1>2. ~Active' /\ landed' = landed
  <2>1. ~Active'
    BY ResetsCall
  <2> QED
    BY <2>1 DEF ResetMover, LoopStops, AskedToStop, MoverFails, CancelMover, KeepMover
<1>3. SameOutcome(mover, mover') \/ Unfinished(mover')
  <2>1. CASE ResetMover
    BY <2>1 DEF ResetMover, SameOutcome
  <2>2. CASE LoopStops \/ AskedToStop
    <3>1. mover' = mover \/ Unfinished(mover')
      BY <1>1, <2>2, StopDone DEF LoopStops, AskedToStop, CancelMover, Statuses
    <3> QED
      BY <3>1 DEF SameOutcome
  <2>3. CASE MoverFails
    <3> DEFINE n == OnEvent(mover, Event)
    <3>1. mover' = StopMover(n, "Cancelled") /\ n \in {mover, StopMover(mover, "WriterFailed")}
      BY <2>3 DEF MoverFails, HandleFailure, OnEvent
    <3>2. n \in MoverSet /\ (n = mover \/ Unfinished(n))
      BY <1>1, <3>1, StopDone DEF Statuses
    <3> HIDE DEF n
    <3>3. mover' = n \/ Unfinished(mover')
      BY <3>1, <3>2, StopDone DEF Statuses
    <3> QED
      BY <3>2, <3>3 DEF SameOutcome
  <2> QED
    BY <2>1, <2>2, <2>3
<1> QED
  BY <1>2, <1>3, DoneKept

LEMMA ProgressDone ==
  ASSUME MoverInv, FlagsInv, DoneInv, MoverProgresses
  PROVE  DoneInv'
<1>1. /\ pc = "handle" /\ Event.success /\ mover' = OnEvent(mover, Event)
      /\ UNCHANGED <<outputVars, landed>> /\ batch' = Tail(batch)
  BY DEF MoverProgresses, HandleReleased, HandleOther, AfterEvent, KeepMover
<1>2. Tidy /\ batch # <<>> /\ mover \in MoverSet
  BY <1>1, Typed DEF MoverInv, ServerInv, ServerTypes, CallsReady, MoverTypes
<1>3. Event = Coming[1] /\ 1 \in DOMAIN Coming /\ Event \in EventSet /\ PartOf(Coming', Coming, 1)
  BY <1>1, <1>2, HandledComing DEF Tidy, outputVars
<1>4. \/ SameOutcome(mover, mover') \/ Unfinished(mover')
      \/ /\ Completes(mover, mover') /\ Concerns(mover, Event) /\ Event.finished
         /\ Event.kind = "TRANSACTION_RETURN"
  BY <1>1, <1>2, <1>3, EventDone
<1>5. CASE SameOutcome(mover, mover') \/ Unfinished(mover')
  BY <1>1, <1>3, <1>5, DoneKept
<1>6. CASE /\ Completes(mover, mover') /\ Concerns(mover, Event) /\ Event.finished
           /\ Event.kind = "TRANSACTION_RETURN"
  <2>1. Active /\ Own(Event) /\ Finishes(Event)
    BY <1>1, <1>6 DEF Concerns, Own, OwnReport, IsFor, Running, Active, Finishes
  <2>2. EndTold("TRANSACTION_RETURN") /\ OwnAround("TRANSACTION_RETURN")
    BY <1>3, <1>6, <2>1 DEF EndTold, OwnAround
  <2>3. mover.stage = "Return" /\ StageOK(mover)
    BY <2>1, <2>2 DEF FlagsInv, KindInv, StageInv, StageOf
  <2>4. landed.net = 0 /\ ~mover.uncertain
    BY <2>1, <2>2 DEF DoneInv
  <2>5. mover'.status = "Completed" /\ ~mover'.uncertain
        /\ (mover'.button # NoButton => mover'.pressed /\ mover'.released)
    BY <1>2, <1>6, <2>3, <2>4, CompletedDone
  <2> QED
    BY <1>1, <2>4, <2>5 DEF DoneInv, Active
<1> QED
  BY <1>4, <1>5, <1>6

LEMMA EnqueueDone ==
  ASSUME MoverInv, DoneInv, EnqueueMover
  PROVE  DoneInv'
<1>1. /\ Active /\ mover \in MoverSet /\ batch' = batch /\ landed' = landed
  BY DEF EnqueueMover, KeepServer, loopVars, MoverInv, TurnInv, MoverTypes
<1>2. CASE Accept(MoverReport(mover)) /\ mover' = [mover EXCEPT !.pending = TRUE]
  <2>1. SameOutcome(mover, mover')
    BY <1>1, <1>2 DEF SameOutcome, MoverSet, Active
  <2>2. \E s \in Nat : PartOf(Coming', Coming, s)
    BY <1>1, <1>2, SameComing DEF Accept
  <2> QED
    BY <1>1, <2>1, <2>2, DoneKept
<1>3. CASE Refuse("QueueFull") /\ UNCHANGED mover
  <2>1. \E s \in Nat : PartOf(Coming', Coming, s)
    BY <1>1, <1>3, SameComing DEF Refuse, outputVars
  <2> QED
    BY <1>1, <1>3, <2>1, DoneKept DEF SameOutcome
<1>4. CASE mover' = StopMover(mover, "EndpointChanged")
  <2>1. Unfinished(mover')
    BY <1>1, <1>4, StopDone DEF Statuses, Running, Active
  <2> QED
    BY <1>1, <2>1, DoneKept
<1> QED
  BY <1>2, <1>3, <1>4 DEF EnqueueMover

LEMMA PacketsDone ==
  ASSUME MoverInv, MoverInv', DoneInv, MovePacket
  PROVE  DoneInv'
<1>1. PICK peer \in Peers :
        \/ \E key \in Keys, r \in Requests : ReceiveExecute(peer, key, r)
        \/ \E operation \in {"Continue", "Cancel", "Query"} : ReceiveControl(peer, operation)
  BY DEF MovePacket
<1>2. ASSUME NEW key \in Keys, NEW r \in Requests, ReceiveExecute(peer, key, r)
      PROVE  DoneInv'
  <2>1. ~mover'.pending
    BY <1>2, ExecuteFlags
  <2>2. mover'.status = "Active" /\ ~mover'.uncertain
    <3> DEFINE i == Idle
    <3>1. i \in MoverSet /\ ~i.uncertain
      BY IdleTyped
    <3>2. mover' = [i EXCEPT !.status = "Active", !.stage = "Out", !.key = key,
                        !.generation = generation, !.dx = r.dx,
                        !.button = r.button, !.wait = r.wait]
      BY <1>2 DEF ReceiveExecute
    <3> HIDE DEF i
    <3> QED
      BY <3>1, <3>2 DEF MoverSet
  <2>3. \A kind : ~OwnAround(kind)'
    BY <2>1, <2>2, NothingAroundNext DEF Active
  <2>4. ~EndTold("TRANSACTION_RETURN")'
    BY <2>3 DEF OwnAround, EndTold, Finishes
  <2> QED
    BY <2>2, <2>4 DEF DoneInv
<1>3. ASSUME NEW operation \in {"Continue", "Cancel", "Query"}, ReceiveControl(peer, operation)
      PROVE  DoneInv'
  <2> DEFINE go == mover.continued \/ (operation = "Continue" /\ Active /\ mover.stage = "Waiting")
             no == mover.cancelled \/ (operation = "Cancel" /\ Active)
  <2>1. mover \in MoverSet /\ (~Active => mover' = mover)
    BY <1>3, ReceiveControlKeeps DEF MoverInv, MoverTypes
  <2>2. mover' = [mover EXCEPT !.continued = go, !.cancelled = no]
    BY <1>3, <2>1 DEF ReceiveControl, MoverSet
  <2> HIDE DEF go, no
  <2>3. SameOutcome(mover, mover')
    BY <2>1, <2>2 DEF SameOutcome, MoverSet, Active
  <2>4. UNCHANGED <<batch, outputVars, landed>>
    BY <1>3 DEF ReceiveControl, loopVars
  <2>5. \E s \in Nat : PartOf(Coming', Coming, s)
    BY <2>4, SameComing DEF outputVars
  <2> QED
    BY <2>3, <2>4, <2>5, DoneKept
<1> QED
  BY <1>1, <1>2, <1>3

LEMMA LandsDone ==
  ASSUME MoverInv, AccountInv, DoneInv, WriterLands
  PROVE  DoneInv'
<1>1. PICK success \in BOOLEAN : Finish(success) /\ Land(success)
  BY DEF WriterLands
<1>2. UNCHANGED <<generation, mover, batch>> /\ wire # <<>>
  BY <1>1 DEF WriterLands, Finish, serverVars, loopVars
<1>3. Written \in WireSet /\ Tidy /\ WriterInv /\ landed \in LandedSet
  BY <1>2, Typed DEF MoverInv, MoverTypes, Tidy, OutputTypes, WireTypes, Written
<1>4. OwnWire => Owned(mover) /\ ~FinishComes
  BY DEF MoverInv, WireInv
<1>5. landed' # landed => OwnWire
  BY <1>1, <1>2 DEF Land, OwnWire, Own, OwnReport
<1>6. CASE ~Active
  <2>1. mover.status = "Completed" => landed' = landed
    BY <1>4, <1>5, <1>6 DEF DoneInv, Owned, Running, Active
  <2> QED
    BY <1>2, <1>6, <2>1 DEF DoneInv, Active
<1>7. CASE Active
  <2> SUFFICES ASSUME EndTold("TRANSACTION_RETURN")' PROVE landed'.net = 0
    BY <1>2, <1>7 DEF DoneInv, Active
  <2>1. PICK i \in DOMAIN Coming' :
          Finishes(Coming'[i]) /\ Coming'[i].kind = "TRANSACTION_RETURN"
    BY <1>2 DEF EndTold, Finishes, Own, OwnReport
  <2>2. CASE i \in DOMAIN Coming /\ Coming'[i] = Coming[i]
    <3>1. EndTold("TRANSACTION_RETURN") /\ FinishComes
      BY <2>1, <2>2 DEF EndTold, FinishComes
    <3> QED
      BY <1>4, <1>5, <1>7, <3>1 DEF DoneInv
  <2>3. CASE ~(i \in DOMAIN Coming /\ Coming'[i] = Coming[i])
    <3> DEFINE e == EventOf(success)
    <3>1. /\ Coming' = Append(Coming, e) /\ e \in EventSet
          /\ e.kind = Written.kind /\ e.key = Written.key /\ e.success = success
          /\ e.finished <=> success /\ held /\ Rewritten.left = 0
      BY <1>1, <1>2, <2>1, <2>3, CompletionComes
    <3> HIDE DEF e, Written
    <3>2. Coming'[i] = e
      BY <1>3, <2>3, <3>1, AppendElements DEF Tidy
    <3>3. /\ success /\ held /\ Rewritten.left = 0 /\ Own(Written)
          /\ Written.kind = "TRANSACTION_RETURN"
      BY <2>1, <3>1, <3>2 DEF Finishes, Own
    <3>4. /\ queue # <<>> /\ queue \in Seq(EntrySet) /\ OutputTypes
          /\ Head(queue) = queue[1] /\ queue[1] \in EntrySet /\ 1 \in DOMAIN queue
      BY <1>3, <3>3, TailElements DEF Tidy, OutputTypes, QueueTypes, HeldIsFront
    <3>5. Written.kind = queue[1].kind /\ Written.key = queue[1].key
      BY <1>3, <3>3 DEF WriterInv, HeldReport
    <3>6. landed.net + queue[1].left = 0
      <4>1. Own(queue[1]) /\ queue[1].kind = "TRANSACTION_RETURN"
        BY <3>3, <3>5 DEF Own
      <4> QED
        BY <3>4, <4>1 DEF AccountInv, ReachInv, Heads
    <3>7. Rewritten.left = queue[1].left - Written.motion
      BY <1>2, <3>4, RewrittenTyped
    <3>8. landed'.net = landed.net + Written.motion
      BY <1>1, <3>3 DEF Land, Own, OwnReport
    <3>9. landed.net \in Int /\ queue[1].left \in Int /\ Written.motion \in Int
      BY <1>3, <3>4 DEF LandedSet, EntrySet, WireSet
    <3> QED
      BY <3>3, <3>6, <3>7, <3>8, <3>9
  <2> QED
    BY <2>2, <2>3
<1> QED
  BY <1>6, <1>7

(* Steps that leave the mover and what has landed alone.                   *)
LEMMA AsideDone ==
  ASSUME MoverInv, DoneInv,
         \/ Unmoved \/ MoverHold \/ MoverLapse \/ PhysicalArrives \/ UNCHANGED moveVars
         \/ WriterTakesGuarded \/ EndpointActs
  PROVE  DoneInv'
<1>1. mover' = mover /\ landed' = landed
  BY DEF Unmoved, KeepMover, MoverHold, MoverLapse, PhysicalArrives, moverVars, moveVars,
     WriterTakesGuarded, EndpointActs
<1>2. ASSUME Active' PROVE \E s \in Nat : PartOf(Coming', Coming, s)
  <2>1. Active /\ ~releasePending /\ pc \notin {"hold", "stopping"}
    BY <1>1, <1>2 DEF Active, MoverInv, SoleUse
  <2>2. CASE \/ Top \/ Resnapshot \/ TickIdle \/ Timeout \/ (Watchdog /\ ~Silent) \/ TickRelease
             \/ EnqueueHold \/ LastRelease
             \/ MoverHold \/ MoverLapse \/ PhysicalArrives \/ UNCHANGED moveVars
    <3>1. UNCHANGED <<batch, outputVars>>
      BY <2>1, <2>2 DEF Top, Resnapshot, TickIdle, Timeout, Watchdog, TickRelease, EnqueueHold,
         LastRelease, MoverHold, MoverLapse, Lapse, PhysicalArrives, moveVars, vars, serverVars,
         loopVars
    <3> QED
      BY <3>1, SameComing DEF outputVars
  <2>3. CASE FetchEvents
    <3>1. Tidy /\ batch = <<>> /\ Coming' = Coming
      BY <2>3, Typed, FetchedComing DEF MoverInv, ComingInv, FetchEvents, Tidy
    <3>2. PartOf(Coming', Coming, 0)
      BY <3>1 DEF PartOf, Tidy
    <3> QED
      BY <3>2
  <2>4. CASE FetchOverflow
    BY <2>4, SameComing DEF FetchOverflow, TakeOverflow, loopVars
  <2>5. CASE WriterTakesGuarded
    <3>1. UNCHANGED <<batch, events, told>>
      BY <2>5 DEF WriterTakesGuarded, WriterTakes, PassOver, StartEntry, StartPhysical,
         StartForeign, Start, serverVars, loopVars
    <3> QED
      BY <3>1, SameComing
  <2>6. CASE EndpointActs
    <3>1. batch' = batch
      BY <2>6 DEF EndpointActs, serverVars, loopVars
    <3>2. CASE Tell
      BY <3>1, <3>2, Typed, ToldComing DEF MoverInv, Tidy
    <3>3. CASE BecomeReady \/ Discard \/ Reset
      BY <3>1, <3>3, SameComing DEF BecomeReady, Discard, Reset
    <3> QED
      BY <2>6, <3>2, <3>3 DEF EndpointActs
  <2> QED
    BY <2>2, <2>3, <2>4, <2>5, <2>6 DEF Unmoved
<1> QED
  BY <1>1, <1>2, DoneKept DEF SameOutcome

LEMMA DoneStepKeeps ==
  MoverInv /\ MoverInv' /\ FlagsInv /\ AccountInv /\ DoneInv /\ [MoveNext]_moveVars => DoneInv'
<1> SUFFICES ASSUME MoverInv, MoverInv', FlagsInv, AccountInv, DoneInv, [MoveNext]_moveVars
             PROVE  DoneInv'
  OBVIOUS
<1>1. CASE MoveLoop
  BY <1>1, TicksDone, StopsDone, EnqueueDone, ProgressDone, AsideDone DEF MoveLoop
<1>2. CASE AskedToStop \/ MovePacket \/ WriterLands
  BY <1>2, StopsDone, PacketsDone, LandsDone
<1>3. CASE MoverHold \/ MoverLapse \/ PhysicalArrives \/ UNCHANGED moveVars
           \/ WriterTakesGuarded \/ EndpointActs
  BY <1>3, AsideDone
<1> QED
  BY <1>1, <1>2, <1>3 DEF MoveNext

LEMMA MoveInitDone == MoveInit => DoneInv
  BY DEF MoveInit, Idle, DoneInv, Active

LEMMA DoneHolds == MoveSpec => []DoneInv
  BY MoveInitDone, DoneStepKeeps, MoverCorrect, FlagsCorrect, AccountCorrect, PTL DEF MoveSpec

(* Within one layout the flags and the status completed are about what the *)
(* host has seen, whatever fails, is cancelled or is written late: a press *)
(* of a button that was up, its release and the whole way back.            *)
THEOREM CompletedHasHappened == MoveSpec => [](OneLayout => CompletedHappened)
<1>1. ClickInv /\ DoneInv => (OneLayout => CompletedHappened)
  BY DEF ClickInv, FlagsSeen, DoneInv, CompletedHappened
<1> QED
  BY <1>1, ClickHolds, DoneHolds, PTL
=============================================================================
