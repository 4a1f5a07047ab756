---------------------------- MODULE SessionTracker ----------------------------
(***************************************************************************)
(* click_sessions::Tracker of session_tracker.h: the highest command       *)
(* accepted of each client session, kept for the sessions in use and, as   *)
(* tombstones, for those that had to make room.  It decides which commands *)
(* are too old to be accepted.                                             *)
(*                                                                         *)
(* Both lists are in the order in which their entries were last touched.   *)
(* Time is not modelled: prune() drops the tombstones that are too old,    *)
(* which are the first of their list, and here any number of them may be.  *)
(***************************************************************************)
EXTENDS Naturals, Sequences

CONSTANTS
  Sessions,
  Commands,    \* the command numbers of a session
  MaxActive,   \* MAX_ACTIVE
  MaxRetired   \* MAX_RETIRED

ASSUME TrackerLimits ==
  /\ Commands \subseteq Nat \ {0}
  /\ MaxActive \in Nat \ {0} /\ MaxRetired \in Nat \ {0}

VARIABLES
  active,    \* active_
  retired,   \* retired_
  remembered \* history: the commands accepted of the sessions not forgotten since

trackerVars == <<active, retired, remembered>>

Entry(s, highest) == [session |-> s, highest |-> highest]

Has(q, s) == \E j \in DOMAIN q : q[j].session = s

(* find()                                                                  *)
Place(q, s) == CHOOSE j \in DOMAIN q : q[j].session = s

Without(q, j) == [i \in 1 .. Len(q) - 1 |-> IF i < j THEN q[i] ELSE q[i + 1]]
Forget(q, s) == IF Has(q, s) THEN Without(q, Place(q, s)) ELSE q

Larger(a, b) == IF a < b THEN b ELSE a

(* Mutant: the tombstones are not looked at.                               *)
StaleActive(s, c) == Has(active, s) /\ c <= active[Place(active, s)].highest

(* Mutant: the command after the highest is too old as well.               *)
StaleAhead(s, c) == Has(active, s) /\ c <= active[Place(active, s)].highest + 1

(* stale()                                                                 *)
Stale(s, c) ==
  IF Has(active, s) THEN c <= active[Place(active, s)].highest
  ELSE Has(retired, s) /\ c <= retired[Place(retired, s)].highest

(* The entry that makes room: the one not touched for longest whose        *)
(* session has nothing under way or, for a release, any.                   *)
Free(protected) == {j \in DOMAIN active : active[j].session \notin protected}
Victims(force, protected) ==
  IF Free(protected) # {} THEN {j \in Free(protected) : \A i \in Free(protected) : j <= i}
  ELSE IF force THEN {1} ELSE {}

(* admit() finds room.                                                     *)
Admits(s, force, protected) ==
  Has(active, s) \/ Len(active) < MaxActive \/ Victims(force, protected) # {}

(* The mark a session comes back with.                                     *)
Mark(s) == IF Has(retired, s) THEN retired[Place(retired, s)].highest ELSE 0

(* retire(): behind the newest tombstone, and the oldest goes.             *)
Retire(q, entry) ==
  LET all == Append(Forget(q, entry.session), entry)
  IN IF Len(all) > MaxRetired THEN Tail(all) ELSE all

-----------------------------------------------------------------------------
(* admit() and accept() of one command.                                    *)

AcceptActive(s, c) ==
  /\ Has(active, s)
  /\ active' = Append(Without(active, Place(active, s)),
                      Entry(s, Larger(active[Place(active, s)].highest, c)))
  /\ UNCHANGED retired

AcceptNew(s, c) ==
  /\ ~Has(active, s) /\ Len(active) < MaxActive
  /\ active' = Append(active, Entry(s, Larger(Mark(s), c)))
  /\ retired' = Forget(retired, s)

AcceptInstead(s, c, force, protected) ==
  /\ ~Has(active, s) /\ Len(active) >= MaxActive
  /\ \E j \in Victims(force, protected) :
       /\ active' = Append(Without(active, j), Entry(s, Larger(Mark(s), c)))
       /\ retired' = Retire(Forget(retired, s), active[j])

Known(s) == Has(active, s) \/ Has(retired, s)

Remember(s, c) ==
  remembered' = {a \in remembered : Known(a[1])'} \cup {<<s, c>>}

(* A command that is not stale is accepted, of a session that is admitted. *)
Take(s, c, force, protected) ==
  /\ ~Stale(s, c)
  /\ AcceptActive(s, c) \/ AcceptNew(s, c) \/ AcceptInstead(s, c, force, protected)
  /\ Remember(s, c)

(* prune()                                                                 *)
Expire ==
  /\ retired # <<>>
  /\ retired' = Tail(retired)
  /\ UNCHANGED active
  /\ remembered' = {a \in remembered : Known(a[1])'}

TrackerInit == active = <<>> /\ retired = <<>> /\ remembered = {}

(* The tracker by itself, whoever calls it: any session may be protected.  *)
TrackerNext ==
  \/ \E s \in Sessions, c \in Commands, force \in BOOLEAN, protected \in SUBSET Sessions :
       Take(s, c, force, protected)
  \/ Expire

TrackerSpec == TrackerInit /\ [][TrackerNext]_trackerVars

-----------------------------------------------------------------------------
(* Properties.                                                             *)

Marks == [session : Sessions, highest : Nat]

(* Both lists hold marks, within their limits.                             *)
TrackerTypeOK ==
  /\ active \in Seq(Marks) /\ retired \in Seq(Marks)
  /\ Len(active) <= MaxActive /\ Len(retired) <= MaxRetired
  /\ remembered \subseteq Sessions \X Commands

(* A session has one entry, in one of the lists, so that find() cannot     *)
(* meet an older mark first.                                               *)
OneEntry ==
  /\ \A i, j \in DOMAIN active : active[i].session = active[j].session => i = j
  /\ \A i, j \in DOMAIN retired : retired[i].session = retired[j].session => i = j
  /\ \A i \in DOMAIN active, j \in DOMAIN retired : active[i].session # retired[j].session

(* A command that has been accepted stays too old, however often its       *)
(* session is retired, comes back and makes room for others, until its     *)
(* tombstone is dropped.                                                   *)
RememberedIsStale == \A a \in remembered : Stale(a[1], a[2])

(* A command is accepted once, unless its session has been forgotten.      *)
Accepted(s, c) == \E force \in BOOLEAN, protected \in SUBSET Sessions : Take(s, c, force, protected)
NeverAcceptedTwice ==
  [][\A a \in remembered : ~Accepted(a[1], a[2])]_trackerVars

(* Only the oldest tombstone is dropped, and never a session in use.       *)
ForgetsOldest ==
  [][\A s \in Sessions :
       Known(s) /\ ~Known(s)' => retired # <<>> /\ Head(retired).session = s]_trackerVars
=============================================================================
