----------------------- MODULE ReliableCommands_proofs -----------------------
(* Proofs about the session tracker, and about the requests and the server *)
(* that answers them on top of it, for any number of clients, commands,    *)
(* restarts and entries.                                                   *)
EXTENDS ReliableCommands, SequenceTheorems, TLAPS

-----------------------------------------------------------------------------
(* The session tracker.                                                    *)

(* What a list holds, in whatever order.                                   *)
Members(q) == {q[j] : j \in DOMAIN q}

Distinct(q) == \A i, j \in DOMAIN q : q[i].session = q[j].session => i = j

-----------------------------------------------------------------------------
(* The lists.                                                              *)

LEMMA EntryType ==
  ASSUME NEW s \in Sessions, NEW n \in Nat
  PROVE  /\ Entry(s, n) \in Marks
         /\ Entry(s, n).session = s /\ Entry(s, n).highest = n
BY DEF Entry, Marks

LEMMA MembersAreMarks ==
  ASSUME NEW q \in Seq(Marks)
  PROVE  /\ Len(q) \in Nat /\ DOMAIN q = 1 .. Len(q)
         /\ \A i \in 1 .. Len(q) : q[i] \in Marks
         /\ \A e \in Members(q) : e \in Marks /\ e.session \in Sessions /\ e.highest \in Nat
<1>1. Len(q) \in Nat /\ DOMAIN q = 1 .. Len(q)
  BY LenProperties
<1>2. \A i \in 1 .. Len(q) : q[i] \in Marks
  BY <1>1, ElementOfSeq
<1>3. QED
  BY <1>1, <1>2 DEF Members, Marks

(* A list without one of its entries.                                      *)
LEMMA WithoutProperties ==
  ASSUME NEW q \in Seq(Marks), NEW j \in DOMAIN q
  PROVE  /\ Without(q, j) \in Seq(Marks)
         /\ Len(Without(q, j)) = Len(q) - 1
         /\ Distinct(q) => Distinct(Without(q, j))
         /\ Distinct(q) => Members(Without(q, j)) = Members(q) \ {q[j]}
<1> DEFINE n == Len(q) - 1
           w == Without(q, j)
<1>1. /\ Len(q) \in Nat /\ DOMAIN q = 1 .. Len(q)
      /\ \A i \in 1 .. Len(q) : q[i] \in Marks
  BY MembersAreMarks
<1>2. n \in Nat /\ j \in 1 .. Len(q) /\ Len(q) = n + 1
  BY <1>1
<1>3. w = [i \in 1 .. n |-> IF i < j THEN q[i] ELSE q[i + 1]]
  BY DEF Without
<1>4. \A i \in 1 .. n : (IF i < j THEN q[i] ELSE q[i + 1]) \in Marks
  BY <1>1, <1>2
<1>5. w \in [1 .. n -> Marks]
  BY <1>3, <1>4
<1>6. w \in Seq(Marks)
  BY <1>2, <1>5, SeqDef
<1>7. DOMAIN w = 1 .. n /\ Len(w) = n
  BY <1>2, <1>3, <1>6, LenProperties
<1>8. \A i \in 1 .. n : w[i] = IF i < j THEN q[i] ELSE q[i + 1]
  BY <1>3
<1> HIDE DEF w
<1>9. ASSUME Distinct(q) PROVE Distinct(w)
  <2> SUFFICES ASSUME NEW i \in 1 .. n, NEW k \in 1 .. n, w[i].session = w[k].session
               PROVE  i = k
    BY <1>7 DEF Distinct
  <2>1. PICK a \in 1 .. Len(q) : w[i] = q[a] /\ a = IF i < j THEN i ELSE i + 1
    BY <1>2, <1>8
  <2>2. PICK b \in 1 .. Len(q) : w[k] = q[b] /\ b = IF k < j THEN k ELSE k + 1
    BY <1>2, <1>8
  <2>3. a = b
    BY <1>1, <1>9, <2>1, <2>2 DEF Distinct
  <2>4. QED
    BY <1>2, <2>1, <2>2, <2>3
<1>10. ASSUME Distinct(q) PROVE Members(w) = Members(q) \ {q[j]}
  <2>1. ASSUME NEW i \in 1 .. n
        PROVE  w[i] \in Members(q) /\ w[i] # q[j]
    <3>1. PICK a \in 1 .. Len(q) : w[i] = q[a] /\ a # j
      BY <1>2, <1>8
    <3>2. q[a].session # q[j].session
      BY <1>1, <1>2, <1>10, <3>1 DEF Distinct
    <3>3. QED
      BY <1>1, <3>1, <3>2 DEF Members
  <2>2. ASSUME NEW a \in 1 .. Len(q), q[a] # q[j]
        PROVE  q[a] \in Members(w)
    <3>1. CASE a < j
      BY <1>2, <1>7, <1>8, <3>1 DEF Members
    <3>2. CASE a > j
      <4>1. a - 1 \in 1 .. n /\ ~(a - 1 < j) /\ a - 1 + 1 = a
        BY <1>2, <3>2
      <4>2. w[a - 1] = q[a]
        BY <1>8, <4>1
      <4>3. QED
        BY <1>7, <4>1, <4>2 DEF Members
    <3>3. QED
      BY <1>2, <2>2, <3>1, <3>2
  <2>3. QED
    BY <1>1, <1>7, <2>1, <2>2 DEF Members
<1>11. QED
  BY <1>6, <1>7, <1>9, <1>10 DEF w

(* A list with an entry of another session behind it.                      *)
LEMMA AppendMark ==
  ASSUME NEW q \in Seq(Marks), NEW e \in Marks
  PROVE  /\ Append(q, e) \in Seq(Marks)
         /\ Len(Append(q, e)) = Len(q) + 1
         /\ Members(Append(q, e)) = Members(q) \cup {e}
         /\ Distinct(q) /\ (\A m \in Members(q) : m.session # e.session)
              => Distinct(Append(q, e))
<1> DEFINE p == Append(q, e)
<1>1. Len(q) \in Nat /\ DOMAIN q = 1 .. Len(q)
  BY MembersAreMarks
<1>2. /\ p \in Seq(Marks) /\ Len(p) = Len(q) + 1
      /\ \A i \in 1 .. Len(q) : p[i] = q[i]
      /\ p[Len(q) + 1] = e
  BY AppendProperties
<1>3. DOMAIN p = 1 .. Len(q) + 1
  BY <1>2, LenProperties
<1> HIDE DEF p
<1>4. Members(p) = Members(q) \cup {e}
  <2>1. \A i \in 1 .. Len(q) + 1 : p[i] \in Members(q) \cup {e}
    BY <1>1, <1>2 DEF Members
  <2>2. Members(q) \cup {e} \subseteq Members(p)
    BY <1>1, <1>2, <1>3 DEF Members
  <2>3. QED
    BY <1>3, <2>1, <2>2 DEF Members
<1>5. ASSUME Distinct(q), \A m \in Members(q) : m.session # e.session
      PROVE  Distinct(p)
  <2>1. \A i \in 1 .. Len(q) : p[i].session # e.session
    BY <1>1, <1>2, <1>5 DEF Members
  <2>2. QED
    BY <1>1, <1>2, <1>3, <1>5, <2>1 DEF Distinct
<1>6. QED
  BY <1>2, <1>4, <1>5 DEF p

(* A list without its oldest entry.                                        *)
LEMMA TailMarks ==
  ASSUME NEW q \in Seq(Marks), q # <<>>, Distinct(q)
  PROVE  /\ Tail(q) \in Seq(Marks)
         /\ Len(Tail(q)) = Len(q) - 1
         /\ Head(q) = q[1] /\ 1 \in DOMAIN q
         /\ Members(Tail(q)) = Members(q) \ {Head(q)}
         /\ Distinct(Tail(q))
<1>1. /\ Len(q) \in Nat \ {0} /\ DOMAIN q = 1 .. Len(q)
      /\ \A i \in 1 .. Len(q) : q[i] \in Marks
  BY MembersAreMarks, EmptySeq
<1>2. /\ Tail(q) \in Seq(Marks) /\ Len(Tail(q)) = Len(q) - 1
      /\ \A i \in 1 .. Len(Tail(q)) : Tail(q)[i] = q[i + 1]
  <2>1. q # <<>>
    OBVIOUS
  <2>2. QED
    BY ONLY <2>1, HeadTailProperties
<1>3. DOMAIN Tail(q) = 1 .. Len(q) - 1
  BY <1>2, LenProperties
<1>4. Head(q) = q[1]
  BY DEF Head
<1>5. Members(Tail(q)) = Members(q) \ {q[1]}
  <2>1. ASSUME NEW i \in 1 .. Len(q) - 1
        PROVE  Tail(q)[i] \in Members(q) /\ Tail(q)[i] # q[1]
    <3>1. Tail(q)[i] = q[i + 1] /\ i + 1 \in 1 .. Len(q) /\ i + 1 # 1
      BY <1>1, <1>2
    <3>2. q[i + 1].session # q[1].session
      BY <1>1, <3>1 DEF Distinct
    <3>3. QED
      BY <1>1, <3>1, <3>2 DEF Members
  <2>2. ASSUME NEW a \in 1 .. Len(q), q[a] # q[1]
        PROVE  q[a] \in Members(Tail(q))
    <3>1. a - 1 \in 1 .. Len(q) - 1 /\ a - 1 + 1 = a
      BY <1>1, <2>2
    <3>2. Tail(q)[a - 1] = q[a]
      BY <1>2, <3>1
    <3>3. QED
      BY <1>3, <3>1, <3>2 DEF Members
  <2>3. QED
    BY <1>1, <1>3, <2>1, <2>2 DEF Members
<1>6. Distinct(Tail(q))
  <2> SUFFICES ASSUME NEW i \in 1 .. Len(q) - 1, NEW k \in 1 .. Len(q) - 1,
                      Tail(q)[i].session = Tail(q)[k].session
               PROVE  i = k
    BY <1>3 DEF Distinct
  <2>1. q[i + 1].session = q[k + 1].session /\ i + 1 \in 1 .. Len(q) /\ k + 1 \in 1 .. Len(q)
    BY <1>1, <1>2
  <2>2. i + 1 = k + 1
    BY <1>1, <2>1 DEF Distinct
  <2>3. QED
    BY <2>2
<1>7. QED
  BY <1>1, <1>2, <1>4, <1>5, <1>6

(* A list without the entry of a session, if there is one.                 *)
LEMMA ForgetProperties ==
  ASSUME NEW q \in Seq(Marks), NEW s, Distinct(q)
  PROVE  /\ Forget(q, s) \in Seq(Marks)
         /\ Len(Forget(q, s)) = IF Has(q, s) THEN Len(q) - 1 ELSE Len(q)
         /\ Distinct(Forget(q, s))
         /\ Members(Forget(q, s)) = {m \in Members(q) : m.session # s}
<1>1. CASE Has(q, s)
  <2>1. Place(q, s) \in DOMAIN q /\ q[Place(q, s)].session = s
    BY <1>1 DEF Has, Place
  <2>2. \A m \in Members(q) : m.session = s <=> m = q[Place(q, s)]
    BY <2>1 DEF Members, Distinct
  <2>3. Forget(q, s) = Without(q, Place(q, s))
    BY <1>1 DEF Forget
  <2>4. QED
    BY <1>1, <2>1, <2>2, <2>3, WithoutProperties
<1>2. CASE ~Has(q, s)
  <2>1. \A m \in Members(q) : m.session # s
    BY <1>2 DEF Has, Members
  <2>2. QED
    BY <1>2, <2>1 DEF Forget
<1>3. QED
  BY <1>1, <1>2

(* find() returns the entry of a session, which is the only one.           *)
LEMMA HasMember ==
  ASSUME NEW q, NEW s
  PROVE  Has(q, s) <=> \E m \in Members(q) : m.session = s
BY DEF Has, Members

LEMMA PlaceOfMember ==
  ASSUME NEW q, NEW m \in Members(q), Distinct(q)
  PROVE  q[Place(q, m.session)] = m
<1>1. PICK j \in DOMAIN q : m = q[j]
  BY DEF Members
<1>2. Place(q, m.session) \in DOMAIN q /\ q[Place(q, m.session)].session = m.session
  BY <1>1 DEF Place
<1>3. QED
  BY <1>1, <1>2 DEF Distinct

-----------------------------------------------------------------------------
(* The invariant: the types, one entry for each session, and the entries   *)
(* of what is remembered.                                                  *)

Entries == Members(active) \cup Members(retired)

Apart ==
  /\ Distinct(active) /\ Distinct(retired)
  /\ \A m \in Members(active), n \in Members(retired) : m.session # n.session

TrackerInv == TrackerTypeOK /\ OneEntry /\ RememberedIsStale

LEMMA OneEntryIsApart == OneEntry <=> Apart
<1>1. (\A i \in DOMAIN active, j \in DOMAIN retired : active[i].session # retired[j].session)
        <=> \A m \in Members(active), n \in Members(retired) : m.session # n.session
  BY DEF Members
<1>2. QED
  BY <1>1 DEF OneEntry, Apart, Distinct

LEMMA StaleByEntry ==
  ASSUME OneEntry, NEW s, NEW c
  PROVE  Stale(s, c) <=> \E m \in Entries : m.session = s /\ c <= m.highest
<1>1. Apart
  BY OneEntryIsApart
<1>2. ASSUME NEW m \in Entries, m.session = s
      PROVE  Stale(s, c) <=> c <= m.highest
  <2>1. CASE m \in Members(active)
    <3>1. Has(active, s) /\ active[Place(active, s)] = m
      BY <1>1, <1>2, <2>1, HasMember, PlaceOfMember DEF Apart
    <3>2. QED
      BY <3>1 DEF Stale
  <2>2. CASE m \in Members(retired)
    <3>1. ~Has(active, s)
      BY <1>1, <1>2, <2>2, HasMember DEF Apart
    <3>2. Has(retired, s) /\ retired[Place(retired, s)] = m
      BY <1>1, <1>2, <2>2, HasMember, PlaceOfMember DEF Apart
    <3>3. QED
      BY <3>1, <3>2 DEF Stale
  <2>3. QED
    BY <1>2, <2>1, <2>2 DEF Entries
<1>3. ASSUME \A m \in Entries : m.session # s
      PROVE  ~Stale(s, c)
  <2>1. ~Has(active, s) /\ ~Has(retired, s)
    BY <1>3, HasMember DEF Entries
  <2>2. QED
    BY <2>1 DEF Stale
<1>4. QED
  BY <1>2, <1>3

LEMMA KnownByEntry ==
  ASSUME NEW s
  PROVE  Known(s) <=> \E m \in Entries : m.session = s
BY HasMember DEF Known, Entries

(* The same of a state and of the next one.                                *)
Lookups ==
  /\ OneEntry <=> Apart
  /\ \A s : Known(s) <=> \E m \in Entries : m.session = s
  /\ OneEntry => \A s, c : Stale(s, c) <=> \E m \in Entries : m.session = s /\ c <= m.highest

LEMMA LookupsHold == Lookups /\ Lookups'
<1>1. Lookups
  BY OneEntryIsApart, KnownByEntry, StaleByEntry DEF Lookups
<1>2. QED
  BY <1>1, PTL

-----------------------------------------------------------------------------
(* The steps.                                                              *)

LEMMA MarkProperties ==
  ASSUME TrackerTypeOK, Distinct(retired), NEW s
  PROVE  /\ Mark(s) \in Nat
         /\ \A m \in Members(retired) : m.session = s => Mark(s) = m.highest
         /\ Mark(s) = 0 \/ \E m \in Members(retired) : m.session = s /\ m.highest = Mark(s)
<1>1. retired \in Seq(Marks)
  BY DEF TrackerTypeOK
<1>2. CASE Has(retired, s)
  <2>1. PICK m \in Members(retired) : m.session = s
    BY <1>2, HasMember
  <2>2. retired[Place(retired, s)] = m
    BY <2>1, PlaceOfMember
  <2>3. \A n \in Members(retired) : n.session = s => n = m
    BY <2>1, <2>2, PlaceOfMember
  <2>4. Mark(s) = m.highest
    BY <1>2, <2>2 DEF Mark
  <2>5. m.highest \in Nat
    BY <1>1, <2>1, MembersAreMarks
  <2>6. QED
    BY <2>1, <2>3, <2>4, <2>5
<1>3. CASE ~Has(retired, s)
  BY <1>3, HasMember DEF Mark
<1>4. QED
  BY <1>2, <1>3

LEMMA LargerProperties ==
  ASSUME NEW a \in Nat, NEW b \in Nat
  PROVE  /\ Larger(a, b) \in Nat /\ a <= Larger(a, b) /\ b <= Larger(a, b)
         /\ Larger(a, b) = a \/ Larger(a, b) = b
         /\ Larger(0, b) = b
BY DEF Larger

LEMMA RetireProperties ==
  ASSUME NEW q \in Seq(Marks), NEW v \in Marks, Distinct(q), Len(q) <= MaxRetired
  PROVE  /\ Retire(q, v) \in Seq(Marks)
         /\ Len(Retire(q, v)) <= MaxRetired
         /\ Distinct(Retire(q, v))
         /\ Members(Retire(q, v)) \subseteq {m \in Members(q) : m.session # v.session} \cup {v}
<1> DEFINE rest == Forget(q, v.session)
           all == Append(rest, v)
<1>1. /\ rest \in Seq(Marks) /\ Distinct(rest)
      /\ Len(rest) \in Nat /\ Len(rest) <= MaxRetired
      /\ Members(rest) = {m \in Members(q) : m.session # v.session}
  <2>1. Len(q) \in Nat
    BY MembersAreMarks
  <2>2. /\ rest \in Seq(Marks) /\ Distinct(rest)
        /\ Len(rest) = IF Has(q, v.session) THEN Len(q) - 1 ELSE Len(q)
        /\ Members(rest) = {m \in Members(q) : m.session # v.session}
    BY ForgetProperties
  <2>3. Len(rest) \in Nat
    BY <2>2, MembersAreMarks
  <2>4. QED
    BY <2>1, <2>2, <2>3, TrackerLimits
<1>2. /\ all \in Seq(Marks) /\ Distinct(all) /\ Len(all) = Len(rest) + 1
      /\ Members(all) = {m \in Members(q) : m.session # v.session} \cup {v}
  BY <1>1, AppendMark
<1>3. Retire(q, v) = IF Len(all) > MaxRetired THEN Tail(all) ELSE all
  BY DEF Retire
<1> HIDE DEF rest, all
<1>4. CASE Len(all) > MaxRetired
  <2>1. all # <<>>
    BY <1>1, <1>2, EmptySeq
  <2>2. /\ Tail(all) \in Seq(Marks) /\ Distinct(Tail(all)) /\ Len(Tail(all)) = Len(all) - 1
        /\ Members(Tail(all)) \subseteq Members(all)
    BY <1>2, <2>1, TailMarks
  <2>3. QED
    BY <1>1, <1>2, <1>3, <1>4, <2>2, TrackerLimits
<1>5. CASE ~(Len(all) > MaxRetired)
  BY <1>1, <1>2, <1>3, <1>5, TrackerLimits
<1>6. QED
  BY <1>4, <1>5

(* What each way to accept a command does: the session has an entry that   *)
(* covers it and all that it had accepted, and the other entries are old.  *)
Takes(s, c) ==
  /\ active' \in Seq(Marks) /\ retired' \in Seq(Marks)
  /\ Len(active') <= MaxActive /\ Len(retired') <= MaxRetired
  /\ Apart'
  /\ \E e \in Entries' :
       /\ e.session = s /\ c <= e.highest
       /\ e.highest = c \/ \E m \in Entries : m.session = s /\ m.highest = e.highest
       /\ \A m \in Entries : m.session = s => m.highest <= e.highest
  /\ \A n \in Entries' : n.session # s => n \in Entries

LEMMA ActiveTakes ==
  ASSUME TrackerInv, NEW s \in Sessions, NEW c \in Commands, AcceptActive(s, c)
  PROVE  Takes(s, c)
<1>1. /\ active \in Seq(Marks) /\ retired \in Seq(Marks) /\ Apart /\ c \in Nat
      /\ Len(active) \in Nat /\ Len(active) <= MaxActive /\ Len(retired) <= MaxRetired
  BY OneEntryIsApart, MembersAreMarks, TrackerLimits DEF TrackerInv, TrackerTypeOK
<1> DEFINE j == Place(active, s)
           m == active[j]
           e == Entry(s, Larger(m.highest, c))
<1>2. j \in DOMAIN active /\ m \in Members(active) /\ m.session = s
  BY DEF AcceptActive, Has, Place, Members
<1>3. m.highest \in Nat
  BY <1>1, <1>2, MembersAreMarks
<1>4. /\ e \in Marks /\ e.session = s /\ m.highest <= e.highest /\ c <= e.highest
      /\ e.highest = c \/ e.highest = m.highest
  <2>1. /\ Larger(m.highest, c) \in Nat
        /\ m.highest <= Larger(m.highest, c) /\ c <= Larger(m.highest, c)
        /\ Larger(m.highest, c) = m.highest \/ Larger(m.highest, c) = c
    BY <1>1, <1>3, LargerProperties
  <2>2. QED
    BY <2>1, EntryType
<1> HIDE DEF j
<1>5. /\ Without(active, j) \in Seq(Marks) /\ Len(Without(active, j)) = Len(active) - 1
      /\ Distinct(Without(active, j)) /\ Members(Without(active, j)) = Members(active) \ {m}
  BY <1>1, <1>2, WithoutProperties DEF Apart
<1>6. \A n \in Members(active) : n.session = s => n = m
  <2>1. \A n \in Members(active) : active[Place(active, n.session)] = n
    BY <1>1, PlaceOfMember DEF Apart
  <2>2. QED
    BY <2>1 DEF j
<1>7. active' = Append(Without(active, j), e) /\ retired' = retired
  BY DEF AcceptActive, j
<1> HIDE DEF m, e
<1>8. /\ active' \in Seq(Marks) /\ Len(active') = Len(active)
      /\ Members(active') = (Members(active) \ {m}) \cup {e}
      /\ Distinct(active')
  BY <1>1, <1>4, <1>5, <1>6, <1>7, AppendMark
<1>9. \A n \in Members(retired) : n.session # s
  BY <1>1, <1>2 DEF Apart
<1>10. Apart'
  BY <1>1, <1>4, <1>7, <1>8, <1>9 DEF Apart
<1>11. /\ e \in Entries' /\ \A n \in Entries' : n.session # s => n \in Entries
       /\ m \in Entries
  BY <1>2, <1>4, <1>7, <1>8 DEF Entries
<1>12. \A n \in Entries : n.session = s => n.highest <= e.highest
  BY <1>4, <1>6, <1>9 DEF Entries
<1>13. QED
  BY <1>1, <1>2, <1>4, <1>7, <1>8, <1>10, <1>11, <1>12 DEF Takes

LEMMA NewTakes ==
  ASSUME TrackerInv, NEW s \in Sessions, NEW c \in Commands, AcceptNew(s, c)
  PROVE  Takes(s, c)
<1>1. /\ active \in Seq(Marks) /\ retired \in Seq(Marks) /\ Apart /\ c \in Nat
      /\ Len(active) \in Nat /\ Len(active) < MaxActive
      /\ Len(retired) \in Nat /\ Len(retired) <= MaxRetired
  BY OneEntryIsApart, MembersAreMarks, TrackerLimits DEF TrackerInv, TrackerTypeOK, AcceptNew
<1> DEFINE e == Entry(s, Larger(Mark(s), c))
<1>2. /\ Mark(s) \in Nat /\ \A m \in Members(retired) : m.session = s => Mark(s) = m.highest
      /\ Mark(s) = 0 \/ \E m \in Members(retired) : m.session = s /\ m.highest = Mark(s)
  BY <1>1, MarkProperties DEF Apart, TrackerInv
<1>3. /\ e \in Marks /\ e.session = s /\ Mark(s) <= e.highest /\ c <= e.highest
      /\ e.highest = c \/ \E m \in Members(retired) : m.session = s /\ m.highest = e.highest
  <2>1. /\ Larger(Mark(s), c) \in Nat
        /\ Mark(s) <= Larger(Mark(s), c) /\ c <= Larger(Mark(s), c)
        /\ Larger(Mark(s), c) = Mark(s) \/ Larger(Mark(s), c) = c
        /\ Mark(s) = 0 => Larger(Mark(s), c) = c
    BY <1>1, <1>2, LargerProperties
  <2>2. QED
    BY <1>2, <2>1, EntryType
<1>4. \A m \in Members(active) : m.session # s
  BY HasMember DEF AcceptNew
<1>5. active' = Append(active, e) /\ retired' = Forget(retired, s)
  BY DEF AcceptNew
<1> HIDE DEF e
<1>6. /\ active' \in Seq(Marks) /\ Len(active') = Len(active) + 1
      /\ Members(active') = Members(active) \cup {e}
      /\ Distinct(active')
  BY <1>1, <1>3, <1>4, <1>5, AppendMark DEF Apart
<1>7. /\ retired' \in Seq(Marks) /\ Distinct(retired')
      /\ Len(retired') = IF Has(retired, s) THEN Len(retired) - 1 ELSE Len(retired)
      /\ Members(retired') = {m \in Members(retired) : m.session # s}
  BY <1>1, <1>5, ForgetProperties DEF Apart
<1>8. Len(active') <= MaxActive /\ Len(retired') <= MaxRetired
  BY <1>1, <1>6, <1>7, TrackerLimits
<1>9. Apart'
  BY <1>1, <1>3, <1>6, <1>7 DEF Apart
<1>10. e \in Entries' /\ \A n \in Entries' : n.session # s => n \in Entries
  BY <1>3, <1>6, <1>7 DEF Entries
<1>11. \A n \in Entries : n.session = s => n.highest <= e.highest
  BY <1>2, <1>3, <1>4 DEF Entries
<1>12. \A m \in Members(retired) : m \in Entries
  BY DEF Entries
<1>13. QED
  BY <1>12, <1>3, <1>6, <1>7, <1>8, <1>9, <1>10, <1>11 DEF Takes

LEMMA InsteadTakes ==
  ASSUME TrackerInv, NEW s \in Sessions, NEW c \in Commands, NEW force, NEW protected,
         AcceptInstead(s, c, force, protected)
  PROVE  Takes(s, c)
<1>1. /\ active \in Seq(Marks) /\ retired \in Seq(Marks) /\ Apart /\ c \in Nat
      /\ Len(active) \in Nat /\ DOMAIN active = 1 .. Len(active)
      /\ Len(active) <= MaxActive /\ Len(active) >= MaxActive
      /\ Len(retired) \in Nat /\ Len(retired) <= MaxRetired
  BY OneEntryIsApart, MembersAreMarks, TrackerLimits DEF TrackerInv, TrackerTypeOK, AcceptInstead
<1>2. PICK j \in Victims(force, protected) :
        /\ active' = Append(Without(active, j), Entry(s, Larger(Mark(s), c)))
        /\ retired' = Retire(Forget(retired, s), active[j])
  BY DEF AcceptInstead
<1>3. j \in DOMAIN active
  BY <1>1, TrackerLimits DEF Victims, Free
<1> DEFINE e == Entry(s, Larger(Mark(s), c))
           v == active[j]
<1>4. /\ Mark(s) \in Nat /\ \A m \in Members(retired) : m.session = s => Mark(s) = m.highest
      /\ Mark(s) = 0 \/ \E m \in Members(retired) : m.session = s /\ m.highest = Mark(s)
  BY <1>1, MarkProperties DEF Apart, TrackerInv
<1>5. /\ e \in Marks /\ e.session = s /\ Mark(s) <= e.highest /\ c <= e.highest
      /\ e.highest = c \/ \E m \in Members(retired) : m.session = s /\ m.highest = e.highest
  <2>1. /\ Larger(Mark(s), c) \in Nat
        /\ Mark(s) <= Larger(Mark(s), c) /\ c <= Larger(Mark(s), c)
        /\ Larger(Mark(s), c) = Mark(s) \/ Larger(Mark(s), c) = c
        /\ Mark(s) = 0 => Larger(Mark(s), c) = c
    BY <1>1, <1>4, LargerProperties
  <2>2. QED
    BY <1>4, <2>1, EntryType
<1>6. \A m \in Members(active) : m.session # s
  BY HasMember DEF AcceptInstead
<1>7. v \in Members(active) /\ v \in Marks
  BY <1>1, <1>3, MembersAreMarks DEF Members
<1>8. /\ Without(active, j) \in Seq(Marks) /\ Len(Without(active, j)) = Len(active) - 1
      /\ Distinct(Without(active, j)) /\ Members(Without(active, j)) = Members(active) \ {v}
  BY <1>1, <1>3, WithoutProperties DEF Apart
<1>9. active' = Append(Without(active, j), e) /\ retired' = Retire(Forget(retired, s), v)
  BY <1>2
<1>10. \A m \in Members(active) : m.session = v.session => m = v
  <2>1. \A m \in Members(active) : active[Place(active, m.session)] = m
    BY <1>1, PlaceOfMember DEF Apart
  <2>2. QED
    BY <1>7, <2>1
<1> HIDE DEF e, v
<1>11. /\ active' \in Seq(Marks) /\ Len(active') = Len(active)
       /\ Members(active') = (Members(active) \ {v}) \cup {e}
       /\ Distinct(active')
  <2> DEFINE w == Without(active, j)
  <2>1. /\ w \in Seq(Marks) /\ Distinct(w) /\ Len(w) = Len(active) - 1
        /\ Members(w) = Members(active) \ {v}
    BY <1>8
  <2> HIDE DEF w
  <2>2. /\ Append(w, e) \in Seq(Marks) /\ Len(Append(w, e)) = Len(w) + 1
        /\ Members(Append(w, e)) = Members(w) \cup {e}
        /\ Distinct(Append(w, e))
    BY <1>5, <1>6, <2>1, AppendMark
  <2>3. active' = Append(w, e)
    BY <1>9 DEF w
  <2>4. Len(active') = Len(active)
    <3>1. Len(active') = Len(active) - 1 + 1
      BY <2>1, <2>2, <2>3, Zenon
    <3>2. Len(active) - 1 + 1 = Len(active)
      BY <1>1
    <3>3. QED
      BY <3>1, <3>2, Zenon
  <2>5. Members(active') = (Members(active) \ {v}) \cup {e}
    BY <2>1, <2>2, <2>3, Zenon
  <2>6. active' \in Seq(Marks) /\ Distinct(active')
    BY <2>2, <2>3, Zenon
  <2>7. QED
    BY <2>4, <2>5, <2>6
<1>12. /\ Forget(retired, s) \in Seq(Marks) /\ Distinct(Forget(retired, s))
       /\ Len(Forget(retired, s)) <= MaxRetired
       /\ Members(Forget(retired, s)) = {m \in Members(retired) : m.session # s}
  BY <1>1, ForgetProperties, TrackerLimits DEF Apart
<1>13. /\ retired' \in Seq(Marks) /\ Len(retired') <= MaxRetired /\ Distinct(retired')
       /\ Members(retired') \subseteq {m \in Members(retired) : m.session # s} \cup {v}
  BY <1>7, <1>9, <1>12, RetireProperties
<1>14. Apart'
  BY <1>1, <1>5, <1>6, <1>7, <1>10, <1>11, <1>13 DEF Apart
<1>15. e \in Entries' /\ \A n \in Entries' : n.session # s => n \in Entries
  BY <1>5, <1>7, <1>11, <1>13 DEF Entries
<1>16. \A n \in Entries : n.session = s => n.highest <= e.highest
  BY <1>4, <1>5, <1>6 DEF Entries
<1>17. \A m \in Members(retired) : m \in Entries
  BY DEF Entries
<1>18. QED
  BY <1>17, <1>1, <1>5, <1>11, <1>13, <1>14, <1>15, <1>16 DEF Takes

LEMMA TakeKeepsInv ==
  ASSUME TrackerInv, NEW s \in Sessions, NEW c \in Commands, NEW force, NEW protected,
         Take(s, c, force, protected)
  PROVE  TrackerInv'
<1>1. Takes(s, c)
  BY ActiveTakes, NewTakes, InsteadTakes DEF Take
<1>2. OneEntry'
  BY <1>1, LookupsHold DEF Takes, Lookups
<1>3. remembered' = {a \in remembered : Known(a[1])'} \cup {<<s, c>>}
  BY DEF Take, Remember
<1>4. TrackerTypeOK'
  BY <1>1, <1>3 DEF TrackerInv, TrackerTypeOK, Takes
<1>5. ASSUME NEW a \in remembered'
      PROVE  \E m \in Entries' : m.session = a[1] /\ a[2] <= m.highest
  <2>1. PICK e \in Entries' : /\ e.session = s /\ c <= e.highest
                              /\ \A m \in Entries : m.session = s => m.highest <= e.highest
    BY <1>1 DEF Takes
  <2>2. CASE a = <<s, c>>
    BY <2>1, <2>2
  <2>3. CASE a \in remembered /\ Known(a[1])'
    <3>1. PICK m \in Entries : m.session = a[1] /\ a[2] <= m.highest
      BY <2>3, LookupsHold DEF TrackerInv, RememberedIsStale, Lookups
    <3>2. CASE a[1] = s
      <4>1. a[2] \in Nat /\ m.highest \in Nat /\ e.highest \in Nat
        <5>1. a[2] \in Commands
          BY <2>3 DEF TrackerInv, TrackerTypeOK
        <5>2. m.highest \in Nat
          BY <3>1, MembersAreMarks DEF TrackerInv, TrackerTypeOK, Entries
        <5>3. e.highest \in Nat
          BY <1>1, <2>1, MembersAreMarks DEF Takes, Entries
        <5>4. QED
          BY <5>1, <5>2, <5>3, TrackerLimits
      <4>2. m.highest <= e.highest
        BY <2>1, <3>1, <3>2
      <4>3. QED
        BY <2>1, <3>1, <3>2, <4>1, <4>2
    <3>3. CASE a[1] # s
      <4>1. PICK n \in Entries' : n.session = a[1]
        BY <2>3, LookupsHold DEF Lookups
      <4>2. n \in Entries
        BY <1>1, <3>3, <4>1 DEF Takes
      <4>3. n = m
        <5>1. Apart
          BY OneEntryIsApart DEF TrackerInv
        <5>2. active[Place(active, m.session)] = m \/ retired[Place(retired, m.session)] = m
          BY <3>1, <5>1, PlaceOfMember DEF Entries, Apart
        <5>3. \/ m \in Members(active) /\ n \in Members(active)
              \/ m \in Members(retired) /\ n \in Members(retired)
          BY <3>1, <4>1, <4>2, <5>1 DEF Entries, Apart
        <5>4. QED
          BY <3>1, <4>1, <5>1, <5>3, PlaceOfMember DEF Apart
      <4>4. QED
        BY <3>1, <4>1, <4>3
    <3>4. QED
      BY <3>2, <3>3
  <2>4. QED
    BY <1>3, <2>2, <2>3
<1>6. RememberedIsStale'
  BY <1>2, <1>5, LookupsHold DEF RememberedIsStale, Lookups
<1>7. QED
  BY <1>2, <1>4, <1>6 DEF TrackerInv

LEMMA ExpireKeepsInv ==
  ASSUME TrackerInv, Expire
  PROVE  TrackerInv'
<1>1. Apart
  BY OneEntryIsApart DEF TrackerInv
<1>2. /\ active \in Seq(Marks) /\ retired \in Seq(Marks)
      /\ Len(retired) \in Nat /\ Len(active) <= MaxActive /\ Len(retired) <= MaxRetired
  BY MembersAreMarks DEF TrackerInv, TrackerTypeOK
<1>3. /\ retired' \in Seq(Marks) /\ Len(retired') = Len(retired) - 1 /\ Distinct(retired')
      /\ Members(retired') \subseteq Members(retired)
      /\ active' = active
  BY <1>1, <1>2, TailMarks DEF Expire, Apart
<1>4. Apart'
  BY <1>1, <1>3 DEF Apart
<1>5. remembered' = {a \in remembered : Known(a[1])'}
  BY DEF Expire
<1>6. TrackerTypeOK'
  BY <1>2, <1>3, <1>5, TrackerLimits DEF TrackerInv, TrackerTypeOK
<1>7. Entries' \subseteq Entries
  BY <1>3 DEF Entries
<1>8. ASSUME NEW a \in remembered'
      PROVE  \E m \in Entries' : m.session = a[1] /\ a[2] <= m.highest
  <2>1. PICK n \in Entries' : n.session = a[1]
    BY <1>5, LookupsHold DEF Lookups
  <2>2. PICK m \in Entries : m.session = a[1] /\ a[2] <= m.highest
    BY <1>5, LookupsHold DEF TrackerInv, RememberedIsStale, Lookups
  <2>3. \/ m \in Members(active) /\ n \in Members(active)
        \/ m \in Members(retired) /\ n \in Members(retired)
    BY <1>1, <1>7, <2>1, <2>2 DEF Entries, Apart
  <2>4. n = m
    BY <1>1, <2>1, <2>2, <2>3, PlaceOfMember DEF Apart
  <2>5. QED
    BY <2>1, <2>2, <2>4
<1>9. OneEntry'
  BY <1>4, LookupsHold DEF Lookups
<1>10. RememberedIsStale'
  BY <1>8, <1>9, LookupsHold DEF RememberedIsStale, Lookups
<1>11. QED
  BY <1>6, <1>9, <1>10 DEF TrackerInv

LEMMA InitTracker == TrackerInit => TrackerInv
<1> SUFFICES ASSUME TrackerInit PROVE TrackerInv
  OBVIOUS
<1>1. active = <<>> /\ retired = <<>> /\ remembered = {}
  BY DEF TrackerInit
<1>2. <<>> \in Seq(Marks) /\ Len(<<>>) = 0
  BY EmptySeq
<1>3. QED
  BY <1>1, <1>2, TrackerLimits
     DEF TrackerInv, TrackerTypeOK, OneEntry, RememberedIsStale

LEMMA StillTracker ==
  ASSUME TrackerInv, UNCHANGED trackerVars
  PROVE  TrackerInv'
BY DEF TrackerInv, trackerVars, TrackerTypeOK, OneEntry, RememberedIsStale, Stale, Has, Place

(* Every reachable state of the tracker has a place for each session, and  *)
(* an entry at least as high as every command it must not take again.      *)
THEOREM TrackerCorrect == TrackerSpec => []TrackerInv
<1>1. TrackerInv /\ [TrackerNext]_trackerVars => TrackerInv'
  BY TakeKeepsInv, ExpireKeepsInv, StillTracker DEF TrackerNext
<1>2. QED
  BY <1>1, InitTracker, PTL DEF TrackerSpec

(* No command is accepted twice while its session is remembered, whatever  *)
(* the limits of the two lists are and whichever sessions make room.       *)
THEOREM TrackerAcceptsOnce == TrackerSpec => NeverAcceptedTwice
<1>1. TrackerInv => \A a \in remembered : ~Accepted(a[1], a[2])
  BY DEF TrackerInv, RememberedIsStale, Accepted, Take
<1>2. TrackerInv /\ [TrackerNext]_trackerVars
        => [\A a \in remembered : ~Accepted(a[1], a[2])]_trackerVars
  BY <1>1
<1>3. QED
  BY <1>2, TrackerCorrect, PTL DEF TrackerSpec, NeverAcceptedTwice

-----------------------------------------------------------------------------
(* Requests and the server: the invariant.                                 *)

Requests == [client : Sessions, command : Commands, op : Operations, epoch : Nat]
Statuses == {"accepted", "none", "stale_command"} \cup Lasts
Results == Statuses \ {"accepted"}
Clients == [command : Nat, op : Operations \cup {"none"}, epoch : Nat,
            asking : BOOLEAN, accepted : BOOLEAN, result : Results]
Records == [request : Requests, status : {"accepted"} \cup Lasts]

CommandTypeOK ==
  /\ client \in [Sessions -> Clients]
  /\ packets \subseteq Requests
  /\ cache \in Seq(Records)
  /\ epoch \in Nat \ {0}

(* A command number is used for one request.                               *)
OneRequest ==
  /\ \A r \in packets : r.command <= client[r.client].command /\ r.epoch <= epoch
  /\ \A r, o \in packets : Key(r) = Key(o) => r = o
  /\ \A c \in Sessions : client[c].op # "none" => Current(c) \in packets

(* What the server holds comes from requests.                              *)
FromRequests ==
  /\ \A m \in Members(cache) : m.request \in packets
  /\ started \subseteq {Key(r) : r \in packets} /\ remembered \subseteq started
  /\ \A e \in Entries : <<e.session, e.highest>> \in started

(* What keeps a request that has been accepted from being accepted again:  *)
(* its epoch or its session's mark.  A restart ends that for work without  *)
(* an epoch, and the end of its tombstone for a session.                   *)
Past(r) == IF r.op = "Execute" THEN r.epoch < epoch ELSE epoch > 1
StartedIsOld ==
  \A r \in packets :
    Key(r) \in started => Past(r) \/ Key(r) \in remembered \/ r.client \in dropped

(* A release that is remembered has nothing before it under way.           *)
Fenced ==
  \A r \in packets, m \in Members(cache) :
    /\ r.op = "ReleaseAll" /\ Key(r) \in remembered
    /\ m.status = "accepted" /\ m.request.op \in Works /\ m.request.client = r.client
    => r.command <= m.request.command

CommandInv ==
  /\ TrackerInv /\ CommandTypeOK /\ OneRequest /\ FromRequests
  /\ StartedIsOld /\ MoveStartsOnce /\ StaleWasAccepted /\ Fenced

-----------------------------------------------------------------------------
(* What the answers do to the clients.                                     *)

Hears(told) ==
  /\ client' \in [Sessions -> Clients]
  /\ \A c \in Sessions :
       /\ client'[c].command = client[c].command
       /\ client'[c].op = client[c].op /\ client'[c].epoch = client[c].epoch
       /\ \/ client'[c].result \in {client[c].result, "none"}
          \/ \E t \in told : t[1] = Current(c) /\ client'[c].result = t[2]

LEMMA AnsweredProperties ==
  ASSUME CommandTypeOK, NEW told, \A t \in told : t[2] \in Statuses, Answered(told)
  PROVE  Hears(told)
<1>1. ASSUME NEW c \in Sessions, NEW h \in Outcomes(c, told)
      PROVE  /\ h \in Clients
             /\ h.command = client[c].command /\ h.op = client[c].op /\ h.epoch = client[c].epoch
             /\ \/ h.result \in {client[c].result, "none"}
                \/ \E t \in told : t[1] = Current(c) /\ h.result = t[2]
  <2> DEFINE k == client[c]
  <2>1. k \in Clients
    BY DEF CommandTypeOK
  <2>2. CASE h = k
    BY <2>1, <2>2
  <2>3. ASSUME NEW t \in told, t[1] = Current(c), h \in HearMove(c, t[2]) \/ h \in Hear(c, t[2])
        PROVE  /\ h \in Clients
               /\ h.command = k.command /\ h.op = k.op /\ h.epoch = k.epoch
               /\ h.result \in {k.result, "none"} \/ h.result = t[2]
    <3>1. \/ h = [k EXCEPT !.asking = FALSE, !.result = "none"]
          \/ h = [k EXCEPT !.asking = FALSE, !.result = t[2]] /\ t[2] # "accepted"
          \/ h = [k EXCEPT !.accepted = TRUE]
          \/ h = [[k EXCEPT !.accepted = TRUE] EXCEPT !.asking = FALSE]
      BY <2>3 DEF Hear, HearMove, Told, Returned
    <3>2. t[2] # "accepted" => t[2] \in Results
      BY DEF Results
    <3>3. "none" \in Results
      BY DEF Results, Statuses
    <3>4. ASSUME NEW r \in Results, h = [k EXCEPT !.asking = FALSE, !.result = r]
          PROVE  /\ h \in Clients /\ h.result = r
                 /\ h.command = k.command /\ h.op = k.op /\ h.epoch = k.epoch
      <4> HIDE DEF k
      <4> QED
        BY <2>1, <3>4 DEF Clients
    <3>5. ASSUME h = [k EXCEPT !.accepted = TRUE]
                   \/ h = [[k EXCEPT !.accepted = TRUE] EXCEPT !.asking = FALSE]
          PROVE  /\ h \in Clients /\ h.result = k.result
                 /\ h.command = k.command /\ h.op = k.op /\ h.epoch = k.epoch
      <4> HIDE DEF k
      <4>1. CASE h = [k EXCEPT !.accepted = TRUE]
        BY <2>1, <4>1 DEF Clients
      <4>2. CASE h = [[k EXCEPT !.accepted = TRUE] EXCEPT !.asking = FALSE]
        BY <2>1, <4>2 DEF Clients
      <4>3. QED
        BY <3>5, <4>1, <4>2
    <3> HIDE DEF k
    <3>6. QED
      BY <3>1, <3>2, <3>3, <3>4, <3>5
  <2>4. h = k \/ \E t \in told : t[1] = Current(c) /\ (h \in HearMove(c, t[2]) \/ h \in Hear(c, t[2]))
    BY <1>1 DEF Outcomes
  <2>5. QED
    BY <2>2, <2>3, <2>4
<1>2. client' \in [Sessions -> UNION {Outcomes(c, told) : c \in Sessions}]
  BY DEF Answered
<1>3. \A c \in Sessions : client'[c] \in Outcomes(c, told)
  BY DEF Answered
<1>4. client' \in [Sessions -> Clients]
  BY <1>1, <1>2, <1>3
<1>5. QED
  BY <1>1, <1>3, <1>4 DEF Hears

-----------------------------------------------------------------------------
(* What becomes of the cache.                                              *)

LEMMA WithoutRecord ==
  ASSUME NEW q \in Seq(Records), NEW j \in DOMAIN q
  PROVE  Without(q, j) \in Seq(Records) /\ Members(Without(q, j)) \subseteq Members(q)
<1> DEFINE n == Len(q) - 1
           w == Without(q, j)
<1>1. Len(q) \in Nat /\ DOMAIN q = 1 .. Len(q) /\ \A i \in 1 .. Len(q) : q[i] \in Records
  BY LenProperties, ElementOfSeq
<1>2. n \in Nat /\ j \in 1 .. Len(q) /\ Len(q) = n + 1
  BY <1>1
<1>3. w = [i \in 1 .. n |-> IF i < j THEN q[i] ELSE q[i + 1]]
  BY DEF Without
<1>4. \A i \in 1 .. n : w[i] \in Records /\ w[i] \in Members(q)
  <2> TAKE i \in 1 .. n
  <2>1. i \in 1 .. Len(q) /\ i + 1 \in 1 .. Len(q)
    BY <1>2
  <2>2. w[i] = q[i] \/ w[i] = q[i + 1]
    BY <1>3
  <2> QED
    BY <1>1, <2>1, <2>2 DEF Members
<1>5. w \in [1 .. n -> Records] /\ DOMAIN w = 1 .. n
  BY <1>3, <1>4
<1>6. w \in Seq(Records)
  BY <1>2, <1>5, SeqDef
<1>7. QED
  BY <1>4, <1>5, <1>6 DEF Members

LEMMA TrimmedProperties ==
  ASSUME NEW q \in Seq(Records), DOMAIN q = DOMAIN cache, NEW kept \in Trimmed(q)
  PROVE  kept \in Seq(Records) /\ Members(kept) \subseteq Members(q)
<1>1. kept = q \/ \E j \in DOMAIN q : kept = Without(q, j)
  BY DEF Trimmed, Oldest, Ended
<1>2. QED
  BY <1>1, WithoutRecord

LEMMA EndProperties ==
  ASSUME NEW q \in Seq(Records), NEW places, NEW status \in Lasts
  PROVE  /\ End(q, places, status) \in Seq(Records)
         /\ DOMAIN End(q, places, status) = DOMAIN q
         /\ \A j \in DOMAIN q :
              End(q, places, status)[j] =
                IF j \in places THEN [q[j] EXCEPT !.status = status] ELSE q[j]
<1> DEFINE w == End(q, places, status)
<1>1. Len(q) \in Nat /\ DOMAIN q = 1 .. Len(q) /\ \A i \in 1 .. Len(q) : q[i] \in Records
  BY LenProperties, ElementOfSeq
<1>2. w = [j \in DOMAIN q |-> IF j \in places THEN [q[j] EXCEPT !.status = status] ELSE q[j]]
  BY DEF End
<1>3. \A j \in 1 .. Len(q) : w[j] \in Records
  BY <1>1, <1>2 DEF Records
<1>4. w \in [1 .. Len(q) -> Records]
  BY <1>1, <1>2, <1>3
<1>5. w \in Seq(Records)
  BY <1>1, <1>4, SeqDef
<1>6. QED
  BY <1>2, <1>5

LEMMA AppendRecord ==
  ASSUME NEW q \in Seq(Records), NEW m \in Records
  PROVE  Append(q, m) \in Seq(Records) /\ Members(Append(q, m)) \subseteq Members(q) \cup {m}
<1> DEFINE p == Append(q, m)
<1>1. Len(q) \in Nat /\ DOMAIN q = 1 .. Len(q)
  BY LenProperties
<1>2. /\ p \in Seq(Records) /\ Len(p) = Len(q) + 1
      /\ \A i \in 1 .. Len(q) : p[i] = q[i]
      /\ p[Len(q) + 1] = m
  BY AppendProperties
<1>3. DOMAIN p = 1 .. Len(q) + 1
  BY <1>2, LenProperties
<1> HIDE DEF p
<1>4. \A i \in 1 .. Len(q) + 1 : p[i] \in Members(q) \cup {m}
  BY <1>1, <1>2 DEF Members
<1>5. QED
  BY <1>2, <1>3, <1>4 DEF Members, p

(* No request is added to the cache and none is under way again.           *)
Calmer(q) ==
  /\ q \in Seq(Records)
  /\ \A m \in Members(q) : \E n \in Members(cache) :
       m.request = n.request /\ (m.status = "accepted" => n.status = "accepted")

LEMMA EndIsCalmer ==
  ASSUME CommandTypeOK, NEW places, NEW status \in Lasts
  PROVE  Calmer(End(cache, places, status))
<1>1. cache \in Seq(Records) /\ \A j \in DOMAIN cache : cache[j] \in Records
  BY LenProperties, ElementOfSeq DEF CommandTypeOK
<1>2. \A j \in DOMAIN cache :
        /\ End(cache, places, status)[j].request = cache[j].request
        /\ End(cache, places, status)[j].status = "accepted" => cache[j].status = "accepted"
  <2> SUFFICES ASSUME NEW j \in DOMAIN cache
               PROVE  /\ End(cache, places, status)[j].request = cache[j].request
                      /\ End(cache, places, status)[j].status = "accepted"
                           => cache[j].status = "accepted"
    OBVIOUS
  <2>1. End(cache, places, status)[j] =
          IF j \in places THEN [cache[j] EXCEPT !.status = status] ELSE cache[j]
    BY DEF End
  <2>2. cache[j] \in Records
    BY <1>1
  <2>3. QED
    BY <2>1, <2>2 DEF Records, Lasts
<1>3. QED
  BY <1>1, <1>2, EndProperties DEF Calmer, Members

LEMMA TrimmedIsCalmer ==
  ASSUME CommandTypeOK, NEW q, Calmer(q), DOMAIN q = DOMAIN cache, NEW kept \in Trimmed(q)
  PROVE  Calmer(kept)
BY TrimmedProperties DEF Calmer

-----------------------------------------------------------------------------
(* The steps of a client.                                                  *)

KeepsServer == UNCHANGED <<cacheVars, trackerVars, historyVars>>

LEMMA StillServer ==
  ASSUME CommandInv, UNCHANGED trackerVars
  PROVE  TrackerInv' /\ Entries' = Entries
<1>1. TrackerInv'
  BY StillTracker DEF CommandInv
<1>2. QED
  BY <1>1 DEF Entries, trackerVars

LEMMA SendKeepsInv ==
  ASSUME CommandInv, NEW c \in Sessions, NEW op \in Operations, Send(c, op), KeepsServer
  PROVE  CommandInv'
<1> DEFINE n == client[c].command + 1
           at == IF op = "Execute" THEN epoch ELSE 0
           r == Request(c, n, op, at)
<1>1. client[c] \in Clients /\ epoch \in Nat /\ n \in Nat /\ n \in Commands /\ at \in Nat /\ at <= epoch
  BY DEF CommandInv, CommandTypeOK, Clients, Send
<1>2. r \in Requests /\ r.client = c /\ r.command = n /\ r.op = op /\ r.epoch = at
  BY <1>1 DEF Request, Requests
<1>3. /\ client' = [client EXCEPT ![c].command = n, ![c].op = op, ![c].epoch = at,
                                  ![c].asking = TRUE, ![c].accepted = FALSE, ![c].result = "none"]
      /\ packets' = packets \cup {r}
  BY DEF Send
<1>4. UNCHANGED <<cache, epoch, started, repeated, dropped, remembered>> /\ TrackerInv' /\ Entries' = Entries
  BY StillServer DEF KeepsServer, cacheVars, historyVars, trackerVars
<1> HIDE DEF n, at, r
<1>5. /\ client' \in [Sessions -> Clients]
      /\ \A d \in Sessions \ {c} : client'[d] = client[d]
      /\ client'[c].command = n /\ client'[c].op = op /\ client'[c].epoch = at
      /\ client'[c].result = "none"
  BY <1>1, <1>3 DEF CommandInv, CommandTypeOK, Clients, Results, Statuses
<1>6. CommandTypeOK'
  BY <1>2, <1>3, <1>4, <1>5 DEF CommandInv, CommandTypeOK
<1>7. \A p \in packets : Key(p) # Key(r)
  <2>1. \A p \in packets : p.client = c => p.command <= client[c].command
    BY DEF CommandInv, OneRequest
  <2>2. client[c].command \in Nat /\ n = client[c].command + 1
    BY <1>1 DEF n, Clients
  <2>3. \A p \in packets : p.command \in Nat
    BY TrackerLimits DEF CommandInv, CommandTypeOK, Requests
  <2>4. \A p \in packets : p.client = c => p.command # n
    BY <2>1, <2>2, <2>3
  <2>5. QED
    BY <1>2, <2>4 DEF Key
<1>8. OneRequest'
  <2>1. \A p \in packets' : p.command <= client'[p.client].command /\ p.epoch <= epoch
    <3>1. \A p \in packets : p.command <= client[p.client].command /\ p.epoch <= epoch
                             /\ p.command \in Nat /\ p.client \in Sessions
      BY TrackerLimits DEF CommandInv, CommandTypeOK, OneRequest, Requests
    <3>2. client[c].command <= n /\ client[c].command \in Nat
      BY <1>1 DEF n, Clients
    <3>3. \A p \in packets : p.client = c => p.command <= n
      BY <1>1, <3>1, <3>2
    <3>4. QED
      BY <1>1, <1>2, <1>3, <1>5, <3>1, <3>3
  <2>2. \A p, o \in packets' : Key(p) = Key(o) => p = o
    BY <1>3, <1>7 DEF CommandInv, OneRequest
  <2>3. ASSUME NEW d \in Sessions, client'[d].op # "none" PROVE Current(d)' \in packets'
    <3>1. CASE d = c
      BY <1>2, <1>3, <1>5, <3>1 DEF Current, Request, r
    <3>2. CASE d # c
      <4>1. client'[d] = client[d]
        BY <1>5, <3>2
      <4>2. Current(d)' = Current(d)
        BY <4>1 DEF Current
      <4>3. QED
        BY <1>3, <2>3, <4>1, <4>2 DEF CommandInv, OneRequest
    <3>3. QED
      BY <3>1, <3>2
  <2>4. QED
    BY <1>4, <2>1, <2>2, <2>3 DEF OneRequest
<1>9. FromRequests'
  BY <1>3, <1>4 DEF CommandInv, FromRequests
<1>10. Key(r) \notin started /\ Key(r) \notin remembered
  BY <1>7 DEF CommandInv, FromRequests
<1>11. StartedIsOld' /\ MoveStartsOnce'
  BY <1>3, <1>4, <1>10 DEF CommandInv, StartedIsOld, Past, MoveStartsOnce
<1>12. StaleWasAccepted'
  <2> SUFFICES ASSUME NEW d \in Sessions, client'[d].result = "stale_command"
               PROVE  <<d, client'[d].command>> \in started
    BY <1>4 DEF StaleWasAccepted, MyKey
  <2>1. d # c /\ client'[d] = client[d]
    BY <1>5
  <2>2. QED
    BY <2>1 DEF CommandInv, StaleWasAccepted, MyKey
<1>13. Fenced'
  BY <1>3, <1>4, <1>10 DEF CommandInv, Fenced
<1>14. QED
  BY <1>4, <1>6, <1>8, <1>9, <1>11, <1>12, <1>13 DEF CommandInv

-----------------------------------------------------------------------------
(* The steps in which nothing is accepted.                                 *)

LEMMA HearingKeepsClients ==
  ASSUME CommandInv, NEW told, Hears(told), UNCHANGED <<packets, epoch>>,
         \A t \in told, c \in Sessions :
           t[1] = Current(c) /\ t[2] = "stale_command" => MyKey(c) \in started,
         started \subseteq started'
  PROVE  client' \in [Sessions -> Clients] /\ OneRequest' /\ StaleWasAccepted'
<1>1. \A c \in Sessions : /\ client'[c].command = client[c].command
                          /\ client'[c].op = client[c].op /\ client'[c].epoch = client[c].epoch
  BY DEF Hears
<1>2. \A c \in Sessions : Current(c)' = Current(c) /\ MyKey(c)' = MyKey(c)
  BY <1>1 DEF Current, MyKey
<1>3. \A r \in packets : r.client \in Sessions
  BY DEF CommandInv, CommandTypeOK, Requests
<1>4. OneRequest'
  BY <1>1, <1>2, <1>3 DEF CommandInv, OneRequest
<1>5. ASSUME NEW c \in Sessions, client'[c].result = "stale_command"
      PROVE  MyKey(c)' \in started'
  <2>1. client[c].result = "stale_command" \/ \E t \in told : t[1] = Current(c) /\ t[2] = "stale_command"
    BY <1>5 DEF Hears
  <2>2. MyKey(c) \in started
    BY <2>1 DEF CommandInv, StaleWasAccepted
  <2>3. QED
    BY <1>2, <2>2
<1>6. QED
  BY <1>4, <1>5 DEF Hears, StaleWasAccepted

LEMMA CalmKeepsCache ==
  ASSUME CommandInv, UNCHANGED <<packets, remembered>>, Calmer(cache')
  PROVE  /\ \A m \in Members(cache') : m.request \in packets'
         /\ Fenced'
<1>1. \A m \in Members(cache') : \E n \in Members(cache) :
        m.request = n.request /\ (m.status = "accepted" => n.status = "accepted")
  BY DEF Calmer
<1>2. Fenced'
  BY <1>1 DEF CommandInv, Fenced
<1>3. QED
  BY <1>1, <1>2 DEF CommandInv, FromRequests

LEMMA QuietKeepsInv ==
  ASSUME CommandInv, NEW told, Hears(told),
         UNCHANGED <<packets, epoch, trackerVars, started, repeated, dropped>>,
         \A t \in told, c \in Sessions :
           t[1] = Current(c) /\ t[2] = "stale_command" => MyKey(c) \in started,
         Calmer(cache')
  PROVE  CommandInv'
<1>1. TrackerInv' /\ Entries' = Entries /\ remembered' = remembered
  BY StillServer DEF trackerVars
<1>2. client' \in [Sessions -> Clients] /\ OneRequest' /\ StaleWasAccepted'
  BY HearingKeepsClients
<1>3. Fenced' /\ \A m \in Members(cache') : m.request \in packets'
  BY <1>1, CalmKeepsCache
<1>4. CommandTypeOK'
  BY <1>2 DEF CommandInv, CommandTypeOK, Calmer
<1>5. FromRequests'
  BY <1>1, <1>3 DEF CommandInv, FromRequests
<1>6. StartedIsOld' /\ MoveStartsOnce'
  BY <1>1 DEF CommandInv, StartedIsOld, Past, MoveStartsOnce
<1>7. QED
  BY <1>1, <1>2, <1>3, <1>4, <1>5, <1>6 DEF CommandInv

LEMMA SameIsCalmer == CommandTypeOK => Calmer(cache)
BY DEF CommandTypeOK, Calmer

(* A client that hears nothing new.                                        *)
LEMMA ReturnHears ==
  ASSUME CommandTypeOK, NEW c \in Sessions,
         client' = client \/ client' = [client EXCEPT ![c] = Returned(c, "none")]
  PROVE  Hears({})
<1>1. client \in [Sessions -> Clients]
  BY DEF CommandTypeOK
<1>2. CASE client' = client
  BY <1>1, <1>2 DEF Hears
<1>3. CASE client' = [client EXCEPT ![c] = Returned(c, "none")]
  <2>1. client[c] \in Clients
    BY <1>1
  <2>2. /\ Returned(c, "none") \in Clients
        /\ Returned(c, "none").command = client[c].command
        /\ Returned(c, "none").op = client[c].op /\ Returned(c, "none").epoch = client[c].epoch
        /\ Returned(c, "none").result = "none"
    BY <2>1 DEF Returned, Clients, Results, Statuses
  <2>3. \A d \in Sessions : client'[d] = IF d = c THEN Returned(c, "none") ELSE client[d]
    BY <1>1, <1>3
  <2>4. client' \in [Sessions -> Clients]
    BY <1>1, <1>3, <2>2
  <2>5. QED
    BY <2>2, <2>3, <2>4 DEF Hears
<1>4. QED
  BY <1>2, <1>3

(* A client's own command is only stale if it has been accepted before:    *)
(* the mark of its session is one of its commands.                         *)
LEMMA StaleIsStarted ==
  ASSUME CommandInv, NEW c \in Sessions, Current(c) \in packets, Stale(c, client[c].command)
  PROVE  MyKey(c) \in started
<1>1. PICK m \in Entries : m.session = c /\ client[c].command <= m.highest
  BY LookupsHold DEF CommandInv, TrackerInv, Lookups
<1>2. <<c, m.highest>> \in started
  BY <1>1 DEF CommandInv, FromRequests
<1>3. PICK r \in packets : r.client = c /\ r.command = m.highest
  BY <1>2 DEF CommandInv, FromRequests, Key
<1>4. m.highest <= client[c].command
  BY <1>3 DEF CommandInv, OneRequest
<1>5. m.highest \in Nat /\ client[c].command \in Nat
  BY <1>1, MembersAreMarks DEF CommandInv, CommandTypeOK, Clients, TrackerInv, TrackerTypeOK, Entries
<1>6. m.highest = client[c].command
  BY <1>1, <1>4, <1>5
<1>7. QED
  BY <1>2, <1>6 DEF MyKey

LEMMA AnswerKeepsInv ==
  ASSUME CommandInv, NEW r \in packets,
         AnswerBusy(r) \/ AnswerEpoch(r) \/ AnswerAgain(r) \/ AnswerStale(r)
           \/ AnswerRefused(r) \/ AnswerFull(r)
  PROVE  CommandInv'
<1>1. CommandTypeOK /\ Calmer(cache)
  BY SameIsCalmer DEF CommandInv
<1>2. UNCHANGED <<packets, epoch, trackerVars, started, repeated, dropped>>
  BY DEF AnswerBusy, AnswerEpoch, AnswerAgain, AnswerStale, AnswerRefused, AnswerFull,
         Refuse, KeepServer, cacheVars, historyVars
<1>3. Calmer(cache')
  <2>1. CASE cache' = cache
    BY <1>1, <2>1
  <2>2. CASE cache' \in Trimmed(cache)
    BY <1>1, <2>2, TrimmedIsCalmer
  <2>3. QED
    BY <2>1, <2>2
       DEF AnswerBusy, AnswerEpoch, AnswerAgain, AnswerStale, AnswerRefused, AnswerFull,
           Refuse, KeepServer, cacheVars
<1>4. CASE AnswerStale(r)
  <2> DEFINE told == {<<r, "stale_command">>}
  <2>1. Answered(told) /\ Stale(r.client, r.command)
    BY <1>4 DEF AnswerStale, Refuse
  <2>2. \A t \in told : t[1] = r /\ t[2] = "stale_command" /\ t[2] \in Statuses
    BY DEF Statuses
  <2>3. ASSUME NEW c \in Sessions, r = Current(c)
        PROVE  MyKey(c) \in started
    <3>1. r.client = c /\ r.command = client[c].command
      BY <2>3 DEF Current, Request
    <3>2. QED
      BY <2>1, <2>3, <3>1, StaleIsStarted
  <2> HIDE DEF told
  <2>4. Hears(told)
    BY <1>1, <2>1, <2>2, AnsweredProperties
  <2>5. \A t \in told, c \in Sessions :
           t[1] = Current(c) /\ t[2] = "stale_command" => MyKey(c) \in started
    BY <2>2, <2>3
  <2>6. QED
    BY <1>2, <1>3, <2>4, <2>5, QuietKeepsInv
<1>5. CASE ~AnswerStale(r)
  <2>1. PICK told : /\ Answered(told)
                    /\ \A t \in told : t[2] \in {"accepted", "none"} \cup Lasts
    <3>1. CASE AnswerBusy(r) \/ AnswerFull(r)
      BY <3>1 DEF AnswerBusy, AnswerFull, TryAgain
    <3>2. CASE AnswerEpoch(r) \/ AnswerRefused(r)
      BY <3>2 DEF AnswerEpoch, AnswerRefused, Refuse
    <3>3. CASE AnswerAgain(r)
      <4>1. cache[CachedAt(r)] \in Records
        <5>1. CachedAt(r) \in DOMAIN cache
          BY <3>3 DEF AnswerAgain, Cached, CachedAt
        <5>2. QED
          BY <1>1, <5>1, LenProperties, ElementOfSeq DEF CommandTypeOK
      <4>2. cache[CachedAt(r)].status \in {"accepted"} \cup Lasts
        BY <4>1 DEF Records
      <4>3. QED
        BY <3>3, <4>2 DEF AnswerAgain
    <3>4. QED
      BY <1>5, <3>1, <3>2, <3>3
  <2>2. \A t \in told : t[2] \in Statuses /\ t[2] # "stale_command"
    BY <2>1 DEF Statuses, Lasts
  <2>3. Hears(told)
    BY <1>1, <2>1, <2>2, AnsweredProperties
  <2>4. QED
    BY <1>2, <1>3, <2>2, <2>3, QuietKeepsInv
<1>6. QED
  BY <1>4, <1>5

(* Work that ends is told to its clients.                                  *)
LEMMA EndingsAreTold ==
  ASSUME CommandInv, NEW places, NEW status \in Lasts, Answered(Endings(cache, places, status))
  PROVE  /\ Hears(Endings(cache, places, status))
         /\ \A t \in Endings(cache, places, status) : t[2] \in Lasts
<1>1. \A t \in Endings(cache, places, status) : t[2] \in Statuses /\ t[2] \in Lasts
  BY DEF Endings, Statuses
<1>2. QED
  BY <1>1, AnsweredProperties DEF CommandInv

LEMMA EndKeepsInv ==
  ASSUME CommandInv, NEW places, NEW status \in Lasts,
         cache' = End(cache, places, status), Answered(Endings(cache, places, status)),
         UNCHANGED <<packets, epoch, trackerVars, started, repeated, dropped>>
  PROVE  CommandInv'
<1> DEFINE told == Endings(cache, places, status)
<1>1. Hears(told) /\ \A t \in told : t[2] \in Lasts
  BY EndingsAreTold
<1>2. \A t \in told : t[2] # "stale_command"
  BY <1>1 DEF Lasts
<1>3. Calmer(cache')
  BY EndIsCalmer DEF CommandInv
<1> HIDE DEF told
<1>4. QED
  BY <1>1, <1>2, <1>3, QuietKeepsInv

-----------------------------------------------------------------------------
(* The steps in which a request is accepted.                               *)

(* An entry is of an accepted command, and what was remembered either      *)
(* still is or went with its session.                                      *)
LEMMA AcceptedProperties ==
  ASSUME CommandInv, NEW r \in packets, NEW force, NEW protected,
         Take(r.client, r.command, force, protected), Started(r), OfEpoch(r),
         UNCHANGED <<packets, epoch>>
  PROVE  /\ TrackerInv' /\ StartedIsOld' /\ MoveStartsOnce'
         /\ started \subseteq started' /\ started' \subseteq {Key(p) : p \in packets'}
         /\ remembered' \subseteq started' /\ remembered' \subseteq remembered \cup {Key(r)}
         /\ \A e \in Entries' : <<e.session, e.highest>> \in started'
<1> DEFINE s == r.client
           c == r.command
<1>1. s \in Sessions /\ c \in Commands /\ Key(r) = <<s, c>>
  BY DEF CommandInv, CommandTypeOK, Requests, Key
<1>2. TrackerInv' /\ Takes(s, c)
  BY <1>1, TakeKeepsInv, ActiveTakes, NewTakes, InsteadTakes DEF CommandInv, Take
<1>3. /\ started' = started \cup {Key(r)}
      /\ repeated' = repeated \cup {key \in started : key = Key(r) /\ r.op = "Execute"}
      /\ dropped' = dropped \cup {d \in Sessions : Known(d) /\ ~Known(d)'}
  BY DEF Started, Drop
<1>4. remembered' = {a \in remembered : Known(a[1])'} \cup {Key(r)}
  BY <1>1 DEF Take, Remember
<1>5. started' \subseteq {Key(p) : p \in packets'} /\ remembered' \subseteq started'
  BY <1>3, <1>4 DEF CommandInv, FromRequests
<1>6. ~Stale(s, c)
  BY DEF Take
<1> HIDE DEF s, c
<1>7. ASSUME NEW n \in Entries' PROVE <<n.session, n.highest>> \in started'
  <2>1. CASE n.session = s
    <3>1. PICK e \in Entries' : /\ e.session = s
                                /\ e.highest = c \/ \E m \in Entries : m.session = s /\ m.highest = e.highest
      BY <1>2 DEF Takes
    <3>2. Apart'
      BY <1>2 DEF Takes
    <3>3. \/ e \in Members(active') /\ n \in Members(active')
          \/ e \in Members(retired') /\ n \in Members(retired')
      BY <2>1, <3>1, <3>2 DEF Entries, Apart
    <3>4. e = n
      BY <2>1, <3>1, <3>2, <3>3, PlaceOfMember DEF Apart
    <3>5. CASE e.highest = c
      BY <1>1, <1>3, <2>1, <3>4, <3>5
    <3>6. CASE \E m \in Entries : m.session = s /\ m.highest = e.highest
      <4>1. PICK m \in Entries : m.session = s /\ m.highest = e.highest
        BY <3>6
      <4>2. <<m.session, m.highest>> \in started
        BY <4>1 DEF CommandInv, FromRequests
      <4>3. QED
        BY <1>3, <2>1, <3>4, <4>1, <4>2
    <3>7. QED
      BY <3>1, <3>5, <3>6
  <2>2. CASE n.session # s
    <3>1. n \in Entries
      BY <1>2, <2>2 DEF Takes
    <3>2. QED
      BY <1>3, <3>1 DEF CommandInv, FromRequests
  <2>3. QED
    BY <2>1, <2>2
<1>8. \A a \in remembered : a[1] \in Sessions /\ Known(a[1])
  <2> SUFFICES ASSUME NEW a \in remembered PROVE a[1] \in Sessions /\ Known(a[1])
    OBVIOUS
  <2>1. a \in Sessions \X Commands /\ Stale(a[1], a[2])
    BY DEF CommandInv, TrackerInv, TrackerTypeOK, RememberedIsStale
  <2>2. QED
    BY <2>1 DEF Stale, Known
<1>9. ASSUME NEW p \in packets', Key(p) \in started'
      PROVE  Past(p)' \/ Key(p) \in remembered' \/ p.client \in dropped'
  <2>1. CASE Key(p) = Key(r)
    BY <1>4, <2>1
  <2>2. CASE Key(p) \in started
    <3>1. Past(p) \/ Key(p) \in remembered \/ p.client \in dropped
      BY <1>9, <2>2 DEF CommandInv, StartedIsOld
    <3> Past(p)' = Past(p)
      BY DEF Past
    <3>2. ASSUME Key(p) \in remembered
          PROVE  Key(p) \in remembered' \/ p.client \in dropped'
      <4>1. Key(p)[1] = p.client
        BY DEF Key
      <4>2. p.client \in Sessions /\ Known(p.client)
        BY <1>8, <3>2, <4>1
      <4>3. CASE Known(p.client)'
        BY <1>4, <3>2, <4>1, <4>3
      <4>4. CASE ~Known(p.client)'
        BY <1>3, <4>2, <4>4
      <4>5. QED
        BY <4>3, <4>4
    <3>3. QED
      BY <1>3, <3>1, <3>2
  <2>3. QED
    BY <1>3, <1>9, <2>1, <2>2
<1>10. ASSUME NEW key \in repeated' PROVE key[1] \in dropped'
  <2>1. CASE key \in repeated
    BY <1>3, <2>1 DEF CommandInv, MoveStartsOnce
  <2>2. CASE key \in started /\ key = Key(r) /\ r.op = "Execute"
    <3>1. r.epoch = epoch /\ epoch \in Nat
      BY <2>2 DEF OfEpoch, CommandInv, CommandTypeOK
    <3>2. Key(r) \in remembered \/ r.client \in dropped
      BY <2>2, <3>1 DEF CommandInv, StartedIsOld, Past
    <3>3. Key(r) \notin remembered
      <4>1. ASSUME Key(r) \in remembered PROVE Stale(s, c)
        BY <1>1, <4>1 DEF CommandInv, TrackerInv, RememberedIsStale
      <4>2. QED
        BY <1>6, <4>1
    <3>4. QED
      BY <1>3, <2>2, <3>2, <3>3 DEF Key
  <2>3. QED
    BY <1>3, <2>1, <2>2
<1>11. QED
  BY <1>2, <1>3, <1>4, <1>5, <1>7, <1>9, <1>10 DEF StartedIsOld, MoveStartsOnce

LEMMA RecordOfRequest ==
  ASSUME CommandInv, NEW r \in packets
  PROVE  /\ Record(r) \in Records /\ Record(r).request = r /\ Record(r).status = "accepted"
         /\ r \in Requests /\ r.client \in Sessions /\ r.command \in Commands
BY DEF CommandInv, CommandTypeOK, Record, Records, Requests

LEMMA AcceptWorkKeepsInv ==
  ASSUME CommandInv, NEW r \in packets, AcceptWork(r)
  PROVE  CommandInv'
<1> DEFINE told == {<<r, "accepted">>}
<1>1. /\ Take(r.client, r.command, FALSE, Protected) /\ Started(r) /\ OfEpoch(r)
      /\ UNCHANGED <<packets, epoch>> /\ Answered(told) /\ r.op \in Works
  BY DEF AcceptWork, New
<1>2. /\ TrackerInv' /\ StartedIsOld' /\ MoveStartsOnce'
      /\ started \subseteq started' /\ started' \subseteq {Key(p) : p \in packets'}
      /\ remembered' \subseteq started' /\ remembered' \subseteq remembered \cup {Key(r)}
      /\ \A e \in Entries' : <<e.session, e.highest>> \in started'
  BY <1>1, AcceptedProperties
<1>3. \A t \in told : t[2] = "accepted" /\ t[2] \in Statuses
  BY DEF Statuses
<1> HIDE DEF told
<1>4. Hears(told)
  BY <1>1, <1>3, AnsweredProperties DEF CommandInv
<1>5. client' \in [Sessions -> Clients] /\ OneRequest' /\ StaleWasAccepted'
  BY <1>1, <1>2, <1>3, <1>4, HearingKeepsClients
<1>6. cache' \in Seq(Records) /\ Members(cache') \subseteq Members(cache) \cup {Record(r)}
  <2>1. PICK kept \in Trimmed(cache) : cache' = Append(kept, Record(r))
    BY DEF AcceptWork
  <2>2. kept \in Seq(Records) /\ Members(kept) \subseteq Members(cache)
    BY TrimmedProperties DEF CommandInv, CommandTypeOK
  <2>3. QED
    BY <2>1, <2>2, AppendRecord, RecordOfRequest
<1>7. CommandTypeOK'
  BY <1>1, <1>5, <1>6 DEF CommandInv, CommandTypeOK
<1>8. FromRequests'
  BY <1>1, <1>2, <1>6, RecordOfRequest DEF CommandInv, FromRequests
<1>9. ASSUME NEW p \in packets', NEW m \in Members(cache'),
             p.op = "ReleaseAll", Key(p) \in remembered',
             m.status = "accepted", m.request.op \in Works, m.request.client = p.client
      PROVE  p.command <= m.request.command
  <2>1. p \in packets /\ Key(p) \in remembered
    <3>1. Key(p) # Key(r)
      BY <1>1, <1>9 DEF CommandInv, OneRequest, Works
    <3>2. QED
      BY <1>1, <1>2, <1>9, <3>1
  <2>2. CASE m \in Members(cache)
    BY <1>9, <2>1, <2>2 DEF CommandInv, Fenced
  <2>3. CASE m = Record(r)
    <3>1. m.request = r
      BY <2>3, RecordOfRequest
    <3>2. p.client = r.client
      BY <1>9, <3>1
    <3>3. Stale(r.client, p.command)
      BY <2>1, <3>2 DEF CommandInv, TrackerInv, RememberedIsStale, Key
    <3>4. ~Stale(r.client, r.command) /\ OneEntry
      BY <1>1 DEF Take, CommandInv, TrackerInv
    <3>5. PICK e \in Entries : e.session = r.client /\ p.command <= e.highest
      BY <3>3, <3>4, StaleByEntry
    <3>6. ~(r.command <= e.highest)
      BY <3>4, <3>5, StaleByEntry
    <3>7. e.highest \in Nat /\ p.command \in Nat /\ r.command \in Nat
      <4>1. p.command \in Commands /\ r.command \in Commands
        BY <2>1 DEF CommandInv, CommandTypeOK, Requests
      <4>2. e.highest \in Nat
        BY <3>5, MembersAreMarks DEF CommandInv, TrackerInv, TrackerTypeOK, Entries
      <4>3. QED
        BY <4>1, <4>2, TrackerLimits
    <3>8. p.command <= r.command
      BY <3>5, <3>6, <3>7
    <3>9. QED
      BY <3>1, <3>8
  <2>4. QED
    BY <1>6, <2>2, <2>3
<1>10. Fenced'
  BY <1>9 DEF Fenced
<1>11. QED
  BY <1>2, <1>5, <1>7, <1>8, <1>10 DEF CommandInv

LEMMA AcceptReleaseKeepsInv ==
  ASSUME CommandInv, NEW r \in packets, AcceptRelease(r)
  PROVE  CommandInv'
<1> DEFINE places == Underway(Operations)
           told == {<<r, "accepted">>} \cup Endings(cache, places, "cancelled")
           calm == End(cache, places, "cancelled")
<1>1. /\ Take(r.client, r.command, TRUE, Protected) /\ Started(r) /\ OfEpoch(r)
      /\ UNCHANGED <<packets, epoch>> /\ Answered(told) /\ r.op = "ReleaseAll"
  BY DEF AcceptRelease, New, Cancelled
<1>2. /\ TrackerInv' /\ StartedIsOld' /\ MoveStartsOnce'
      /\ started \subseteq started' /\ started' \subseteq {Key(p) : p \in packets'}
      /\ remembered' \subseteq started' /\ remembered' \subseteq remembered \cup {Key(r)}
      /\ \A e \in Entries' : <<e.session, e.highest>> \in started'
  BY <1>1, AcceptedProperties
<1>3. \A t \in told : t[2] \in Statuses /\ t[2] # "stale_command"
  BY DEF Statuses, Endings, Lasts
<1>4. calm \in Seq(Records) /\ DOMAIN calm = DOMAIN cache /\ Calmer(calm)
  BY EndProperties, EndIsCalmer DEF CommandInv, CommandTypeOK, Lasts
<1>5. \A m \in Members(calm) : m.status # "accepted" /\ m.request \in packets
  <2> SUFFICES ASSUME NEW j \in DOMAIN cache
               PROVE  calm[j].status # "accepted" /\ calm[j].request \in packets
    BY <1>4 DEF Members
  <2>1. cache[j] \in Records /\ cache[j].request.op \in Operations
    <3>1. cache \in Seq(Records)
      BY DEF CommandInv, CommandTypeOK
    <3>2. cache[j] \in Records
      BY <3>1, LenProperties, ElementOfSeq
    <3>3. QED
      BY <3>2 DEF Records, Requests
  <2>2. calm[j] = IF j \in places THEN [cache[j] EXCEPT !.status = "cancelled"] ELSE cache[j]
    BY DEF End
  <2>3. j \in places <=> cache[j].status = "accepted"
    BY <2>1 DEF Underway, Terminal
  <2>4. cache[j].request \in packets
    BY DEF CommandInv, FromRequests, Members
  <2> HIDE DEF places, calm
  <2>5. QED
    BY <2>1, <2>2, <2>3, <2>4 DEF Records
<1>6. \E kept \in Trimmed(calm) : cache' = Append(kept, Record(r))
  BY DEF AcceptRelease, Cancelled
<1> HIDE DEF told, calm, places
<1>7. Hears(told)
  BY <1>1, <1>3, AnsweredProperties DEF CommandInv
<1>8. client' \in [Sessions -> Clients] /\ OneRequest' /\ StaleWasAccepted'
  BY <1>1, <1>2, <1>3, <1>7, HearingKeepsClients
<1>9. cache' \in Seq(Records) /\ Members(cache') \subseteq Members(calm) \cup {Record(r)}
  <2>1. PICK kept \in Trimmed(calm) : cache' = Append(kept, Record(r))
    BY <1>6
  <2>2. kept \in Seq(Records) /\ Members(kept) \subseteq Members(calm)
    BY <1>4, TrimmedProperties
  <2>3. QED
    BY <2>1, <2>2, AppendRecord, RecordOfRequest
<1>10. CommandTypeOK'
  BY <1>1, <1>8, <1>9 DEF CommandInv, CommandTypeOK
<1>11. FromRequests'
  BY <1>1, <1>2, <1>5, <1>9, RecordOfRequest DEF FromRequests
<1>12. \A m \in Members(cache') : m.status = "accepted" => m.request.op = "ReleaseAll"
  BY <1>1, <1>5, <1>9, RecordOfRequest
<1>13. Fenced'
  BY <1>12 DEF Fenced, Works
<1>14. QED
  BY <1>2, <1>8, <1>10, <1>11, <1>13 DEF CommandInv

-----------------------------------------------------------------------------
(* The other steps of the server.                                          *)

LEMMA ExpiresKeepsInv ==
  ASSUME CommandInv, TombstoneExpires
  PROVE  CommandInv'
<1>1. /\ UNCHANGED <<client, packets, cache, epoch, started, repeated>>
      /\ Expire /\ active' = active /\ retired' = Tail(retired) /\ retired # <<>>
      /\ dropped' = dropped \cup {d \in Sessions : Known(d) /\ ~Known(d)'}
      /\ remembered' = {a \in remembered : Known(a[1])'}
  BY DEF TombstoneExpires, Expire, Drop, clientVars, cacheVars
<1>2. TrackerInv'
  BY <1>1, ExpireKeepsInv DEF CommandInv
<1>3. Entries' \subseteq Entries
  <2>1. retired \in Seq(Marks) /\ Distinct(retired)
    BY OneEntryIsApart DEF CommandInv, TrackerInv, TrackerTypeOK, Apart
  <2>2. Members(Tail(retired)) \subseteq Members(retired)
    BY <1>1, <2>1, TailMarks
  <2>3. QED
    BY <1>1, <2>2 DEF Entries
<1>4. CommandTypeOK'
  BY <1>1 DEF CommandInv, CommandTypeOK
<1>5. OneRequest'
  BY <1>1 DEF CommandInv, OneRequest, Current
<1>6. FromRequests'
  BY <1>1, <1>3 DEF CommandInv, FromRequests
<1>7. ASSUME NEW p \in packets, Key(p) \in remembered
      PROVE  Key(p) \in remembered' \/ p.client \in dropped'
  <2>1. Key(p)[1] = p.client /\ Key(p)[2] = p.command
    BY DEF Key
  <2>2. p.client \in Sessions
    BY DEF CommandInv, CommandTypeOK, Requests
  <2>3. Known(p.client)
    BY <1>7, <2>1 DEF CommandInv, TrackerInv, RememberedIsStale, Stale, Known
  <2>4. CASE Known(p.client)'
    BY <1>1, <1>7, <2>1, <2>4
  <2>5. CASE ~Known(p.client)'
    BY <1>1, <2>2, <2>3, <2>5
  <2>6. QED
    BY <2>4, <2>5
<1>8. StartedIsOld' /\ MoveStartsOnce'
  BY <1>1, <1>7 DEF CommandInv, StartedIsOld, Past, MoveStartsOnce
<1>9. StaleWasAccepted'
  BY <1>1 DEF CommandInv, StaleWasAccepted, MyKey
<1>10. Fenced'
  BY <1>1 DEF CommandInv, Fenced
<1>11. QED
  BY <1>2, <1>4, <1>5, <1>6, <1>8, <1>9, <1>10 DEF CommandInv

LEMMA NothingKept ==
  ASSUME active = <<>>, retired = <<>>, remembered = {}, cache = <<>>
  PROVE  TrackerInv /\ Entries = {} /\ Members(cache) = {} /\ cache \in Seq(Records)
<1>1. TrackerInv
  BY InitTracker DEF TrackerInit
<1>2. DOMAIN <<>> = {} /\ <<>> \in Seq(Records)
  BY EmptySeq, LenProperties
<1>3. QED
  BY <1>1, <1>2 DEF Entries, Members

(* After a restart every request sent before is of the past.               *)
LEMMA RestartKeepsInv ==
  ASSUME CommandInv, Restart
  PROVE  CommandInv'
<1>1. /\ UNCHANGED <<client, packets, started, repeated, dropped>> /\ epoch' = epoch + 1
      /\ (active = <<>>)' /\ (retired = <<>>)' /\ (remembered = {})' /\ (cache = <<>>)'
  BY DEF Restart, clientVars, historyVars
<1>2. (TrackerInv /\ Entries = {} /\ Members(cache) = {} /\ cache \in Seq(Records))'
  BY <1>1, NothingKept, PTL
<1>3. epoch \in Nat \ {0} /\ \A p \in packets : p.epoch \in Nat /\ p.epoch <= epoch
  BY DEF CommandInv, CommandTypeOK, OneRequest, Requests
<1>4. epoch' > 1 /\ \A p \in packets : p.epoch <= epoch' /\ p.epoch < epoch'
  BY <1>1, <1>3
<1>5. CommandTypeOK'
  BY <1>1, <1>2, <1>3 DEF CommandInv, CommandTypeOK
<1>6. OneRequest'
  BY <1>1, <1>4 DEF CommandInv, OneRequest, Current
<1>7. FromRequests'
  BY <1>1, <1>2 DEF CommandInv, FromRequests
<1>8. StartedIsOld' /\ MoveStartsOnce' /\ StaleWasAccepted'
  BY <1>1, <1>4 DEF CommandInv, StartedIsOld, Past, MoveStartsOnce, StaleWasAccepted, MyKey
<1>9. Fenced'
  BY <1>2 DEF Fenced
<1>10. QED
  BY <1>2, <1>5, <1>6, <1>7, <1>8, <1>9 DEF CommandInv

LEMMA ResetsKeepInv ==
  ASSUME CommandInv, ServerResets
  PROVE  CommandInv'
<1>1. /\ cache' = End(cache, Underway(Works), "cancelled")
      /\ Answered(Endings(cache, Underway(Works), "cancelled"))
      /\ UNCHANGED <<packets, epoch, trackerVars, started, repeated, dropped>>
  BY DEF ServerResets, historyVars
<1>2. QED
  BY <1>1, EndKeepsInv DEF Lasts

LEMMA EndsKeepsInv ==
  ASSUME CommandInv, NEW j \in DOMAIN cache, NEW status \in Lasts, Ends(j, status)
  PROVE  CommandInv'
BY EndKeepsInv DEF Ends

(* A client returns, or takes the lease.                                   *)
LEMMA ClientKeepsInv ==
  ASSUME CommandInv, NEW c \in Sessions,
         client' = client \/ client' = [client EXCEPT ![c] = Returned(c, "none")],
         UNCHANGED <<packets, epoch, cache, trackerVars, started, repeated, dropped>>
  PROVE  CommandInv'
<1>1. Hears({}) /\ Calmer(cache)
  BY ReturnHears, SameIsCalmer DEF CommandInv
<1>2. Calmer(cache')
  BY <1>1
<1>3. QED
  BY <1>1, <1>2, QuietKeepsInv

LEMMA ClientStepKeepsInv ==
  ASSUME CommandInv, NEW c \in Sessions,
         GiveUp(c) \/ TakesLease(c) \/ \E op \in Operations : Ask(c, op)
  PROVE  CommandInv'
<1>1. CASE \E op \in Operations : Ask(c, op)
  BY <1>1, SendKeepsInv DEF Ask, KeepsServer
<1>2. CASE GiveUp(c)
  <2>1. CASE client[c].op = "Execute"
    BY <1>2, <2>1, SendKeepsInv DEF GiveUp, KeepsServer, Operations
  <2>2. CASE client[c].op # "Execute"
    BY <1>2, <2>2, ClientKeepsInv DEF GiveUp, cacheVars, historyVars
  <2>3. QED
    BY <2>1, <2>2
<1>3. CASE TakesLease(c)
  BY <1>3, ClientKeepsInv DEF TakesLease, clientVars, historyVars
<1>4. QED
  BY <1>1, <1>2, <1>3

LEMMA StillCommand ==
  ASSUME CommandInv, UNCHANGED commandVars
  PROVE  CommandInv'
<1>1. UNCHANGED <<client, packets, epoch, cache, trackerVars, started, repeated, dropped, remembered>>
  BY DEF commandVars, clientVars, cacheVars, historyVars, trackerVars
<1>2. TrackerInv' /\ Entries' = Entries
  BY <1>1, StillServer
<1>3. CommandTypeOK' /\ OneRequest' /\ FromRequests'
  BY <1>1, <1>2 DEF CommandInv, CommandTypeOK, OneRequest, Current, FromRequests
<1>4. StartedIsOld' /\ MoveStartsOnce' /\ StaleWasAccepted' /\ Fenced'
  BY <1>1 DEF CommandInv, StartedIsOld, Past, MoveStartsOnce, StaleWasAccepted, MyKey, Fenced
<1>5. QED
  BY <1>2, <1>3, <1>4 DEF CommandInv

LEMMA CommandInitial ==
  ASSUME CommandInit
  PROVE  CommandInv
<1>1. /\ active = <<>> /\ retired = <<>> /\ remembered = {} /\ cache = <<>>
      /\ packets = {} /\ epoch = 1 /\ started = {} /\ repeated = {}
      /\ client = [c \in Sessions |->
                     [command |-> 0, op |-> "none", epoch |-> 0, asking |-> FALSE,
                      accepted |-> FALSE, result |-> "none"]]
  BY DEF CommandInit, TrackerInit
<1>2. TrackerInv /\ Entries = {} /\ Members(cache) = {} /\ cache \in Seq(Records)
  BY <1>1, NothingKept
<1>3. client \in [Sessions -> Clients]
      /\ \A c \in Sessions : client[c].op = "none" /\ client[c].result = "none"
  BY <1>1 DEF Clients, Results, Statuses
<1>4. CommandTypeOK /\ OneRequest /\ FromRequests
  BY <1>1, <1>2, <1>3 DEF CommandTypeOK, OneRequest, FromRequests
<1>5. StartedIsOld /\ MoveStartsOnce /\ StaleWasAccepted /\ Fenced
  BY <1>1, <1>2, <1>3 DEF StartedIsOld, MoveStartsOnce, StaleWasAccepted, Fenced
<1>6. QED
  BY <1>2, <1>4, <1>5 DEF CommandInv

-----------------------------------------------------------------------------
(* The theorems.                                                           *)

(* The invariant holds however requests are sent again, delayed and lost   *)
(* and however often the server is started, for any number of clients.     *)
THEOREM CommandsCorrect == CommandSpec => []CommandInv
<1>1. CommandInit => CommandInv
  BY CommandInitial
<1>2. CommandInv /\ [CommandNext]_commandVars => CommandInv'
  <2> SUFFICES ASSUME CommandInv, [CommandNext]_commandVars
               PROVE  CommandInv'
    OBVIOUS
  <2>1. ASSUME NEW c \in Sessions,
               GiveUp(c) \/ TakesLease(c) \/ \E op \in Operations : Ask(c, op)
        PROVE  CommandInv'
    BY <2>1, ClientStepKeepsInv
  <2>2. ASSUME NEW r \in packets, Arrive(r)
        PROVE  CommandInv'
    BY <2>2, AnswerKeepsInv, AcceptWorkKeepsInv, AcceptReleaseKeepsInv DEF Arrive
  <2>3. ASSUME NEW j \in DOMAIN cache, NEW status \in Lasts, Ends(j, status)
        PROVE  CommandInv'
    BY <2>3, EndsKeepsInv
  <2>4. CASE ServerResets \/ TombstoneExpires \/ Restart
    BY <2>4, ResetsKeepInv, ExpiresKeepsInv, RestartKeepsInv
  <2>5. CASE UNCHANGED commandVars
    BY <2>5, StillCommand
  <2>6. QED
    BY <2>1, <2>2, <2>3, <2>4, <2>5 DEF CommandNext
<1>3. QED
  BY <1>1, <1>2, PTL DEF CommandSpec

(* A movement transaction is started once, also by a delayed packet that   *)
(* meets a server that was started again, unless the running server has    *)
(* forgotten its session.                                                  *)
THEOREM MovesStartOnce == CommandSpec => []MoveStartsOnce
BY CommandsCorrect, PTL DEF CommandInv

(* No client is told of a command it never had accepted that it is stale.  *)
THEOREM StaleMeansAccepted == CommandSpec => []StaleWasAccepted
BY CommandsCorrect, PTL DEF CommandInv

(* Once a client has been told of its release, nothing it asked for before *)
(* is under way.                                                           *)
THEOREM ReleaseIsFence == CommandSpec => []ReleaseFences
<1>1. CommandInv => ReleaseFences
  <2> SUFFICES ASSUME CommandInv, NEW c \in Sessions, ToldOfRelease(c), MyKey(c) \in remembered,
                      NEW n \in Commands, n < client[c].command, IsUnderway(<<c, n>>)
               PROVE  FALSE
    BY DEF ReleaseFences
  <2>1. PICK j \in Underway(Works) : Key(cache[j].request) = <<c, n>>
    BY DEF IsUnderway
  <2>2. /\ j \in DOMAIN cache /\ cache[j].status = "accepted" /\ cache[j].request.op \in Works
        /\ cache[j].request.client = c /\ cache[j].request.command = n
        /\ cache[j] \in Members(cache)
    BY <2>1 DEF Underway, Terminal, Key, Members
  <2>3. /\ Current(c) \in packets /\ Current(c).op = "ReleaseAll" /\ Key(Current(c)) = MyKey(c)
        /\ Current(c).client = c /\ Current(c).command = client[c].command
    BY DEF ToldOfRelease, Current, Request, Key, MyKey, CommandInv, OneRequest
  <2>4. client[c].command <= n
    BY <2>2, <2>3 DEF CommandInv, Fenced
  <2>5. n \in Nat /\ client[c].command \in Nat
    BY TrackerLimits DEF CommandInv, CommandTypeOK, Clients
  <2>6. QED
    BY <2>4, <2>5
<1>2. QED
  BY <1>1, CommandsCorrect, PTL

(* The server accepts no command twice while it remembers the session.     *)
THEOREM ServerAcceptsOnce == CommandSpec => NeverAcceptedTwice
<1>1. CommandInv => \A a \in remembered : ~Accepted(a[1], a[2])
  BY DEF CommandInv, TrackerInv, RememberedIsStale, Accepted, Take
<1>2. CommandInv => [\A a \in remembered : ~Accepted(a[1], a[2])]_trackerVars
  BY <1>1
<1>3. QED
  BY <1>2, CommandsCorrect, PTL DEF NeverAcceptedTwice

-----------------------------------------------------------------------------
(* What a client is told of its request stays the outcome.                 *)

OneRecord(q) ==
  \A i, j \in DOMAIN q : Key(q[i].request) = Key(q[j].request) => i = j

(* The cache has one record of a request, and it was accepted.  Completed  *)
(* ones have been done.                                                    *)
CacheHonest ==
  /\ OneRecord(cache)
  /\ \A m \in Members(cache) :
       /\ Key(m.request) \in started
       /\ m.status = "completed" => Key(m.request) \in done

(* A request that is open to be accepted a second time.                    *)
Reopened(r) == r.client \in dropped \/ (r.op # "Execute" /\ epoch > 1)

ToldHonestly ==
  \A c \in Sessions :
    client[c].result \in Lasts =>
      /\ MyKey(c) \in started
      /\ client[c].result = "completed" => MyKey(c) \in done
      /\ \A m \in Members(cache) :
           Key(m.request) = MyKey(c) /\ m.status = "accepted" => Reopened(m.request)

OutcomeInv == CommandInv /\ CacheHonest /\ ToldHonestly

-----------------------------------------------------------------------------
(* What becomes of the cache.                                              *)

LEMMA WithoutKeepsOne ==
  ASSUME NEW q \in Seq(Records), NEW j \in DOMAIN q, OneRecord(q)
  PROVE  OneRecord(Without(q, j))
<1> DEFINE n == Len(q) - 1
           w == Without(q, j)
<1>1. Len(q) \in Nat /\ DOMAIN q = 1 .. Len(q)
  BY LenProperties
<1>2. n \in Nat /\ j \in 1 .. Len(q) /\ Len(q) = n + 1
  BY <1>1
<1>3. DOMAIN w = 1 .. n /\ \A i \in 1 .. n : w[i] = IF i < j THEN q[i] ELSE q[i + 1]
  BY DEF Without
<1> HIDE DEF w, n
<1>4. SUFFICES ASSUME NEW i \in 1 .. n, NEW k \in 1 .. n,
                      Key(w[i].request) = Key(w[k].request)
               PROVE  i = k
  BY <1>3 DEF OneRecord, w
<1>5. PICK a \in 1 .. Len(q) : w[i] = q[a] /\ a = IF i < j THEN i ELSE i + 1
  BY <1>2, <1>3
<1>6. PICK b \in 1 .. Len(q) : w[k] = q[b] /\ b = IF k < j THEN k ELSE k + 1
  BY <1>2, <1>3
<1>7. a = b
  BY <1>1, <1>4, <1>5, <1>6 DEF OneRecord
<1>8. QED
  BY <1>2, <1>5, <1>6, <1>7

LEMMA TrimmedKeepsOne ==
  ASSUME NEW q \in Seq(Records), DOMAIN q = DOMAIN cache, NEW kept \in Trimmed(q), OneRecord(q)
  PROVE  OneRecord(kept)
<1>1. kept = q \/ \E j \in DOMAIN q : kept = Without(q, j)
  BY DEF Trimmed, Oldest, Ended
<1>2. QED
  BY <1>1, WithoutKeepsOne

LEMMA AppendKeepsOne ==
  ASSUME NEW q \in Seq(Records), NEW m \in Records, OneRecord(q),
         \A n \in Members(q) : Key(n.request) # Key(m.request)
  PROVE  OneRecord(Append(q, m))
<1> DEFINE p == Append(q, m)
<1>1. Len(q) \in Nat /\ DOMAIN q = 1 .. Len(q)
  BY LenProperties
<1>2. /\ p \in Seq(Records) /\ Len(p) = Len(q) + 1
      /\ \A i \in 1 .. Len(q) : p[i] = q[i]
      /\ p[Len(q) + 1] = m
  BY AppendProperties
<1>3. DOMAIN p = 1 .. Len(q) + 1
  BY <1>2, LenProperties
<1> HIDE DEF p
<1>4. \A i \in 1 .. Len(q) : Key(p[i].request) # Key(m.request)
  BY <1>1, <1>2 DEF Members
<1>5. SUFFICES ASSUME NEW i \in 1 .. Len(q) + 1, NEW j \in 1 .. Len(q) + 1,
                      Key(p[i].request) = Key(p[j].request)
               PROVE  i = j
  BY <1>3 DEF OneRecord, p
<1>6. (i \in 1 .. Len(q) \/ i = Len(q) + 1) /\ (j \in 1 .. Len(q) \/ j = Len(q) + 1)
  BY <1>1
<1>7. CASE i \in 1 .. Len(q) /\ j \in 1 .. Len(q)
  BY <1>1, <1>2, <1>5, <1>7 DEF OneRecord
<1>8. QED
  BY <1>2, <1>4, <1>5, <1>6, <1>7

LEMMA EndKeepsOne ==
  ASSUME NEW q \in Seq(Records), NEW places, NEW status \in Lasts, OneRecord(q)
  PROVE  OneRecord(End(q, places, status))
<1>1. \A j \in DOMAIN q : q[j] \in Records
  BY LenProperties, ElementOfSeq
<1>2. ASSUME NEW j \in DOMAIN q
      PROVE  End(q, places, status)[j].request = q[j].request
  <2>1. End(q, places, status)[j] = IF j \in places THEN [q[j] EXCEPT !.status = status] ELSE q[j]
    BY DEF End
  <2>2. q[j] \in Records
    BY <1>1
  <2>3. QED
    BY <2>1, <2>2 DEF Records
<1>3. QED
  BY <1>2, EndProperties DEF OneRecord

(* A record at its place.                                                  *)
LEMMA CacheElement ==
  ASSUME CommandTypeOK, NEW j \in DOMAIN cache
  PROVE  /\ cache[j] \in Records /\ cache[j] \in Members(cache)
         /\ cache[j].request \in Requests /\ cache[j].status \in {"accepted"} \cup Lasts
<1>1. cache \in Seq(Records)
  BY DEF CommandTypeOK
<1>2. cache[j] \in Records
  BY <1>1, LenProperties, ElementOfSeq
<1>3. QED
  BY <1>2 DEF Records, Members

-----------------------------------------------------------------------------
(* What the clients hear.                                                  *)

(* An answer that is for good is right, and nothing of it is under way.    *)
Right(t) ==
  t[2] \in Lasts =>
    /\ Key(t[1]) \in started
    /\ t[2] = "completed" => Key(t[1]) \in done
    /\ \A m \in Members(cache) : Key(m.request) = Key(t[1]) => m.status # "accepted"

(* Work that is under way after a step was so before, or is new, or was    *)
(* open to be accepted again.                                              *)
WasOpen(m) ==
  \/ \E n \in Members(cache) : n.request = m.request /\ n.status = "accepted"
  \/ Key(m.request) \notin started

LEMMA HearingKeepsHonest ==
  ASSUME OutcomeInv, NEW told, Hears(told), UNCHANGED <<packets, epoch>>,
         started \subseteq started', done \subseteq done', dropped \subseteq dropped',
         \A t \in told : Right(t)',
         \A m \in Members(cache') : m.status = "accepted" => WasOpen(m) \/ Reopened(m.request)'
  PROVE  ToldHonestly'
<1> SUFFICES ASSUME NEW c \in Sessions, client'[c].result \in Lasts
             PROVE  /\ MyKey(c)' \in started'
                    /\ client'[c].result = "completed" => MyKey(c)' \in done'
                    /\ \A m \in Members(cache') :
                         Key(m.request) = MyKey(c)' /\ m.status = "accepted" => Reopened(m.request)'
  BY DEF ToldHonestly
<1>1. /\ client'[c].command = client[c].command
      /\ client'[c].op = client[c].op /\ client'[c].epoch = client[c].epoch
      /\ \/ client'[c].result \in {client[c].result, "none"}
         \/ \E t \in told : t[1] = Current(c) /\ client'[c].result = t[2]
  BY DEF Hears
<1>2. MyKey(c)' = MyKey(c)
  BY <1>1 DEF MyKey
<1>3. CASE client'[c].result = client[c].result
  <2>1. /\ MyKey(c) \in started
        /\ client[c].result = "completed" => MyKey(c) \in done
        /\ \A m \in Members(cache) :
             Key(m.request) = MyKey(c) /\ m.status = "accepted" => Reopened(m.request)
    BY <1>3 DEF OutcomeInv, ToldHonestly
  <2>2. ASSUME NEW m \in Members(cache'), Key(m.request) = MyKey(c), m.status = "accepted"
        PROVE  Reopened(m.request)'
    <3>1. CASE Reopened(m.request)'
      BY <3>1
    <3>2. CASE \E n \in Members(cache) : n.request = m.request /\ n.status = "accepted"
      <4>1. Reopened(m.request)
        BY <2>1, <2>2, <3>2
      <4>2. QED
        BY <4>1 DEF Reopened
    <3>3. CASE Key(m.request) \notin started
      BY <2>1, <2>2, <3>3
    <3>4. QED
      BY <2>2, <3>1, <3>2, <3>3 DEF WasOpen
  <2>3. QED
    BY <1>1, <1>2, <1>3, <2>1, <2>2
<1>4. CASE \E t \in told : t[1] = Current(c) /\ client'[c].result = t[2]
  <2>1. PICK t \in told : t[1] = Current(c) /\ client'[c].result = t[2]
    BY <1>4
  <2>2. Key(t[1]) = MyKey(c)
    BY <2>1 DEF Current, Request, Key, MyKey
  <2>3. /\ Key(t[1]) \in started'
        /\ t[2] = "completed" => Key(t[1]) \in done'
        /\ \A m \in Members(cache') : Key(m.request) = Key(t[1]) => m.status # "accepted"
    BY <2>1 DEF Right
  <2>4. MyKey(c)' = Key(t[1])
    BY <1>2, <2>2
  <2>5. client'[c].result = "completed" => MyKey(c)' \in done'
    BY <2>1, <2>3, <2>4
  <2>6. \A m \in Members(cache') : Key(m.request) = MyKey(c)' => m.status # "accepted"
    BY <2>3, <2>4
  <2>7. MyKey(c)' \in started'
    BY <2>3, <2>4
  <2>8. QED
    BY <2>5, <2>6, <2>7
<1>5. client'[c].result # "none"
  BY DEF Lasts
<1>6. QED
  BY <1>1, <1>3, <1>4, <1>5

-----------------------------------------------------------------------------
(* The steps.                                                              *)

(* Records that end are told of rightly.                                   *)
LEMMA EndIsRight ==
  ASSUME OutcomeInv, NEW places, NEW status \in Lasts, cache' = End(cache, places, status),
         places \subseteq DOMAIN cache, UNCHANGED started, done \subseteq done',
         status = "completed" => \A j \in places : Key(cache[j].request) \in done'
  PROVE  /\ \A t \in Endings(cache, places, status) : Right(t)'
         /\ CacheHonest'
         /\ \A m \in Members(cache') : m.status = "accepted" => WasOpen(m)
<1>1. /\ cache \in Seq(Records) /\ CommandTypeOK /\ OneRecord(cache)
      /\ DOMAIN cache' = DOMAIN cache /\ OneRecord(cache')
      /\ \A j \in DOMAIN cache :
           cache'[j] = IF j \in places THEN [cache[j] EXCEPT !.status = status] ELSE cache[j]
  BY EndProperties, EndKeepsOne DEF OutcomeInv, CommandInv, CommandTypeOK, CacheHonest
<1>2. ASSUME NEW j \in DOMAIN cache
      PROVE  /\ cache'[j].request = cache[j].request
             /\ cache'[j].status = IF j \in places THEN status ELSE cache[j].status
             /\ Key(cache[j].request) \in started
             /\ cache[j].status = "completed" => Key(cache[j].request) \in done
             /\ cache[j] \in Members(cache)
  <2>1. cache[j] \in Records /\ cache[j] \in Members(cache)
    BY <1>1, CacheElement
  <2>2. QED
    BY <1>1, <2>1 DEF Records, OutcomeInv, CacheHonest
<1>3. \A m \in Members(cache') : \E j \in DOMAIN cache : m = cache'[j]
  BY <1>1 DEF Members
<1>4. ASSUME NEW m \in Members(cache')
      PROVE  /\ Key(m.request) \in started'
             /\ m.status = "completed" => Key(m.request) \in done'
             /\ m.status = "accepted" => WasOpen(m)
  <2>1. PICK j \in DOMAIN cache : m = cache'[j]
    BY <1>3
  <2>2. m.request = cache[j].request /\ Key(m.request) \in started
    BY <1>2, <2>1
  <2>3. CASE j \in places
    BY <1>2, <2>1, <2>2, <2>3 DEF Lasts
  <2>4. CASE j \notin places
    <3>1. m.status = cache[j].status /\ cache[j] \in Members(cache)
      BY <1>2, <2>1, <2>4
    <3>2. m.status = "accepted" => WasOpen(m)
      BY <2>2, <3>1 DEF WasOpen
    <3>3. QED
      BY <1>2, <2>2, <3>1, <3>2
  <2>5. QED
    BY <2>3, <2>4
<1>5. ASSUME NEW t \in Endings(cache, places, status) PROVE Right(t)'
  <2>1. PICK j \in places : t = <<cache[j].request, status>>
    BY DEF Endings
  <2>2. Key(t[1]) = Key(cache[j].request) /\ t[2] = status /\ j \in DOMAIN cache
    BY <2>1
  <2>3. ASSUME NEW m \in Members(cache'), Key(m.request) = Key(t[1])
        PROVE  m.status # "accepted"
    <3>1. PICK i \in DOMAIN cache : m = cache'[i]
      BY <1>3
    <3>2. Key(cache[i].request) = Key(cache[j].request)
      BY <1>2, <2>2, <2>3, <3>1
    <3>3. i = j
      BY <1>1, <2>2, <3>2 DEF OneRecord
    <3>4. m.status = status
      BY <1>2, <3>1, <3>3
    <3>5. QED
      BY <3>4 DEF Lasts
  <2>4. Key(t[1]) \in started' /\ (t[2] = "completed" => Key(t[1]) \in done')
    BY <1>2, <2>2
  <2>5. QED
    BY <1>2, <2>2, <2>3, <2>4 DEF Right
<1>6. QED
  BY <1>1, <1>4, <1>5 DEF CacheHonest

LEMMA EndsOutcome ==
  ASSUME OutcomeInv, CommandInv', NEW places, NEW status \in Lasts,
         places \subseteq DOMAIN cache, cache' = End(cache, places, status),
         Answered(Endings(cache, places, status)),
         UNCHANGED <<packets, epoch, started, dropped>>, done \subseteq done',
         status = "completed" => \A j \in places : Key(cache[j].request) \in done'
  PROVE  OutcomeInv'
<1> DEFINE told == Endings(cache, places, status)
<1>1. Hears(told)
  BY EndingsAreTold DEF OutcomeInv
<1>2. /\ \A t \in told : Right(t)'
      /\ CacheHonest' /\ \A m \in Members(cache') : m.status = "accepted" => WasOpen(m)
  BY EndIsRight
<1> HIDE DEF told
<1>3. ToldHonestly'
  BY <1>1, <1>2, HearingKeepsHonest
<1>4. QED
  BY <1>2, <1>3 DEF OutcomeInv

(* Some records are dropped, or none.                                      *)
LEMMA FewerRecords ==
  ASSUME OutcomeInv, UNCHANGED started, UNCHANGED done,
         cache' = cache \/ cache' \in Trimmed(cache)
  PROVE  CacheHonest' /\ Members(cache') \subseteq Members(cache)
<1>1. cache \in Seq(Records) /\ OneRecord(cache)
  BY DEF OutcomeInv, CommandInv, CommandTypeOK, CacheHonest
<1>2. OneRecord(cache') /\ Members(cache') \subseteq Members(cache)
  BY <1>1, TrimmedProperties, TrimmedKeepsOne
<1>3. QED
  BY <1>2 DEF OutcomeInv, CacheHonest

LEMMA AnswerOutcome ==
  ASSUME OutcomeInv, CommandInv', NEW r \in packets,
         AnswerBusy(r) \/ AnswerEpoch(r) \/ AnswerAgain(r) \/ AnswerStale(r)
           \/ AnswerRefused(r) \/ AnswerFull(r)
  PROVE  OutcomeInv'
<1>1. UNCHANGED <<packets, epoch, started, done, dropped>>
  BY DEF AnswerBusy, AnswerEpoch, AnswerAgain, AnswerStale, AnswerRefused, AnswerFull,
         Refuse, KeepServer, cacheVars, historyVars
<1>2. cache' = cache \/ cache' \in Trimmed(cache)
  BY DEF AnswerBusy, AnswerEpoch, AnswerAgain, AnswerStale, AnswerRefused, AnswerFull,
         Refuse, KeepServer, cacheVars
<1>3. CacheHonest' /\ Members(cache') \subseteq Members(cache)
  BY <1>1, <1>2, FewerRecords
<1>4. PICK told : /\ Answered(told)
                  /\ \A t \in told : t[2] \in Statuses
                  /\ \A t \in told : Right(t)'
  <2>1. ASSUME NEW status \in {"none", "stale_command"},
               Answered({<<r, status>>}) \/ Answered({})
        PROVE  \E told : Answered(told) /\ (\A t \in told : t[2] \in Statuses /\ Right(t)')
    <3>1. \A t \in {<<r, status>>} : t[2] = status
      OBVIOUS
    <3>2. status \in Statuses /\ status \notin Lasts
      BY DEF Statuses, Lasts
    <3>3. \A t \in {<<r, status>>} : t[2] \in Statuses /\ Right(t)'
      BY <3>1, <3>2 DEF Right
    <3>4. QED
      BY <2>1, <3>3
  <2>2. CASE AnswerBusy(r) \/ AnswerFull(r)
    BY <2>1, <2>2 DEF AnswerBusy, AnswerFull, TryAgain
  <2>3. CASE AnswerEpoch(r) \/ AnswerRefused(r) \/ AnswerStale(r)
    BY <2>1, <2>3 DEF AnswerEpoch, AnswerRefused, AnswerStale, Refuse
  <2>4. CASE AnswerAgain(r)
    <3> DEFINE j == CachedAt(r)
               status == IF Terminal(cache[j]) THEN cache[j].status ELSE "accepted"
               told == {<<r, status>>}
    <3>1. j \in DOMAIN cache /\ Key(cache[j].request) = Key(r)
      BY <2>4 DEF AnswerAgain, Cached, CachedAt, SameRequest
    <3>2. Answered(told) /\ cache' = cache
      BY <2>4 DEF AnswerAgain
    <3>3. cache[j].status \in {"accepted"} \cup Lasts /\ cache[j] \in Members(cache)
      BY <3>1, CacheElement DEF OutcomeInv, CommandInv
    <3> HIDE DEF j
    <3>4. status = cache[j].status
      BY <3>3 DEF Terminal
    <3>5. ASSUME cache[j].status # "accepted", NEW m \in Members(cache), Key(m.request) = Key(r)
          PROVE  m.status # "accepted"
      <4>1. PICK i \in DOMAIN cache : m = cache[i]
        BY DEF Members
      <4>2. i = j
        BY <3>1, <3>5, <4>1 DEF OutcomeInv, CacheHonest, OneRecord
      <4>3. QED
        BY <3>5, <4>1, <4>2
    <3> HIDE DEF status
    <3>6. ASSUME NEW t \in told PROVE t[2] \in Statuses /\ Right(t)'
      <4>1. t[1] = r /\ t[2] = status
        OBVIOUS
      <4>2. status \in Statuses
        BY <3>3, <3>4 DEF Statuses
      <4>3. Key(r) \in started' /\ (status = "completed" => Key(r) \in done')
        BY <1>1, <3>1, <3>3, <3>4 DEF OutcomeInv, CacheHonest
      <4>4. status \in Lasts =>
              \A m \in Members(cache') : Key(m.request) = Key(r) => m.status # "accepted"
        BY <3>2, <3>4, <3>5 DEF Lasts
      <4>5. QED
        BY <4>1, <4>2, <4>3, <4>4 DEF Right
    <3>7. QED
      BY <3>2, <3>6
  <2>5. QED
    BY <2>2, <2>3, <2>4
<1>5. Hears(told)
  BY <1>4, AnsweredProperties DEF OutcomeInv, CommandInv
<1>6. \A m \in Members(cache') : m.status = "accepted" => WasOpen(m)
  BY <1>3 DEF WasOpen
<1>7. ToldHonestly'
  BY <1>1, <1>4, <1>5, <1>6, HearingKeepsHonest
<1>8. QED
  BY <1>3, <1>7 DEF OutcomeInv

(* A request is accepted beside records q of the old cache.  One that had  *)
(* been accepted before was open for it.                                   *)
LEMMA AcceptedAgain ==
  ASSUME CommandInv, NEW r \in packets, NEW force, NEW protected,
         Take(r.client, r.command, force, protected), Started(r), OfEpoch(r),
         Key(r) \in started, epoch' = epoch
  PROVE  Reopened(r)'
<1>1. Past(r) \/ Key(r) \in remembered \/ r.client \in dropped
  BY DEF CommandInv, StartedIsOld
<1>2. Key(r) \notin remembered
  <2>1. ASSUME Key(r) \in remembered PROVE Stale(r.client, r.command)
    BY <2>1 DEF CommandInv, TrackerInv, RememberedIsStale, Key
  <2>2. QED
    BY <2>1 DEF Take
<1>3. dropped \subseteq dropped'
  BY DEF Started, Drop
<1>4. CASE Past(r)
  BY <1>4 DEF Past, OfEpoch, Reopened, CommandInv, CommandTypeOK
<1>5. QED
  BY <1>1, <1>2, <1>3, <1>4 DEF Reopened

LEMMA AcceptOutcome ==
  ASSUME OutcomeInv, CommandInv', NEW r \in packets, NEW force, NEW protected, New(r),
         Take(r.client, r.command, force, protected), Started(r), UNCHANGED <<packets, epoch, done>>,
         NEW told, Hears(told), \A t \in told : Right(t)',
         NEW q \in Seq(Records), DOMAIN q = DOMAIN cache, OneRecord(q), Calmer(q),
         \A m \in Members(q) : m.status = "completed" => Key(m.request) \in done,
         NEW kept \in Trimmed(q), cache' = Append(kept, Record(r))
  PROVE  OutcomeInv'
<1>1. /\ started' = started \cup {Key(r)} /\ dropped \subseteq dropped' /\ OfEpoch(r)
  BY DEF Started, Drop, New
<1>2. /\ Record(r) \in Records /\ Record(r).request = r /\ Record(r).status = "accepted"
  BY RecordOfRequest DEF OutcomeInv
<1>3. kept \in Seq(Records) /\ OneRecord(kept) /\ Members(kept) \subseteq Members(q)
  BY TrimmedProperties, TrimmedKeepsOne
<1>4. \A m \in Members(cache) : Key(m.request) # Key(r)
  BY DEF New, Cached, SameRequest, Members
<1>5. \A m \in Members(kept) : \E n \in Members(cache) :
        m.request = n.request /\ (m.status = "accepted" => n.status = "accepted")
  BY <1>3 DEF Calmer
<1>6. \A m \in Members(kept) : Key(m.request) # Key(r) /\ Key(m.request) \in started
  BY <1>4, <1>5 DEF OutcomeInv, CacheHonest
<1>7. OneRecord(cache') /\ Members(cache') \subseteq Members(kept) \cup {Record(r)}
  BY <1>2, <1>3, <1>6, AppendKeepsOne, AppendRecord
<1>8. ASSUME NEW m \in Members(cache')
      PROVE  Key(m.request) \in started' /\ (m.status = "completed" => Key(m.request) \in done')
  <2>1. CASE m \in Members(kept)
    BY <1>1, <1>3, <1>6, <2>1
  <2>2. CASE m = Record(r)
    BY <1>1, <1>2, <2>2
  <2>3. QED
    BY <1>7, <2>1, <2>2
<1>9. CacheHonest'
  BY <1>7, <1>8 DEF CacheHonest
<1>10. ASSUME NEW m \in Members(cache'), m.status = "accepted"
       PROVE  WasOpen(m) \/ Reopened(m.request)'
  <2>1. CASE m \in Members(kept)
    BY <1>5, <1>10, <2>1 DEF WasOpen
  <2>2. CASE m = Record(r)
    <3>1. m.request = r
      BY <1>2, <2>2
    <3>2. CASE Key(r) \in started
      <4>1. Reopened(r)'
        BY <1>1, <3>2, AcceptedAgain DEF OutcomeInv
      <4>2. QED
        BY <3>1, <4>1
    <3>3. CASE Key(r) \notin started
      BY <3>1, <3>3 DEF WasOpen
    <3>4. QED
      BY <3>2, <3>3
  <2>3. QED
    BY <1>7, <2>1, <2>2
<1>11. ToldHonestly'
  BY <1>1, <1>10, HearingKeepsHonest
<1>12. QED
  BY <1>9, <1>11 DEF OutcomeInv

LEMMA AcceptWorkOutcome ==
  ASSUME OutcomeInv, CommandInv', NEW r \in packets, AcceptWork(r)
  PROVE  OutcomeInv'
<1> DEFINE told == {<<r, "accepted">>}
<1>1. /\ Take(r.client, r.command, FALSE, Protected) /\ Started(r) /\ New(r)
      /\ UNCHANGED <<packets, epoch, done>> /\ Answered(told)
  BY DEF AcceptWork
<1>2. \A t \in told : t[2] = "accepted" /\ t[2] \in Statuses /\ t[2] \notin Lasts
  BY DEF Statuses, Lasts
<1> HIDE DEF told
<1>3. \A t \in told : Right(t)'
  BY <1>2 DEF Right
<1>4. Hears(told)
  BY <1>1, <1>2, AnsweredProperties DEF OutcomeInv, CommandInv
<1>5. /\ cache \in Seq(Records) /\ OneRecord(cache) /\ Calmer(cache)
      /\ \A m \in Members(cache) : m.status = "completed" => Key(m.request) \in done
  BY SameIsCalmer DEF OutcomeInv, CommandInv, CommandTypeOK, CacheHonest
<1>6. PICK kept \in Trimmed(cache) : cache' = Append(kept, Record(r))
  BY DEF AcceptWork
<1>7. QED
  BY <1>1, <1>3, <1>4, <1>5, <1>6, AcceptOutcome

LEMMA AcceptReleaseOutcome ==
  ASSUME OutcomeInv, CommandInv', NEW r \in packets, AcceptRelease(r)
  PROVE  OutcomeInv'
<1> DEFINE places == Underway(Operations)
           ends == Endings(cache, places, "cancelled")
           told == {<<r, "accepted">>} \cup ends
           calm == End(cache, places, "cancelled")
<1>1. /\ Take(r.client, r.command, TRUE, Protected) /\ Started(r) /\ New(r)
      /\ UNCHANGED <<packets, epoch, done>> /\ Answered(told)
  BY DEF AcceptRelease, Cancelled
<1>2. PICK kept \in Trimmed(calm) : cache' = Append(kept, Record(r))
  BY DEF AcceptRelease, Cancelled
<1>3. /\ cache \in Seq(Records) /\ OneRecord(cache) /\ CommandTypeOK
      /\ \A m \in Members(cache) :
           /\ Key(m.request) \in started
           /\ m.status = "completed" => Key(m.request) \in done
  BY DEF OutcomeInv, CommandInv, CommandTypeOK, CacheHonest
<1>4. /\ calm \in Seq(Records) /\ DOMAIN calm = DOMAIN cache /\ Calmer(calm) /\ OneRecord(calm)
      /\ \A j \in DOMAIN cache :
           calm[j] = IF j \in places THEN [cache[j] EXCEPT !.status = "cancelled"] ELSE cache[j]
  BY <1>3, EndProperties, EndIsCalmer, EndKeepsOne DEF Lasts
<1> HIDE DEF calm
<1>5. ASSUME NEW j \in DOMAIN cache
      PROVE  /\ calm[j].status # "accepted" /\ calm[j].request = cache[j].request
             /\ calm[j].status = "completed" => Key(calm[j].request) \in done
  <2>1. cache[j] \in Records /\ cache[j] \in Members(cache) /\ cache[j].request.op \in Operations
    BY <1>3, CacheElement DEF Requests
  <2>2. j \in places <=> cache[j].status = "accepted"
    BY <2>1 DEF Underway, Terminal
  <2> HIDE DEF places
  <2>3. CASE j \in places
    BY <1>4, <2>1, <2>3 DEF Records
  <2>4. CASE j \notin places
    BY <1>3, <1>4, <2>1, <2>2, <2>4
  <2>5. QED
    BY <2>3, <2>4
<1>6. \A m \in Members(calm) : /\ m.status # "accepted"
                               /\ m.status = "completed" => Key(m.request) \in done
  BY <1>4, <1>5 DEF Members
<1>7. Members(cache') \subseteq Members(calm) \cup {Record(r)}
  <2>1. kept \in Seq(Records) /\ Members(kept) \subseteq Members(calm)
    BY <1>2, <1>4, TrimmedProperties
  <2>2. QED
    BY <1>2, <2>1, AppendRecord, RecordOfRequest DEF OutcomeInv
<1>8. ASSUME NEW t \in ends PROVE t[2] = "cancelled" /\ Right(t)'
  <2>1. PICK j \in places : t = <<cache[j].request, "cancelled">>
    BY DEF Endings
  <2>2. j \in DOMAIN cache /\ Key(t[1]) = Key(cache[j].request) /\ t[2] = "cancelled"
    BY <2>1 DEF Underway
  <2>3. Key(t[1]) # Key(r)
    BY <1>1, <2>2 DEF New, Cached, SameRequest
  <2>4. ASSUME NEW m \in Members(cache'), Key(m.request) = Key(t[1])
        PROVE  m.status # "accepted"
    <3>1. m # Record(r)
      <4>1. Record(r).request = r
        BY RecordOfRequest DEF OutcomeInv
      <4>2. QED
        BY <2>3, <2>4, <4>1
    <3>2. m \in Members(calm)
      BY <1>7, <3>1
    <3>3. QED
      BY <1>6, <3>2
  <2>5. Key(t[1]) \in started'
    BY <1>1, <1>3, <2>2 DEF Members, Started
  <2>6. QED
    BY <2>2, <2>4, <2>5 DEF Right
<1> HIDE DEF ends
<1>9. \A t \in told : t[2] \in Statuses /\ Right(t)'
  <2>1. "cancelled" \in Statuses /\ "accepted" \in Statuses /\ "accepted" \notin Lasts
    BY DEF Statuses, Lasts
  <2>2. \A t \in {<<r, "accepted">>} : t[2] = "accepted"
    OBVIOUS
  <2>3. \A t \in {<<r, "accepted">>} : Right(t)'
    BY <2>1, <2>2 DEF Right
  <2>4. QED
    BY <1>8, <2>1, <2>2, <2>3
<1> HIDE DEF told
<1>10. Hears(told)
  BY <1>1, <1>3, <1>9, AnsweredProperties
<1>11. QED
  BY <1>1, <1>2, <1>4, <1>6, <1>9, <1>10, AcceptOutcome

(* Steps that leave the cache and the requests alone.                      *)
LEMMA StillOutcome ==
  ASSUME OutcomeInv, CommandInv', NEW told, Hears(told), \A t \in told : t[2] \notin Lasts,
         UNCHANGED <<packets, epoch, cache, started, done>>, dropped \subseteq dropped'
  PROVE  OutcomeInv'
<1>1. CacheHonest'
  BY DEF OutcomeInv, CacheHonest
<1>2. \A m \in Members(cache') : m.status = "accepted" => WasOpen(m)
  BY DEF WasOpen
<1>3. \A t \in told : Right(t)'
  BY DEF Right
<1>4. ToldHonestly'
  BY <1>2, <1>3, HearingKeepsHonest
<1>5. QED
  BY <1>1, <1>4 DEF OutcomeInv

LEMMA SendOutcome ==
  ASSUME OutcomeInv, CommandInv', NEW c \in Sessions, NEW op, Send(c, op), KeepsServer
  PROVE  OutcomeInv'
<1>1. UNCHANGED <<cache, epoch, started, done, dropped>>
  BY DEF KeepsServer, cacheVars, historyVars
<1>2. \A d \in Sessions : client'[d] = client[d] \/ client'[d].result = "none"
  BY DEF Send, OutcomeInv, CommandInv, CommandTypeOK
<1>3. CacheHonest'
  BY <1>1 DEF OutcomeInv, CacheHonest
<1>4. ToldHonestly'
  <2> SUFFICES ASSUME NEW d \in Sessions, client'[d].result \in Lasts
               PROVE  /\ MyKey(d)' \in started
                      /\ client'[d].result = "completed" => MyKey(d)' \in done
                      /\ \A m \in Members(cache) :
                           Key(m.request) = MyKey(d)' /\ m.status = "accepted"
                             => Reopened(m.request)
    BY <1>1 DEF ToldHonestly, Reopened
  <2>1. client'[d] = client[d]
    BY <1>2 DEF Lasts
  <2>2. MyKey(d)' = MyKey(d)
    BY <2>1 DEF MyKey
  <2>3. QED
    BY <2>1, <2>2 DEF OutcomeInv, ToldHonestly
<1>5. QED
  BY <1>3, <1>4 DEF OutcomeInv

LEMMA RestartOutcome ==
  ASSUME OutcomeInv, CommandInv', Restart
  PROVE  OutcomeInv'
<1>1. /\ UNCHANGED <<client, started, done>>
      /\ (active = <<>>)' /\ (retired = <<>>)' /\ (remembered = {})' /\ (cache = <<>>)'
  BY DEF Restart, clientVars, historyVars
<1>2. (Members(cache) = {} /\ cache \in Seq(Records))'
  BY <1>1, NothingKept, PTL
<1>3. DOMAIN cache' = {}
  BY <1>2 DEF Members
<1>4. CacheHonest'
  BY <1>2, <1>3 DEF CacheHonest, OneRecord
<1>5. ToldHonestly'
  BY <1>1, <1>2 DEF OutcomeInv, ToldHonestly, MyKey
<1>6. QED
  BY <1>4, <1>5 DEF OutcomeInv

LEMMA ClientStepOutcome ==
  ASSUME OutcomeInv, CommandInv', NEW c \in Sessions,
         GiveUp(c) \/ TakesLease(c) \/ \E op \in Operations : Ask(c, op)
  PROVE  OutcomeInv'
<1>1. ASSUME client' = client \/ client' = [client EXCEPT ![c] = Returned(c, "none")],
             UNCHANGED <<packets, epoch, cache, started, done, dropped>>
      PROVE  OutcomeInv'
  <2>1. Hears({})
    BY <1>1, ReturnHears DEF OutcomeInv, CommandInv
  <2>2. QED
    BY <1>1, <2>1, StillOutcome
<1>2. CASE \E op \in Operations : Ask(c, op)
  BY <1>2, SendOutcome DEF Ask, KeepsServer
<1>3. CASE GiveUp(c)
  <2>1. CASE client[c].op = "Execute"
    BY <1>3, <2>1, SendOutcome DEF GiveUp, KeepsServer
  <2>2. CASE client[c].op # "Execute"
    BY <1>1, <1>3, <2>2 DEF GiveUp, cacheVars, historyVars
  <2>3. QED
    BY <2>1, <2>2
<1>4. CASE TakesLease(c)
  BY <1>1, <1>4 DEF TakesLease, clientVars, historyVars
<1>5. QED
  BY <1>2, <1>3, <1>4

LEMMA ServerStepOutcome ==
  ASSUME OutcomeInv, CommandInv', ServerResets \/ TombstoneExpires \/ Restart
  PROVE  OutcomeInv'
<1>1. CASE ServerResets
  <2>1. /\ cache' = End(cache, Underway(Works), "cancelled")
        /\ Answered(Endings(cache, Underway(Works), "cancelled"))
        /\ UNCHANGED <<packets, epoch, started, dropped, done>>
    BY <1>1 DEF ServerResets, historyVars
  <2>2. Underway(Works) \subseteq DOMAIN cache /\ "cancelled" \in Lasts /\ "cancelled" # "completed"
    BY DEF Underway, Lasts
  <2>3. QED
    BY <2>1, <2>2, EndsOutcome
<1>2. CASE TombstoneExpires
  <2>1. /\ UNCHANGED <<client, packets, epoch, cache, started, done>> /\ dropped \subseteq dropped'
    BY <1>2 DEF TombstoneExpires, Drop, clientVars, cacheVars
  <2>2. Hears({})
    BY <2>1 DEF OutcomeInv, CommandInv, CommandTypeOK, Hears
  <2>3. QED
    BY <2>1, <2>2, StillOutcome
<1>3. CASE Restart
  BY <1>3, RestartOutcome
<1>4. QED
  BY <1>1, <1>2, <1>3

LEMMA EndsStepOutcome ==
  ASSUME OutcomeInv, CommandInv', NEW j \in DOMAIN cache, NEW status \in Lasts, Ends(j, status)
  PROVE  OutcomeInv'
<1>1. /\ cache' = End(cache, {j}, status) /\ Answered(Endings(cache, {j}, status))
      /\ UNCHANGED <<packets, epoch, started, dropped>> /\ {j} \subseteq DOMAIN cache
      /\ done' = IF status = "completed" THEN done \cup {Key(cache[j].request)} ELSE done
  BY DEF Ends
<1>2. done \subseteq done' /\ (status = "completed" => \A i \in {j} : Key(cache[i].request) \in done')
  BY <1>1
<1>3. QED
  BY <1>1, <1>2, EndsOutcome

LEMMA StutterOutcome ==
  ASSUME OutcomeInv, CommandInv', UNCHANGED commandVars
  PROVE  OutcomeInv'
<1>1. UNCHANGED <<client, packets, epoch, cache, started, done, dropped>>
  BY DEF commandVars, clientVars, cacheVars, historyVars
<1>2. Hears({})
  BY <1>1 DEF OutcomeInv, CommandInv, CommandTypeOK, Hears
<1>3. QED
  BY <1>1, <1>2, StillOutcome

-----------------------------------------------------------------------------
(* What a client is told of its request stays its outcome: the work it     *)
(* hears is completed has been done, and nothing that has ended is under   *)
(* way again, unless the server has forgotten its session or, for work     *)
(* without an epoch, was started again.                                    *)
THEOREM OutcomesStand == CommandSpec => []OutcomeStands
<1>1. CommandInit => OutcomeInv
  <2> SUFFICES ASSUME CommandInit PROVE OutcomeInv
    OBVIOUS
  <2>1. CommandInv
    BY CommandInitial
  <2>2. cache = <<>> /\ \A c \in Sessions : client[c].result = "none"
    BY DEF CommandInit
  <2>3. Members(cache) = {} /\ DOMAIN cache = {}
    BY <2>2 DEF Members
  <2>4. CacheHonest /\ ToldHonestly
    BY <2>2, <2>3 DEF CacheHonest, OneRecord, ToldHonestly, Lasts
  <2>5. QED
    BY <2>1, <2>4 DEF OutcomeInv
<1>2. OutcomeInv /\ CommandInv' /\ [CommandNext]_commandVars => OutcomeInv'
  <2> SUFFICES ASSUME OutcomeInv, CommandInv', [CommandNext]_commandVars
               PROVE  OutcomeInv'
    OBVIOUS
  <2>1. ASSUME NEW c \in Sessions,
               GiveUp(c) \/ TakesLease(c) \/ \E op \in Operations : Ask(c, op)
        PROVE  OutcomeInv'
    BY <2>1, ClientStepOutcome
  <2>2. ASSUME NEW r \in packets, Arrive(r)
        PROVE  OutcomeInv'
    BY <2>2, AnswerOutcome, AcceptWorkOutcome, AcceptReleaseOutcome DEF Arrive
  <2>3. ASSUME NEW j \in DOMAIN cache, NEW status \in Lasts, Ends(j, status)
        PROVE  OutcomeInv'
    BY <2>3, EndsStepOutcome
  <2>4. CASE ServerResets \/ TombstoneExpires \/ Restart
    BY <2>4, ServerStepOutcome
  <2>5. CASE UNCHANGED commandVars
    BY <2>5, StutterOutcome
  <2>6. QED
    BY <2>1, <2>2, <2>3, <2>4, <2>5 DEF CommandNext
<1>3. OutcomeInv => OutcomeStands
  <2> SUFFICES ASSUME OutcomeInv, NEW c \in Sessions, client[c].result \in Lasts
               PROVE  /\ client[c].result = "completed" => MyKey(c) \in done
                      /\ IsUnderway(MyKey(c)) =>
                           c \in dropped \/ (client[c].op # "Execute" /\ epoch > 1)
    BY DEF OutcomeStands
  <2>1. client[c].result = "completed" => MyKey(c) \in done
    BY DEF OutcomeInv, ToldHonestly
  <2>2. ASSUME NEW j \in Underway(Works), Key(cache[j].request) = MyKey(c)
        PROVE  c \in dropped \/ (client[c].op # "Execute" /\ epoch > 1)
    <3> DEFINE m == cache[j]
    <3>1. /\ j \in DOMAIN cache /\ m \in Members(cache) /\ m.status = "accepted"
          /\ m.request \in packets
      BY DEF Underway, Terminal, Members, OutcomeInv, CommandInv, FromRequests
    <3> HIDE DEF m
    <3>2. Reopened(m.request)
      BY <2>2, <3>1 DEF OutcomeInv, ToldHonestly, m
    <3>3. m.request.client = c
      BY <2>2 DEF Key, MyKey, m
    <3>4. client[c].op = "Execute" => m.request.op = "Execute"
      <4>1. ASSUME client[c].op = "Execute" PROVE m.request = Current(c)
        <5>1. Current(c) \in packets
          BY <4>1 DEF OutcomeInv, CommandInv, OneRequest
        <5>2. Key(Current(c)) = Key(m.request)
          BY <2>2 DEF Key, MyKey, Current, Request, m
        <5>3. QED
          BY <3>1, <5>1, <5>2 DEF OutcomeInv, CommandInv, OneRequest
      <4>2. QED
        BY <4>1 DEF Current, Request
    <3>5. QED
      BY <3>2, <3>3, <3>4 DEF Reopened
  <2>3. QED
    BY <2>1, <2>2 DEF IsUnderway
<1>4. QED
  BY <1>1, <1>2, <1>3, CommandsCorrect, PTL DEF CommandSpec
=============================================================================
