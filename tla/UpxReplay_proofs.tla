--------------------------- MODULE UpxReplay_proofs ---------------------------
(***************************************************************************)
(* Proofs about UpxReplay, for any number of controllers and places, any   *)
(* range of sequence numbers and any delay of at most half that range.     *)
(***************************************************************************)
EXTENDS UpxReplay, TLAPS

PeerEntry == [peer : Controllers, sequence : 0 .. 2 * Half - 1]

ReplayTypes ==
  /\ entries \in Seq(PeerEntry)
  /\ snapshots \in [Controllers -> Nat]
  /\ newest \in [Controllers -> Nat \cup {None}]

(* A peer has one entry.                                                   *)
OnePeer == \A i, j \in DOMAIN entries : entries[i].peer = entries[j].peer => i = j

(* An entry holds the number of the newest snapshot applied, modulo the    *)
(* range, and who has none is not remembered.                              *)
EntryIsNewest ==
  \A j \in DOMAIN entries :
    /\ newest[entries[j].peer] # None
    /\ entries[j].sequence = Wrapped(newest[entries[j].peer])
ListedIfRemembered == \A p \in Controllers : newest[p] # None => Listed(p)

(* What has been applied has been sent.                                    *)
NewestWasSent == \A p \in Controllers : newest[p] < snapshots[p]

ReplayInv == ReplayTypes /\ OnePeer /\ EntryIsNewest /\ ListedIfRemembered /\ NewestWasSent

-----------------------------------------------------------------------------
(* Arithmetic modulo the range.                                            *)

LEMMA Division ==
  ASSUME NEW a \in Int, NEW m \in Nat \ {0}
  PROVE  /\ a = m * (a \div m) + (a % m)
         /\ a % m \in 0 .. m - 1
         /\ a \div m \in Int
  OBVIOUS

LEMMA Remainder ==
  ASSUME NEW m \in Nat \ {0}, NEW q \in Int, NEW r \in 0 .. m - 1, NEW a \in Int,
         a = m * q + r
  PROVE  a % m = r
  OBVIOUS

LEMMA DifferenceOfRemainders ==
  ASSUME NEW a \in Int, NEW b \in Int, NEW m \in Nat \ {0}
  PROVE  ((a % m) - (b % m)) % m = (a - b) % m
<1> DEFINE q == (a \div m) - (b \div m)
           d == (a % m) - (b % m)
<1>1. q \in Int /\ d \in Int /\ a - b = m * q + d
  BY Division
<1>2. PICK p \in Int : d = m * p + (d % m) /\ d % m \in 0 .. m - 1
  BY <1>1, Division
<1> HIDE DEF q, d
<1>3. a - b = m * (p + q) + (d % m)
  BY <1>1, <1>2
<1>4. p + q \in Int /\ a - b \in Int
  BY <1>1
<1> DEFINE k == p + q
           r == d % m
           c == a - b
<1>6. c = m * k + r /\ k \in Int /\ c \in Int /\ r \in 0 .. m - 1
  BY <1>2, <1>3, <1>4
<1> HIDE DEF k, r, c
<1>7. c % m = r
  BY <1>6, Remainder
<1>5. (a - b) % m = d % m
  BY <1>7 DEF c, r
<1> QED
  BY <1>5 DEF d

(* sequence_newer() tells which of two numbers is ahead, as long as they   *)
(* are less than half of the range apart in the direction it says, and at  *)
(* most half in the other.                                                 *)
LEMMA NewerIsAhead ==
  ASSUME NEW a \in Int, NEW b \in Int, a - b \in -Half .. Half - 1
  PROVE  Newer(Wrapped(a), Wrapped(b)) <=> a > b
<1> DEFINE m == 2 * Half
<1>1. m \in Nat \ {0} /\ Half \in Nat \ {0}
  BY SequenceRange
<1>2. Wrapped(Wrapped(a) - Wrapped(b)) = (a - b) % m
  BY <1>1, DifferenceOfRemainders DEF Wrapped
<1>3. CASE a >= b
  <2>1. a - b \in 0 .. m - 1 /\ a - b = m * 0 + (a - b)
    BY <1>1, <1>3
  <2>2. (a - b) % m = a - b
    BY <1>1, <2>1, Remainder
  <2> QED
    BY <1>1, <1>2, <1>3, <2>2 DEF Newer
<1>4. CASE a < b
  <2>1. a - b + m \in Half .. m - 1 /\ a - b = m * (-1) + (a - b + m) /\ a - b + m \in 0 .. m - 1
    BY <1>1, <1>4
  <2>2. (a - b) % m = a - b + m
    BY <1>1, <2>1, Remainder
  <2> QED
    BY <1>1, <1>2, <1>4, <2>1, <2>2 DEF Newer
<1> QED
  BY <1>3, <1>4

LEMMA WrappedInRange ==
  ASSUME NEW n \in Int
  PROVE  Wrapped(n) \in 0 .. 2 * Half - 1
  BY Division, SequenceRange DEF Wrapped

-----------------------------------------------------------------------------
(* The list.                                                               *)

(* The line of a listed peer is one of its entries.                        *)
LEMMA LineIsListed ==
  ASSUME NEW p, Listed(p)
  PROVE  Line(p) \in DOMAIN entries /\ entries[Line(p)].peer = p
  BY DEF Line, Listed

(* What is left when the first entry or the one of a peer has gone: every  *)
(* entry stands for one of the old ones, in the old order.                 *)
Kept(q) ==
  /\ q \in Seq(PeerEntry)
  /\ \A j \in DOMAIN q : \E i \in DOMAIN entries : q[j] = entries[i]
  /\ \A j, k \in DOMAIN q : q[j].peer = q[k].peer => j = k

LEMMA TailIsKept ==
  ASSUME ReplayTypes, OnePeer, entries # <<>>
  PROVE  /\ Kept(Tail(entries))
         /\ Head(entries) = entries[1] /\ 1 \in DOMAIN entries
         /\ \A i \in DOMAIN entries :
              i # 1 => \E j \in DOMAIN Tail(entries) : Tail(entries)[j] = entries[i]
         /\ \A j \in DOMAIN Tail(entries) : Tail(entries)[j].peer # entries[1].peer
<1>1. /\ Tail(entries) \in Seq(PeerEntry) /\ Len(Tail(entries)) = Len(entries) - 1
      /\ Len(entries) \in Nat \ {0} /\ Head(entries) = entries[1]
      /\ DOMAIN entries = 1 .. Len(entries)
      /\ DOMAIN Tail(entries) = 1 .. Len(entries) - 1
  BY DEF ReplayTypes
<1>2. \A j \in 1 .. Len(entries) - 1 : Tail(entries)[j] = entries[j + 1]
  BY <1>1 DEF ReplayTypes
<1>3. \A i \in 2 .. Len(entries) :
        i - 1 \in 1 .. Len(entries) - 1 /\ Tail(entries)[i - 1] = entries[i]
  BY <1>1, <1>2
<1>4. /\ DOMAIN entries = 1 .. Len(entries)
      /\ \A j \in 1 .. Len(entries) - 1 : j + 1 \in 1 .. Len(entries) /\ j + 1 # 1
      /\ \A j, k \in 1 .. Len(entries) - 1 : j + 1 = k + 1 => j = k
      /\ 1 \in 1 .. Len(entries)
      /\ \A i \in 1 .. Len(entries) : i # 1 => i \in 2 .. Len(entries)
  BY <1>1
<1> DEFINE t == Tail(entries)
<1> HIDE DEF t
<1>5. /\ DOMAIN t = 1 .. Len(entries) - 1 /\ t \in Seq(PeerEntry)
      /\ \A j \in 1 .. Len(entries) - 1 : t[j] = entries[j + 1]
      /\ \A i \in 2 .. Len(entries) : i - 1 \in DOMAIN t /\ t[i - 1] = entries[i]
  BY <1>1, <1>2, <1>3 DEF t
<1>6. Kept(t)
  <2>1. \A j \in DOMAIN t : \E i \in DOMAIN entries : t[j] = entries[i]
    BY <1>4, <1>5
  <2>2. ASSUME NEW j \in DOMAIN t, NEW k \in DOMAIN t, t[j].peer = t[k].peer
        PROVE  j = k
    <3>1. entries[j + 1].peer = entries[k + 1].peer
      BY <1>5, <2>2
    <3>2. j + 1 = k + 1
      BY <1>4, <1>5, <3>1 DEF OnePeer
    <3> QED
      BY <1>4, <1>5, <3>2
  <2> QED
    BY <1>5, <2>1, <2>2 DEF Kept
<1>7. \A i \in DOMAIN entries : i # 1 => \E j \in DOMAIN t : t[j] = entries[i]
  BY <1>4, <1>5
<1>8. \A j \in DOMAIN t : t[j].peer # entries[1].peer
  BY <1>4, <1>5 DEF OnePeer
<1> QED
  BY <1>1, <1>6, <1>7, <1>8 DEF t

LEMMA OthersAreKept ==
  ASSUME ReplayTypes, OnePeer, NEW p
  PROVE  /\ Kept(Others(p))
         /\ \A j \in DOMAIN Others(p) : Others(p)[j].peer # p
         /\ \A i \in DOMAIN entries :
              entries[i].peer # p => \E j \in DOMAIN Others(p) : Others(p)[j] = entries[i]
<1>1. CASE ~Listed(p)
  BY <1>1 DEF Others, Kept, Listed, OnePeer, ReplayTypes
<1>2. CASE Listed(p)
  <2> DEFINE at(j) == IF j < Line(p) THEN j ELSE j + 1
             q == [j \in 1 .. Len(entries) - 1 |-> entries[at(j)]]
  <2>1. /\ Line(p) \in 1 .. Len(entries) /\ entries[Line(p)].peer = p
        /\ Len(entries) \in Nat \ {0} /\ DOMAIN entries = 1 .. Len(entries)
    BY <1>2, LineIsListed DEF ReplayTypes
  <2>2. /\ \A j \in 1 .. Len(entries) - 1 : at(j) \in 1 .. Len(entries) /\ at(j) # Line(p)
        /\ \A j, k \in 1 .. Len(entries) - 1 : at(j) = at(k) => j = k
    BY <2>1
  <2>3. \A i \in 1 .. Len(entries) :
          i # Line(p) => \E j \in 1 .. Len(entries) - 1 : i = at(j)
    <3> SUFFICES ASSUME NEW i \in 1 .. Len(entries), i # Line(p)
                 PROVE  \E j \in 1 .. Len(entries) - 1 : i = at(j)
      OBVIOUS
    <3>1. CASE i < Line(p)
      <4>1. i \in 1 .. Len(entries) - 1 /\ i = at(i)
        BY <2>1, <3>1
      <4> QED BY <4>1
    <3>2. CASE i > Line(p)
      <4>1. i - 1 \in 1 .. Len(entries) - 1 /\ i = at(i - 1)
        BY <2>1, <3>2
      <4> QED BY <4>1
    <3> QED BY <3>1, <3>2, <2>1
  <2> HIDE DEF at
  <2>4. /\ q \in Seq(PeerEntry) /\ DOMAIN q = 1 .. Len(entries) - 1
        /\ \A j \in DOMAIN q : q[j] = entries[at(j)]
    BY <2>1, <2>2 DEF ReplayTypes
  <2>5. Others(p) = q
    BY <1>2 DEF Others, at
  <2> HIDE DEF q
  <2>6. Kept(q)
    <3>1. \A j \in DOMAIN q : \E i \in DOMAIN entries : q[j] = entries[i]
      BY <2>1, <2>2, <2>4
    <3>2. \A j, k \in DOMAIN q : q[j].peer = q[k].peer => at(j) = at(k)
      BY <2>1, <2>2, <2>4 DEF OnePeer
    <3>3. \A j, k \in DOMAIN q : q[j].peer = q[k].peer => j = k
      BY <2>2, <2>4, <3>2
    <3> QED
      BY <2>4, <3>1, <3>3 DEF Kept
  <2>7. \A j \in DOMAIN q : q[j].peer # p
    BY <2>1, <2>2, <2>4 DEF OnePeer
  <2>8. \A i \in DOMAIN entries : entries[i].peer # p => \E j \in DOMAIN q : q[j] = entries[i]
    BY <2>1, <2>3, <2>4
  <2> QED
    BY <2>5, <2>6, <2>7, <2>8
<1> QED
  BY <1>1, <1>2

(* accept(): the peer's entry is the newest one, the others are old ones.  *)
LEMMA NoteKeeps ==
  ASSUME ReplayInv, NEW p \in Controllers, NEW n \in Nat, Note(p, Wrapped(n))
  PROVE  /\ entries' \in Seq(PeerEntry)
         /\ OnePeer' /\ Listed(p)'
         /\ \A j \in DOMAIN entries' :
              \/ entries'[j] = [peer |-> p, sequence |-> Wrapped(n)]
              \/ entries'[j].peer # p /\ \E i \in DOMAIN entries : entries'[j] = entries[i]
<1> DEFINE old == IF ~Listed(p) /\ Len(entries) >= MaxPeers THEN Tail(entries) ELSE Others(p)
           e == [peer |-> p, sequence |-> Wrapped(n)]
<1>1. Kept(old) /\ \A j \in DOMAIN old : old[j].peer # p
  <2>1. CASE ~Listed(p) /\ Len(entries) >= MaxPeers
    <3>1. entries # <<>>
      BY <2>1, PeerLimit
    <3>2. Kept(old) /\ old = Tail(entries)
      BY <2>1, <3>1, TailIsKept DEF ReplayInv
    <3> QED
      BY <2>1, <3>2 DEF Kept, Listed
  <2>2. CASE ~(~Listed(p) /\ Len(entries) >= MaxPeers)
    BY <2>2, OthersAreKept DEF ReplayInv
  <2> QED
    BY <2>1, <2>2
<1>2. entries' = Append(old, e)
  BY DEF Note
<1>3. e \in PeerEntry
  BY WrappedInRange DEF PeerEntry
<1> HIDE DEF old
<1>4. /\ entries' \in Seq(PeerEntry) /\ Len(old) \in Nat /\ old \in Seq(PeerEntry)
      /\ DOMAIN entries' = 1 .. Len(old) + 1
      /\ DOMAIN old = 1 .. Len(old)
      /\ entries'[Len(old) + 1] = e
      /\ \A j \in 1 .. Len(old) : entries'[j] = old[j]
  BY <1>1, <1>2, <1>3 DEF Kept
<1>5. e.peer = p
  OBVIOUS
<1> HIDE DEF e
<1>6. OnePeer'
  BY <1>1, <1>4, <1>5 DEF OnePeer, Kept
<1>7. Listed(p)'
  BY <1>4, <1>5 DEF Listed
<1>8. \A j \in DOMAIN entries' :
        \/ entries'[j] = e
        \/ entries'[j].peer # p /\ \E i \in DOMAIN entries : entries'[j] = entries[i]
  <2> SUFFICES ASSUME NEW j \in DOMAIN entries', entries'[j] # e
               PROVE  entries'[j].peer # p /\ \E i \in DOMAIN entries : entries'[j] = entries[i]
    OBVIOUS
  <2>1. j \in DOMAIN old /\ entries'[j] = old[j]
    BY <1>4
  <2> QED
    BY <1>1, <2>1 DEF Kept
<1> QED
  BY <1>4, <1>6, <1>7, <1>8 DEF e

-----------------------------------------------------------------------------
(* The invariant.                                                          *)

LEMMA ReplayInit == UpxInit => ReplayInv
  BY DEF UpxInit, ReplayInv, ReplayTypes, OnePeer, EntryIsNewest, ListedIfRemembered,
         NewestWasSent, None, PeerEntry

LEMMA SendKeeps ==
  ASSUME ReplayInv, NEW p \in Controllers, SendSnapshot(p)
  PROVE  ReplayInv'
  BY DEF SendSnapshot, ReplayInv, ReplayTypes, OnePeer, EntryIsNewest, ListedIfRemembered,
         NewestWasSent, Listed, None

(* A snapshot that is taken is newer than the one noted.                   *)
LEMMA TakenIsNewer ==
  ASSUME ReplayInv, NEW p \in Controllers, NEW n \in 0 .. snapshots[p] - 1,
         n >= snapshots[p] - 1 - Delay, ~OldSnapshot(p, Wrapped(n))
  PROVE  n > newest[p]
<1>1. CASE newest[p] = None
  BY <1>1 DEF None, ReplayInv, ReplayTypes
<1>2. CASE newest[p] # None
  <2>1. Listed(p)
    BY <1>2 DEF ReplayInv, ListedIfRemembered
  <2>2. Newer(Wrapped(n), Wrapped(newest[p]))
    BY <2>1, LineIsListed DEF OldSnapshot, ReplayInv, EntryIsNewest
  <2>3. newest[p] \in Nat /\ snapshots[p] \in Nat /\ newest[p] < snapshots[p] /\ n \in Nat
    BY <1>2 DEF ReplayInv, ReplayTypes, NewestWasSent
  <2>4. n - newest[p] >= -Half
    BY <2>3, SequenceRange
  <2>5. CASE n - newest[p] <= Half - 1
    BY <2>2, <2>3, <2>4, <2>5, SequenceRange, NewerIsAhead
  <2>6. CASE n - newest[p] > Half - 1
    BY <2>3, <2>6, SequenceRange
  <2> QED
    BY <2>3, <2>5, <2>6, SequenceRange
<1> QED
  BY <1>1, <1>2

LEMMA ReceiveKeeps ==
  ASSUME ReplayInv, NEW p \in Controllers, NEW n \in 0 .. snapshots[p] - 1,
         ReceiveSnapshot(p, n)
  PROVE  ReplayInv'
<1>1. n \in Nat /\ snapshots[p] \in Nat
  BY DEF ReplayInv, ReplayTypes
<1> DEFINE e == [peer |-> p, sequence |-> Wrapped(n)]
<1>2. /\ entries' \in Seq(PeerEntry) /\ OnePeer' /\ Listed(p)'
      /\ \A j \in DOMAIN entries' :
           \/ entries'[j] = e
           \/ entries'[j].peer # p /\ \E i \in DOMAIN entries : entries'[j] = entries[i]
  BY <1>1, NoteKeeps DEF ReceiveSnapshot
<1>3. /\ snapshots' = snapshots
      /\ newest' = [o \in Controllers |-> IF o = p THEN n
                                           ELSE IF Listed(o)' THEN newest[o] ELSE None]
  BY DEF ReceiveSnapshot, KeepNewest, Listed
<1>4. ReplayTypes'
  BY <1>1, <1>2, <1>3 DEF ReplayInv, ReplayTypes
<1>5. EntryIsNewest'
  <2> SUFFICES ASSUME NEW j \in DOMAIN entries'
               PROVE  /\ newest'[entries'[j].peer] # None
                      /\ entries'[j].sequence = Wrapped(newest'[entries'[j].peer])
    BY DEF EntryIsNewest, Wrapped
  <2>1. CASE entries'[j] = e
    BY <1>1, <1>3, <2>1 DEF None
  <2>2. CASE entries'[j].peer # p /\ \E i \in DOMAIN entries : entries'[j] = entries[i]
    <3>1. PICK i \in DOMAIN entries : entries'[j] = entries[i]
      BY <2>2
    <3> DEFINE o == entries'[j].peer
    <3>2. o \in Controllers
      <4>1. entries'[j] \in PeerEntry
        BY <1>2
      <4> QED BY <4>1 DEF PeerEntry
    <3>3. \E k \in DOMAIN entries' : entries'[k].peer = o
      OBVIOUS
    <3>4. o = entries[i].peer /\ o # p
      BY <2>2, <3>1
    <3>5. newest'[o] = newest[o]
      <4> HIDE DEF o
      <4> QED BY <1>3, <3>2, <3>3, <3>4 DEF Listed
    <3> QED
      BY <3>1, <3>4, <3>5 DEF ReplayInv, EntryIsNewest
  <2> QED
    BY <1>2, <2>1, <2>2
<1>6. ListedIfRemembered'
  BY <1>2, <1>3 DEF ListedIfRemembered
<1>7. NewestWasSent'
  BY <1>1, <1>3 DEF ReplayInv, ReplayTypes, NewestWasSent, None
<1> QED
  BY <1>2, <1>4, <1>5, <1>6, <1>7 DEF ReplayInv

LEMMA ForgetKeeps ==
  ASSUME ReplayInv, ForgetPeer
  PROVE  ReplayInv'
<1>1. /\ entries # <<>> /\ entries' = Tail(entries) /\ snapshots' = snapshots
      /\ newest' = [newest EXCEPT ![Head(entries).peer] = None]
  BY DEF ForgetPeer
<1>2. /\ Kept(entries')
      /\ Head(entries) = entries[1] /\ 1 \in DOMAIN entries
      /\ \A i \in DOMAIN entries : i # 1 => \E j \in DOMAIN entries' : entries'[j] = entries[i]
      /\ \A j \in DOMAIN entries' : entries'[j].peer # entries[1].peer
  BY <1>1, TailIsKept DEF ReplayInv
<1>3. entries[1].peer \in Controllers
  <2>1. entries[1] \in PeerEntry
    BY <1>2 DEF ReplayInv, ReplayTypes
  <2> QED
    BY <2>1 DEF PeerEntry
<1>4. ReplayTypes'
  BY <1>1, <1>2, <1>3 DEF ReplayInv, ReplayTypes, Kept
<1>5. OnePeer'
  BY <1>2 DEF Kept, OnePeer
<1>6. EntryIsNewest'
  <2> SUFFICES ASSUME NEW j \in DOMAIN entries'
               PROVE  /\ newest'[entries'[j].peer] # None
                      /\ entries'[j].sequence = Wrapped(newest'[entries'[j].peer])
    BY DEF EntryIsNewest, Wrapped
  <2>1. PICK i \in DOMAIN entries : entries'[j] = entries[i]
    BY <1>2 DEF Kept
  <2>2. newest'[entries'[j].peer] = newest[entries[i].peer]
    <3>1. entries[i].peer # entries[1].peer
      BY <1>2, <2>1
    <3>2. entries[i].peer \in Controllers
      <4>1. entries[i] \in PeerEntry
        BY DEF ReplayInv, ReplayTypes
      <4> QED
        BY <4>1 DEF PeerEntry
    <3>3. newest' = [newest EXCEPT ![entries[1].peer] = None] /\ DOMAIN newest = Controllers
      BY <1>1, <1>2 DEF ReplayInv, ReplayTypes
    <3> QED
      BY <2>1, <3>1, <3>2, <3>3
  <2> QED
    BY <2>1, <2>2 DEF ReplayInv, EntryIsNewest
<1>7. ListedIfRemembered'
  <2> SUFFICES ASSUME NEW o \in Controllers, newest'[o] # None
               PROVE  \E j \in DOMAIN entries' : entries'[j].peer = o
    BY DEF ListedIfRemembered, Listed
  <2>1. newest[o] # None /\ o # entries[1].peer
    BY <1>1, <1>2 DEF ReplayInv, ReplayTypes
  <2>2. PICK i \in DOMAIN entries : entries[i].peer = o
    BY <2>1 DEF ReplayInv, ListedIfRemembered, Listed
  <2> QED
    BY <1>2, <2>1, <2>2
<1>8. NewestWasSent'
  BY <1>1, <1>2, <1>3 DEF ReplayInv, ReplayTypes, NewestWasSent, None
<1> QED
  BY <1>4, <1>5, <1>6, <1>7, <1>8 DEF ReplayInv

LEMMA ReplayStep == ReplayInv /\ [UpxNext]_upxVars => ReplayInv'
<1> SUFFICES ASSUME ReplayInv, [UpxNext]_upxVars PROVE ReplayInv'
  OBVIOUS
<1>1. CASE UpxNext
  BY <1>1, SendKeeps, ReceiveKeeps, ForgetKeeps DEF UpxNext
<1>2. CASE UNCHANGED upxVars
  BY <1>2 DEF upxVars, ReplayInv, ReplayTypes, OnePeer, EntryIsNewest, ListedIfRemembered,
              NewestWasSent, Listed
<1> QED
  BY <1>1, <1>2

(* The tracker of upx_replay.h keeps one entry of a peer, which holds the  *)
(* number of the newest snapshot applied of it.                            *)
THEOREM ReplayCorrect == UpxSpec => []ReplayInv
  BY ReplayInit, ReplayStep, PTL DEF UpxSpec

(* No snapshot is applied after a newer one of its controller while the    *)
(* tracker remembers it, wherever the numbers wrap around: the step to     *)
(* another snapshot is the acceptance of a newer one.                      *)
THEOREM SnapshotsOnlyAdvance == UpxSpec => SnapshotsAdvance
<1>1. ReplayInv /\ [UpxNext]_upxVars =>
        [\A p \in Controllers : newest'[p] # newest[p] /\ newest'[p] # None
           => newest'[p] > newest[p]]_upxVars
  <2> SUFFICES ASSUME ReplayInv, UpxNext, NEW p \in Controllers,
                      newest'[p] # newest[p], newest'[p] # None
               PROVE  newest'[p] > newest[p]
    BY DEF upxVars
  <2>1. ASSUME NEW o \in Controllers, NEW n \in 0 .. snapshots[o] - 1, ReceiveSnapshot(o, n)
        PROVE  newest'[p] > newest[p]
    <3>1. p = o /\ newest'[p] = n
      BY <2>1 DEF ReceiveSnapshot, KeepNewest
    <3> QED
      BY <2>1, <3>1, TakenIsNewer DEF ReceiveSnapshot
  <2>2. ASSUME ForgetPeer
        PROVE  FALSE
    BY <2>2 DEF ForgetPeer, ReplayInv, ReplayTypes
  <2> QED
    BY <2>1, <2>2 DEF UpxNext, SendSnapshot
<1> QED
  BY <1>1, ReplayCorrect, PTL DEF UpxSpec, SnapshotsAdvance

(* No controller is locked out: its latest snapshot is not taken for an    *)
(* old one while fewer than half of the range have been lost.              *)
THEOREM LatestIsAlwaysTaken == UpxSpec => []LatestIsTaken
<1>1. ReplayInv => LatestIsTaken
  <2> SUFFICES ASSUME ReplayInv, NEW p \in Controllers,
                      snapshots[p] - 1 > newest[p], snapshots[p] - 1 - newest[p] < Half,
                      Listed(p)
               PROVE  Newer(Wrapped(snapshots[p] - 1), entries[Line(p)].sequence)
    BY DEF LatestIsTaken, OldSnapshot
  <2>1. entries[Line(p)].sequence = Wrapped(newest[p])
    BY LineIsListed DEF ReplayInv, EntryIsNewest
  <2>2. newest[p] \in Int /\ snapshots[p] - 1 \in Int
    BY DEF ReplayInv, ReplayTypes, None
  <2> QED
    BY <2>1, <2>2, SequenceRange, NewerIsAhead
<1> QED
  BY <1>1, ReplayCorrect, PTL
=============================================================================
