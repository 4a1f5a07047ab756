------------------------------ MODULE UpxReplay ------------------------------
(***************************************************************************)
(* upx_replay::Tracker of upx_replay.h: the last UPX1 sequence number of   *)
(* each peer, against snapshots that are lost, repeated or overtaken on    *)
(* their way from MouseProxy.move() of client.py.                          *)
(*                                                                         *)
(* As in SessionTracker, time is not modelled: prune() drops the entries   *)
(* that are too old, which are the first of the list.                      *)
(***************************************************************************)
EXTENDS Integers, Sequences

CONSTANTS
  Controllers,   \* the peers: socket addresses of clients
  MaxPeers,      \* MAX_PEERS
  Half,          \* half of the 32-bit range of sequence numbers
  Delay,         \* a snapshot is not later than that many others
  SnapshotLimit  \* bound: snapshots of a controller

ASSUME SequenceRange == Half \in Nat \ {0} /\ Delay \in 0 .. Half
ASSUME PeerLimit == MaxPeers \in Nat \ {0}

VARIABLES
  entries,   \* entries_
  snapshots, \* the number of snapshots each controller has sent
  newest     \* history: the last one accepted of those not forgotten

upxVars == <<entries, snapshots, newest>>

None == -1
Wrapped(n) == n % (2 * Half)

(* Mutant: the comparison knows no wrap-around.                            *)
NewerPlain(a, b) == a > b

(* sequence_newer()                                                        *)
Newer(a, b) == LET d == Wrapped(a - b) IN d # 0 /\ d < Half

Listed(p) == \E j \in DOMAIN entries : entries[j].peer = p
Line(p) == CHOOSE j \in DOMAIN entries : entries[j].peer = p
Others(p) ==
  IF ~Listed(p) THEN entries
  ELSE [j \in 1 .. Len(entries) - 1 |-> entries[IF j < Line(p) THEN j ELSE j + 1]]

(* stale()                                                                 *)
OldSnapshot(p, sequence) == Listed(p) /\ ~Newer(sequence, entries[Line(p)].sequence)

(* accept()                                                                *)
Note(p, sequence) ==
  entries' = Append(IF ~Listed(p) /\ Len(entries) >= MaxPeers THEN Tail(entries) ELSE Others(p),
                    [peer |-> p, sequence |-> sequence])

KeepNewest(p, n) ==
  newest' = [o \in Controllers |->
               IF o = p THEN n
               ELSE IF \E j \in DOMAIN entries' : entries'[j].peer = o THEN newest[o] ELSE None]

(* move(): a snapshot with the next number.                                *)
SendSnapshot(p) ==
  /\ snapshots[p] < SnapshotLimit
  /\ snapshots' = [snapshots EXCEPT ![p] = @ + 1]
  /\ UNCHANGED <<entries, newest>>

(* A UPX1 packet, the n-th snapshot of its controller, is applied and      *)
(* noted; one that is dropped or refused changes nothing.                  *)
ReceiveSnapshot(p, n) ==
  /\ n >= snapshots[p] - 1 - Delay
  /\ ~OldSnapshot(p, Wrapped(n))
  /\ Note(p, Wrapped(n))
  /\ KeepNewest(p, n)
  /\ UNCHANGED snapshots

(* prune()                                                                 *)
ForgetPeer ==
  /\ entries # <<>>
  /\ entries' = Tail(entries)
  /\ newest' = [newest EXCEPT ![Head(entries).peer] = None]
  /\ UNCHANGED snapshots

UpxInit ==
  /\ entries = <<>>
  /\ snapshots = [p \in Controllers |-> 0] /\ newest = [p \in Controllers |-> None]

UpxNext ==
  \/ \E p \in Controllers :
       SendSnapshot(p) \/ \E n \in 0 .. snapshots[p] - 1 : ReceiveSnapshot(p, n)
  \/ ForgetPeer

UpxSpec == UpxInit /\ [][UpxNext]_upxVars

-----------------------------------------------------------------------------
(* Properties.                                                             *)

(* Snapshots carry the buttons that are held: one that was overtaken by a  *)
(* newer one is never applied after it, across the wrap-around of the      *)
(* numbers, unless its controller has been forgotten in between.           *)
SnapshotsAdvance ==
  [][\A p \in Controllers : newest'[p] # newest[p] /\ newest'[p] # None
       => newest'[p] > newest[p]]_upxVars

(* A controller is not locked out: its latest snapshot is taken, if fewer  *)
(* than half of the range have been lost since the last one taken.         *)
LatestIsTaken ==
  \A p \in Controllers :
    LET last == snapshots[p] - 1
    IN last > newest[p] /\ last - newest[p] < Half => ~OldSnapshot(p, Wrapped(last))
=============================================================================
