--------------------------- MODULE ReliableCommands ---------------------------
(***************************************************************************)
(* Requests that are sent again until they are answered: MouseProxy of     *)
(* client.py (_reliable_request(), move_action_return()), and the cache    *)
(* and session tracker of the server loop that answer them, over UDP.      *)
(*                                                                         *)
(* A packet that has been sent may arrive at any later time, any number of *)
(* times or never: that stands for its retransmissions as well as for what *)
(* the network does.  An answer is lost or arrives at once: one that is    *)
(* late is not different, because its client only waits for it meanwhile   *)
(* and the server does not see when it comes; and once its request is not  *)
(* open any more it has no effect (it is kept in _acks for ever).          *)
(* What the accepted work does is UdpServer and MoveServer; here it ends.  *)
(***************************************************************************)
EXTENDS SessionTracker, Integers, FiniteSets

CONSTANTS
  RecordLimit,  \* MAX_CACHE_RECORDS
  EventLimit    \* bound: requests of all clients and restarts of the server

VARIABLES
  client,  \* of each MouseProxy: its request, and what it made of the last
  packets, \* requests that may arrive
  cache,   \* the command cache
  owner,   \* the client that has the lease
  epoch,   \* server_epoch
  started,  \* history: the requests that have been accepted
  repeated, \* history: the transactions accepted more than once
  done,     \* history: the requests whose work has been done
  dropped   \* history: the sessions a running server has forgotten

clientVars == <<client, packets>>
cacheVars == <<cache, owner, epoch>>
historyVars == <<started, repeated, done, dropped>>
commandVars == <<clientVars, cacheVars, trackerVars, historyVars>>

Nobody == "nobody"
Operations == {"Schedule", "ReleaseAll", "Execute"}
Works == {"Schedule", "Execute"}

(* Cancelled stands for every way in which accepted work can fail to be    *)
(* completed.                                                              *)
Lasts == {"completed", "cancelled"}

Request(c, command, op, at) == [client |-> c, command |-> command, op |-> op, epoch |-> at]
Key(r) == <<r.client, r.command>>

-----------------------------------------------------------------------------
(* The clients.                                                            *)

Open(c) == client[c].asking
Current(c) == Request(c, client[c].command, client[c].op, client[c].epoch)

MoreEvents == Cardinality(packets) + epoch <= EventLimit

(* _next_command() and the first send.  A movement transaction asks for    *)
(* the epoch before, which capabilities() takes from an answer to itself.  *)
Send(c, op) ==
  /\ client[c].command + 1 \in Commands /\ MoreEvents
  /\ LET at == IF op = "Execute" THEN epoch ELSE 0
     IN /\ client' = [client EXCEPT ![c].command = @ + 1, ![c].op = op, ![c].epoch = at,
                                    ![c].asking = TRUE, ![c].accepted = FALSE,
                                    ![c].result = "none"]
        /\ packets' = packets \cup {Request(c, client[c].command + 1, op, at)}

Ask(c, op) ==
  /\ ~Open(c)
  /\ Send(c, op)
  /\ UNCHANGED <<cacheVars, trackerVars, historyVars>>

Returned(c, result) == [client[c] EXCEPT !.asking = FALSE, !.result = result]

(* What becomes of a client that hears an answer to a click command or a   *)
(* release: accepted and duplicate end it if that is all that is asked for.*)
Told(c) == [client[c] EXCEPT !.accepted = TRUE]
Hear(c, status) ==
  IF status = "accepted" THEN {Told(c), [Told(c) EXCEPT !.asking = FALSE]}
  ELSE {Returned(c, status)}

(* And to a transaction: an answer from another epoch is an exception.     *)
HearMove(c, status) ==
  IF client[c].epoch # epoch THEN {Returned(c, "none")}
  ELSE {Returned(c, last) : last \in {status} \ {"accepted"}}

(* The deadline: an exception, and for a transaction ReleaseAll before it. *)
GiveUp(c) ==
  /\ Open(c)
  /\ IF client[c].op = "Execute" THEN Send(c, "ReleaseAll")
     ELSE client' = [client EXCEPT ![c] = Returned(c, "none")] /\ UNCHANGED packets
  /\ UNCHANGED <<cacheVars, trackerVars, historyVars>>

-----------------------------------------------------------------------------
(* The command cache.                                                      *)

Record(r) == [request |-> r, status |-> "accepted"]
Terminal(record) == record.status # "accepted"

(* Mutant: the session is not compared.                                    *)
SameCommand(r, o) == r.command = o.command

SameRequest(r, o) == Key(r) = Key(o)
Cached(r) == \E j \in DOMAIN cache : SameRequest(cache[j].request, r)
CachedAt(r) == CHOOSE j \in DOMAIN cache : SameRequest(cache[j].request, r)
Underway(ops) == {j \in DOMAIN cache : ~Terminal(cache[j]) /\ cache[j].request.op \in ops}

(* session_protected()                                                     *)
Protected == {cache[j].request.client : j \in Underway(Operations)}

(* remove_old_cache()                                                      *)
Ended == {j \in DOMAIN cache : Terminal(cache[j])}
Oldest == {j \in Ended : \A i \in Ended : j <= i}
Trimmed(records) ==
  IF Len(cache) < RecordLimit \/ Ended = {} THEN {records}
  ELSE {Without(records, j) : j \in Oldest}
Room == Len(cache) < RecordLimit \/ Ended # {}

(* send_ack() and send_cached() to the clients of some requests, where     *)
(* they may be heard.  The statuses are those that tell a client different *)
(* things: "accepted" is also duplicate, and "none" every other one that   *)
(* is for good.  Busy and queue_full are that too, but for a transaction   *)
(* they are no answer: it is sent again.                                   *)
Outcomes(c, told) ==
  LET statuses == {t[2] : t \in {u \in told : Open(c) /\ u[1] = Current(c)}}
  IN {client[c]} \cup UNION {IF client[c].op = "Execute" THEN HearMove(c, status)
                             ELSE Hear(c, status) : status \in statuses}
Answered(told) ==
  client' \in {after \in [Sessions -> UNION {Outcomes(c, told) : c \in Sessions}] :
                \A c \in Sessions : after[c] \in Outcomes(c, told)}

(* Records that end, with their status.                                    *)
End(records, places, status) ==
  [j \in DOMAIN records |-> IF j \in places THEN [records[j] EXCEPT !.status = status]
                            ELSE records[j]]
Endings(records, places, status) == {<<records[j].request, status>> : j \in places}

-----------------------------------------------------------------------------
(* A packet arrives.                                                       *)

KeepServer == UNCHANGED <<cacheVars, trackerVars, historyVars>>
Refuse(r, status) == Answered({<<r, status>>}) /\ KeepServer /\ UNCHANGED <<packets>>
TryAgain(r) == Answered(IF r.op = "Execute" THEN {} ELSE {<<r, "none">>})

Theirs(r) == owner \in {Nobody, r.client}

(* Mutant: a movement transaction is accepted whatever epoch it is for.    *)
AnyEpoch(r) == TRUE

OfEpoch(r) == r.op = "Execute" => r.epoch = epoch

AnswerBusy(r) == ~Theirs(r) /\ TryAgain(r) /\ KeepServer /\ UNCHANGED <<packets>>
AnswerEpoch(r) == Theirs(r) /\ ~OfEpoch(r) /\ Refuse(r, "none")

(* A request again.                                                        *)
AnswerAgain(r) ==
  /\ Theirs(r) /\ OfEpoch(r) /\ Cached(r)
  /\ owner' = r.client
  /\ LET record == cache[CachedAt(r)]
     IN Answered({<<r, IF Terminal(record) THEN record.status ELSE "accepted">>})
  /\ UNCHANGED <<packets, cache, epoch, trackerVars, historyVars>>

New(r) == Theirs(r) /\ OfEpoch(r) /\ ~Cached(r)
AnswerStale(r) == New(r) /\ Stale(r.client, r.command) /\ Refuse(r, "stale_command")

(* The endpoint or its buttons do not allow it, or other work is under way.*)
AnswerRefused(r) ==
  /\ New(r) /\ ~Stale(r.client, r.command) /\ r.op \in Works
  /\ Refuse(r, "none")

(* No room in the cache, although an old record may have gone, or for the  *)
(* session.                                                                *)
AnswerFull(r) ==
  /\ New(r) /\ ~Stale(r.client, r.command)
  /\ ~Room \/ ~Admits(r.client, r.op = "ReleaseAll", Protected)
  /\ cache' \in Trimmed(cache)
  /\ TryAgain(r)
  /\ UNCHANGED <<packets, owner, epoch, trackerVars, historyVars>>

Exclusive(r) == r.op = "Schedule" /\ Underway({"Execute"}) # {}
Busy(r) == r.op = "Execute" /\ Underway(Operations) # {}

Drop == dropped' = dropped \cup {s \in Sessions : Known(s) /\ ~Known(s)'}
Started(r) ==
  /\ started' = started \cup {Key(r)}
  /\ repeated' = repeated \cup {key \in started : key = Key(r) /\ r.op = "Execute"}
  /\ Drop

(* A click command or transaction is accepted.                             *)
AcceptWork(r) ==
  /\ New(r) /\ r.op \in Works /\ Room /\ ~Exclusive(r) /\ ~Busy(r)
  /\ Take(r.client, r.command, FALSE, Protected)
  /\ \E kept \in Trimmed(cache) : cache' = Append(kept, Record(r))
  /\ owner' = r.client
  /\ Answered({<<r, "accepted">>})
  /\ Started(r)
  /\ UNCHANGED <<packets, epoch, done>>

(* Mutant: the release leaves the work of others alone.                    *)
CancelledNone(r) == {}

(* begin_reset(true): work is cancelled, and so is an older release.       *)
Cancelled(r) == Underway(Operations)

AcceptRelease(r) ==
  /\ New(r) /\ r.op = "ReleaseAll" /\ Room
  /\ Take(r.client, r.command, TRUE, Protected)
  /\ Answered({<<r, "accepted">>} \cup Endings(cache, Cancelled(r), "cancelled"))
  /\ \E kept \in Trimmed(End(cache, Cancelled(r), "cancelled")) :
       cache' = Append(kept, Record(r))
  /\ owner' = r.client
  /\ Started(r)
  /\ UNCHANGED <<packets, epoch, done>>

-----------------------------------------------------------------------------
(* The server's own steps.                                                 *)

(* Work under way comes to its end.                                        *)
Ends(j, status) ==
  /\ ~Terminal(cache[j])
  /\ status = "cancelled" => cache[j].request.op \in Works
  /\ cache' = End(cache, {j}, status)
  /\ Answered(Endings(cache, {j}, status))
  /\ done' = IF status = "completed" THEN done \cup {Key(cache[j].request)} ELSE done
  /\ UNCHANGED <<packets, owner, epoch, trackerVars, started, repeated, dropped>>

(* begin_reset(false): a silent owner, a failed write or another endpoint, *)
(* which give up the lease, or else +release or a transaction's timeout.   *)
ServerResets ==
  /\ owner' \in {owner, Nobody}
  /\ cache' = End(cache, Underway(Works), "cancelled")
  /\ Answered(Endings(cache, Underway(Works), "cancelled"))
  /\ UNCHANGED <<packets, epoch, trackerVars, historyVars>>

(* A packet without a command number takes the lease.                      *)
TakesLease(c) ==
  /\ owner = Nobody
  /\ owner' = c
  /\ UNCHANGED <<clientVars, cache, epoch, trackerVars, historyVars>>

(* prune() of the tracker, which only matters to the packets after it.     *)
TombstoneExpires ==
  /\ Expire /\ Drop
  /\ UNCHANGED <<clientVars, cacheVars, started, repeated, done>>

(* Nothing of the server's state is kept.                                  *)
Restart ==
  /\ MoreEvents
  /\ epoch' = epoch + 1
  /\ cache' = <<>> /\ owner' = Nobody
  /\ active' = <<>> /\ retired' = <<>> /\ remembered' = {}
  /\ UNCHANGED <<clientVars, historyVars>>

-----------------------------------------------------------------------------
Arrive(r) ==
  \/ AnswerBusy(r) \/ AnswerEpoch(r) \/ AnswerAgain(r) \/ AnswerStale(r)
  \/ AnswerRefused(r) \/ AnswerFull(r) \/ AcceptWork(r) \/ AcceptRelease(r)

CommandInit ==
  /\ TrackerInit
  /\ client = [c \in Sessions |-> [command |-> 0, op |-> "none", epoch |-> 0, asking |-> FALSE,
                                   accepted |-> FALSE, result |-> "none"]]
  /\ packets = {}
  /\ cache = <<>> /\ owner = Nobody /\ epoch = 1
  /\ started = {} /\ repeated = {} /\ done = {} /\ dropped = {}

CommandNext ==
  \/ \E c \in Sessions : GiveUp(c) \/ TakesLease(c) \/ \E op \in Operations : Ask(c, op)
  \/ \E r \in packets : Arrive(r)
  \/ \E j \in DOMAIN cache, status \in Lasts : Ends(j, status)
  \/ ServerResets \/ TombstoneExpires \/ Restart

CommandSpec == CommandInit /\ [][CommandNext]_commandVars

-----------------------------------------------------------------------------
(* Properties.                                                             *)

MyKey(c) == <<c, client[c].command>>
IsUnderway(key) == \E j \in Underway(Works) : Key(cache[j].request) = key

(* The outcome a client is told of its request is the outcome: completed   *)
(* work has been done, and no late packet starts ended work again, unless  *)
(* the server has forgotten the session (USAGE.md: 'within retained        *)
(* cache/high-water state, a retry cannot schedule twice') or, for work    *)
(* without an epoch, has been started again.                               *)
OutcomeStands ==
  \A c \in Sessions :
    client[c].result \in Lasts =>
      /\ client[c].result = "completed" => MyKey(c) \in done
      /\ IsUnderway(MyKey(c)) =>
           c \in dropped \/ (client[c].op # "Execute" /\ epoch > 1)

(* 'Retries use one immutable payload and command ID, never repeat the     *)
(* action' (client.py): a movement transaction is started once, also when  *)
(* the server is started again under a delayed packet, unless the running  *)
(* server has dropped the session's tombstone.                             *)
MoveStartsOnce ==
  \A key \in repeated : key[1] \in dropped

(* A client that is told its command is stale has had it accepted before:  *)
(* no other session's mark and no mark of an earlier life locks it out.    *)
StaleWasAccepted ==
  \A c \in Sessions : client[c].result = "stale_command" => MyKey(c) \in started

(* ReleaseAll is a fence: once its client has been told of it, work it     *)
(* asked for before is neither under way nor started by a late packet,     *)
(* also when it only gave up on a transaction.                             *)
ToldOfRelease(c) ==
  /\ client[c].op = "ReleaseAll"
  /\ client[c].accepted \/ client[c].result = "completed"
ReleaseFences ==
  \A c \in Sessions :
    ToldOfRelease(c) /\ MyKey(c) \in remembered =>
      \A n \in Commands : n < client[c].command => ~IsUnderway(<<c, n>>)
=============================================================================
