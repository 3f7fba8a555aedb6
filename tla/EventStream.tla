---------------------------- MODULE EventStream ----------------------------
(***************************************************************************)
(* How events of the camera reach the event sockets.  Operations and       *)
(* responder actions push events to the engine.  A command task drains     *)
(* them under the engine lock, together with its operation, writes its     *)
(* reply and its observations without the lock, and only then broadcasts   *)
(* what it drained, one event at a time.  The broadcast channel keeps a    *)
(* bounded backlog; a client that falls behind it is dropped.              *)
(*                                                                         *)
(* An event is its number in the order of its push.                        *)
(***************************************************************************)
EXTENDS Naturals, Sequences, FiniteSets

CONSTANTS
  Conns,      \* command tasks
  Subscribers,    \* event socket tasks
  Capacity,   \* the backlog of the broadcast channel
  MaxPush,    \* events that one operation or action pushes at most
  MaxPushed   \* bound: events pushed in all

ASSUME StreamAssumption ==
  /\ Capacity \in Nat \ {0} /\ MaxPush \in Nat /\ MaxPushed \in Nat

VARIABLES
  pushed,     \* how many events were pushed
  queued,    \* CameraState.events
  stage,      \* of each command task: idle, writing its reply, sending its events
  drained,    \* the events each command task holds
  reader,      \* of each client: off or on
  backlog,    \* what the broadcast channel holds for it
  lagged,     \* whether the channel had to overwrite something it did not read
  seen,       \* history: what was written to its socket
  since,      \* history: the events pushed before it subscribed
  lost        \* history: the events that died with a command task

streamVars == <<pushed, queued, stage, drained, reader, backlog, lagged, seen, since, lost>>

engineVars == <<pushed, queued>>
connVars   == <<stage, drained, lost>>
clientVars == <<reader, backlog, lagged, seen, since>>

Range(s) == {s[i] : i \in 1..Len(s)}

StreamInit ==
  /\ pushed = 0
  /\ queued = <<>>
  /\ stage = [c \in Conns |-> "idle"]
  /\ drained = [c \in Conns |-> <<>>]
  /\ reader = [k \in Subscribers |-> "off"]
  /\ backlog = [k \in Subscribers |-> <<>>]
  /\ lagged = [k \in Subscribers |-> FALSE]
  /\ seen = [k \in Subscribers |-> <<>>]
  /\ since = [k \in Subscribers |-> {}]
  /\ lost = {}

\* The engine's queue after n pushes.
Pushes(n) == queued \o [i \in 1..n |-> pushed + i]

-----------------------------------------------------------------------------
\* One operation under the engine lock: its emissions, and the drain.
Operate(c, n) ==
  /\ stage[c] = "idle"
  /\ pushed + n <= MaxPushed
  /\ pushed' = pushed + n
  /\ queued' = <<>>
  /\ drained' = [drained EXCEPT ![c] = Pushes(n)]
  /\ stage' = [stage EXCEPT ![c] = "writing"]
  /\ UNCHANGED <<clientVars, lost>>

\* invoke_action: a responder action pushes, and drains nothing.
InvokeAction(n) ==
  /\ pushed + n <= MaxPushed
  /\ pushed' = pushed + n
  /\ queued' = Pushes(n)
  /\ UNCHANGED <<connVars, clientVars>>

\* Variant that gives up its events with a reply it cannot write.
WrittenOrLost(c) ==
  /\ stage[c] = "writing"
  /\ \/ stage' = [stage EXCEPT ![c] = "sending"] /\ drained' = drained
     \/ stage' = [stage EXCEPT ![c] = "idle"] /\ drained' = [drained EXCEPT ![c] = <<>>]
  /\ UNCHANGED <<engineVars, clientVars, lost>>

\* The reply is written, or its write failed: the events go out either way.
Written(c) ==
  /\ stage[c] = "writing"
  /\ stage' = [stage EXCEPT ![c] = "sending"]
  /\ UNCHANGED <<engineVars, drained, clientVars, lost>>

\* An auxiliary listener or an observation record failed: the task ends, and what it
\* drained is gone.
AbortTask(c) ==
  /\ stage[c] = "writing"
  /\ stage' = [stage EXCEPT ![c] = "idle"]
  /\ drained' = [drained EXCEPT ![c] = <<>>]
  /\ lost' = lost \cup Range(drained[c])
  /\ UNCHANGED <<engineVars, clientVars>>

\* What the channel holds for client k after event x.
Ring(k, x) ==
  LET all == Append(backlog[k], x)
  IN  IF Len(all) <= Capacity THEN all ELSE Tail(all)

\* event_tx.send: every subscribed client gets the event, a slow one in the place of
\* its oldest.
Send(c) ==
  /\ stage[c] = "sending" /\ drained[c] # <<>>
  /\ drained' = [drained EXCEPT ![c] = Tail(@)]
  /\ backlog' = [k \in Subscribers |-> IF reader[k] = "on" THEN Ring(k, Head(drained[c])) ELSE <<>>]
  /\ lagged' = [k \in Subscribers |-> lagged[k] \/ (reader[k] = "on" /\ Len(backlog[k]) = Capacity)]
  /\ UNCHANGED <<engineVars, stage, reader, seen, since, lost>>

\* The next operation, or the end of the task.
Sent(c) ==
  /\ stage[c] = "sending" /\ drained[c] = <<>>
  /\ stage' = [stage EXCEPT ![c] = "idle"]
  /\ UNCHANGED <<engineVars, drained, clientVars, lost>>

-----------------------------------------------------------------------------
\* An accepted event connection subscribes.
Subscribe(k) ==
  /\ reader[k] = "off"
  /\ reader' = [reader EXCEPT ![k] = "on"]
  /\ seen' = [seen EXCEPT ![k] = <<>>]
  /\ since' = [since EXCEPT ![k] = 1..pushed]
  /\ UNCHANGED <<engineVars, connVars, backlog, lagged>>

\* Variant that goes on with what is left after a lag.
ReceiveAnyway(k) ==
  /\ reader[k] = "on" /\ backlog[k] # <<>>
  /\ seen' = [seen EXCEPT ![k] = Append(@, Head(backlog[k]))]
  /\ backlog' = [backlog EXCEPT ![k] = Tail(@)]
  /\ lagged' = [lagged EXCEPT ![k] = FALSE]
  /\ UNCHANGED <<engineVars, connVars, reader, since>>

\* The next event is received and written to the socket.
Receive(k) ==
  /\ reader[k] = "on" /\ ~ lagged[k] /\ backlog[k] # <<>>
  /\ seen' = [seen EXCEPT ![k] = Append(@, Head(backlog[k]))]
  /\ backlog' = [backlog EXCEPT ![k] = Tail(@)]
  /\ UNCHANGED <<engineVars, connVars, reader, lagged, since>>

\* The task ends: it lagged, a write failed or its client is gone.
Drop(k) ==
  /\ reader[k] = "on"
  /\ reader' = [reader EXCEPT ![k] = "off"]
  /\ backlog' = [backlog EXCEPT ![k] = <<>>]
  /\ lagged' = [lagged EXCEPT ![k] = FALSE]
  /\ seen' = [seen EXCEPT ![k] = <<>>]
  /\ since' = [since EXCEPT ![k] = {}]
  /\ UNCHANGED <<engineVars, connVars>>

StreamNext ==
  \/ \E c \in Conns : \/ \E n \in 0..MaxPush : Operate(c, n)
                      \/ Written(c) \/ AbortTask(c) \/ Send(c) \/ Sent(c)
  \/ \E n \in 1..MaxPush : InvokeAction(n)
  \/ \E k \in Subscribers : Subscribe(k) \/ Receive(k) \/ Drop(k)

\* A task in the middle of an operation goes on, and so does a client with a backlog;
\* a lagged one is dropped.  Nobody has to send another operation.
StreamFairness ==
  /\ \A c \in Conns : WF_streamVars(Written(c)) /\ WF_streamVars(Send(c)) /\ WF_streamVars(Sent(c))
  /\ \A k \in Subscribers : WF_streamVars(Receive(k)) /\ WF_streamVars(lagged[k] /\ Drop(k))

StreamSpec == StreamInit /\ [][StreamNext]_streamVars

StreamFairSpec == StreamSpec /\ StreamFairness

-----------------------------------------------------------------------------
\* The queues have their types, and the channel keeps to its capacity.
StreamTypeOK ==
  /\ pushed \in 0..MaxPushed
  /\ queued \in Seq(1..pushed)
  /\ stage \in [Conns -> {"idle", "writing", "sending"}]
  /\ \A c \in Conns : drained[c] \in Seq(1..pushed) /\ (stage[c] = "idle" => drained[c] = <<>>)
  /\ reader \in [Subscribers -> {"off", "on"}]
  /\ \A k \in Subscribers : backlog[k] \in Seq(1..pushed) /\ Len(backlog[k]) <= Capacity
  /\ \A k \in Subscribers : seen[k] \in Seq(1..pushed)
  /\ lost \subseteq 1..pushed

\* Every event that was pushed after a client subscribed has reached it, is on its way,
\* or died with a command task, as long as the client keeps up: nothing is missed, and
\* a client that missed something is on no longer when it would see the next event.
NothingMissed ==
  \A k \in Subscribers :
    reader[k] = "on" /\ ~ lagged[k] =>
      1..pushed \subseteq UNION {since[k], Range(seen[k]), Range(backlog[k]), Range(queued), lost,
                                 UNION {Range(drained[c]) : c \in Conns}}

\* No event is seen twice, whichever of the command tasks drained it.
NoDuplicates ==
  \A k \in Subscribers :
    LET all == seen[k] \o backlog[k]
    IN  \A i, j \in 1..Len(all) : all[i] = all[j] => i = j

\* An event that an operation drained arrives at every client that is connected at that
\* time and stays so, also when the reply of the operation cannot be written; only the
\* end of the command task in between can prevent it.
EventArrives ==
  \A c \in Conns, k \in Subscribers, x \in 1..MaxPushed :
    (x \in Range(drained[c]) /\ stage[c] = "writing" /\ reader[k] = "on")
      ~> (x \in Range(seen[k]) \/ reader[k] = "off" \/ x \in lost)

\* A client never gets events out of the order of their push: it is dropped before that
\* happens.
SeenInOrder ==
  \A k \in Subscribers : \A i, j \in 1..Len(seen[k]) : i < j => seen[k][i] < seen[k][j]

\* Nothing is missed and nothing is seen twice.
ArrivesOnce == NothingMissed /\ NoDuplicates

\* A connected client that keeps up misses no event pushed after it subscribed, and sees
\* none twice, although several tasks drain the queue and broadcast without the lock.
ExactlyOnce == StreamTypeOK /\ ArrivesOnce
===============================================================================
