---------------------------- MODULE PcssRendezvous ----------------------------
(***************************************************************************)
(* PCSS discovery and establishment.  An executor of the initiator         *)
(* (pcss_executor.rs) sends discovery datagrams, waits for cameras to call  *)
(* back over TCP, validates and acknowledges one callback, connects to the  *)
(* endpoint it names and runs the Init handshake; an unavailable endpoint   *)
(* found by broadcast may be recovered once by unicast.  Each camera runs   *)
(* the knock loop of the simulator (run_knock_loop): a bounded number of    *)
(* callback tasks, each under one deadline.                                 *)
(*                                                                          *)
(* Datagrams may be lost and every callback may be late.  The listener of   *)
(* the host is a queue of connections, taken in the order they arrived.     *)
(* A camera is its address; what its NOTIFY says is a constant.             *)
(***************************************************************************)
EXTENDS Integers, Sequences, FiniteSets, TLAPS

CONSTANTS Cameras,        \* the addresses of the cameras on the subnet
          Advertises,     \* the DSC address a camera's NOTIFY carries, or Garbled
          ModelOf,        \* the model recognize_pcss finds for a camera, or NoModel
          Garbled, NoModel,
          Broadcasts,     \* discovery.max_attempts of the family policy
          Knocks,         \* max_attempts of the connection's knock
          InitRetries,    \* initRetries.max
          RetryUnicast,   \* retryDiscoveredUnicast
          Callbacks,      \* CALLBACK_CONNECTIONS of one camera (8 in the code)
          MaxConns        \* bound: callback connections opened in all

ASSUME RendezvousAssumption ==
  /\ Advertises \in [Cameras -> Cameras \cup {Garbled}]
  /\ Broadcasts \in Nat /\ Knocks \in Nat /\ InitRetries \in Nat
  /\ RetryUnicast \in BOOLEAN
  /\ Callbacks \in Nat \ {0} /\ MaxConns \in Nat

VARIABLES x,         \* the executor: step, path, attempt, camera, callback, Init attempt, recovered
          command,   \* its command connection: none, open or closed
          datagrams, \* discovery datagrams under way: <<camera, round>>
          conns,     \* callback tasks of the cameras, with both ends of the connection
          queue,     \* the host's listener: indices of conns not yet accepted
          answered   \* history: an Init reply arrived on the discovered endpoint

vars == <<x, command, datagrams, conns, queue, answered>>

Rounds == {"broadcast", "unicast"}
Steps == {"bind", "send", "await", "ack", "connect", "init", "reply", "done", "failed"}
NoCamera == Garbled
Models == {ModelOf[c] : c \in Cameras} \ {NoModel}

Conns == [camera : Cameras, round : Rounds,
          task : {"connecting", "notified", "acknowledged", "ended"},
          host : {"none", "queued", "accepted", "acknowledged", "closed"}]

Progress == [step : Steps, path : {"auto", "known"}, round : Rounds, attempt : Nat,
             camera : Cameras \cup {NoCamera}, model : Models \cup {NoModel}, conn : Nat,
             init : 0 .. InitRetries, recovered : BOOLEAN]

TypeOK ==
  /\ x \in Progress
  /\ command \in {"none", "open", "closed"}
  /\ datagrams \subseteq Cameras \X Rounds
  /\ conns \in Seq(Conns) /\ Len(conns) <= MaxConns
  /\ queue \in Seq(DOMAIN conns)
  /\ answered \in BOOLEAN

\* Auto-discovery starts with broadcasts; a known address is a unicast target.
Init ==
  /\ \/ x = [step |-> "bind", path |-> "auto", round |-> "broadcast", attempt |-> 1,
             camera |-> NoCamera, model |-> NoModel, conn |-> 0, init |-> 0, recovered |-> FALSE]
     \/ \E c \in Cameras, model \in Models :
          x = [step |-> "bind", path |-> "known", round |-> "unicast", attempt |-> 1,
               camera |-> c, model |-> model, conn |-> 0, init |-> 0, recovered |-> FALSE]
  /\ command = "none"
  /\ datagrams = {}
  /\ conns = <<>>
  /\ queue = <<>>
  /\ answered = FALSE

--------------------------------------------------------------------------------
(* The cameras: run_knock_loop. *)

Live(c) == {i \in DOMAIN conns : conns[i].camera = c /\ conns[i].task \in {"connecting", "notified"}}

\* A datagram is accepted; without a free permit it is dropped all the same.
Knock(c, round) ==
  /\ <<c, round>> \in datagrams
  /\ datagrams' = datagrams \ {<<c, round>>}
  /\ IF Cardinality(Live(c)) < Callbacks
       THEN /\ Len(conns) < MaxConns
            /\ conns' = Append(conns, [camera |-> c, round |-> round,
                                       task |-> "connecting", host |-> "none"])
       ELSE UNCHANGED conns
  /\ UNCHANGED <<x, command, queue, answered>>

\* The datagram is lost, or the camera rejects its payload or its HOST field.
LoseDatagram ==
  /\ \E d \in datagrams : datagrams' = datagrams \ {d}
  /\ UNCHANGED <<x, command, conns, queue, answered>>

\* The task connects to the host's listener and writes its NOTIFY.
CallBack(i) ==
  /\ conns[i].task = "connecting"
  /\ conns' = [conns EXCEPT ![i].task = "notified", ![i].host = "queued"]
  /\ queue' = Append(queue, i)
  /\ UNCHANGED <<x, command, datagrams, answered>>

\* The exact acknowledgement arrives.
AckReceived(i) ==
  /\ conns[i].task = "notified"
  /\ conns[i].host = "acknowledged"
  /\ conns' = [conns EXCEPT ![i].task = "acknowledged"]
  /\ UNCHANGED <<x, command, datagrams, queue, answered>>

\* Variant whose deadline does not cover connecting.
TaskEndsNotified(i) ==
  /\ conns[i].task = "notified"
  /\ conns' = [conns EXCEPT ![i].task = "ended"]
  /\ UNCHANGED <<x, command, datagrams, queue, answered>>

\* Connecting or writing fails, the host closes without an acknowledgement, or
\* the one deadline of the task passes.
TaskEnds(i) ==
  /\ conns[i].task \in {"connecting", "notified"}
  /\ conns' = [conns EXCEPT ![i].task = "ended"]
  /\ UNCHANGED <<x, command, datagrams, queue, answered>>

--------------------------------------------------------------------------------
(* The executor: discovery. *)

Goto(step) == x' = [x EXCEPT !.step = step]

Attempts == IF x.round = "broadcast" THEN Broadcasts ELSE Knocks

\* The next iteration of a discovery loop, or DiscoveryTimedOut.
NextAttempt ==
  x' = IF x.attempt < Attempts THEN [x EXCEPT !.step = "send", !.attempt = @ + 1]
                               ELSE [x EXCEPT !.step = "failed"]

\* bind_callback_listener, and the entry of the loop.
Bind ==
  /\ x.step = "bind"
  /\ \/ Goto(IF Attempts > 0 THEN "send" ELSE "failed")
     \/ Goto("failed")
  /\ UNCHANGED <<command, datagrams, conns, queue, answered>>

SendDiscovery ==
  /\ x.step = "send"
  /\ \/ /\ datagrams' = datagrams \cup
             (IF x.round = "broadcast" THEN Cameras ELSE {x.camera}) \X {x.round}
        /\ Goto("await")
     \/ /\ Goto("failed")
        /\ UNCHANGED datagrams
  /\ UNCHANGED <<command, conns, queue, answered>>

BroadcastTrustsNotify(c) ==
  IF Advertises[c] = Garbled \/ ModelOf[c] = NoModel THEN "retry" ELSE "accept"

\* What auto-discovery makes of the callback of a camera.
BroadcastVerdict(c) ==
  IF Advertises[c] # c \/ ModelOf[c] = NoModel THEN "retry" ELSE "accept"

UnicastAnyPeer(c) ==
  IF Advertises[c] = Garbled THEN "retry" ELSE IF ModelOf[c] # x.model THEN "refuse" ELSE "accept"

\* What a search for one address makes of it: a callback that is not from the
\* camera and model sought ends the search.
UnicastVerdict(c) ==
  CASE Advertises[c] = Garbled -> "retry"
    [] Advertises[c] # Garbled /\ (c # x.camera \/ Advertises[c] # x.camera) -> "refuse"
    [] Advertises[c] # Garbled /\ ModelOf[c] # x.model -> "refuse"
    [] OTHER -> "accept"

\* next_callback returns the oldest connection in time.  A connection that is
\* not used is closed.
Callback ==
  /\ x.step = "await"
  /\ queue # <<>>
  /\ queue' = Tail(queue)
  /\ LET i == Head(queue)
         c == conns[i].camera
         verdict == IF x.round = "broadcast" THEN BroadcastVerdict(c) ELSE UnicastVerdict(c)
     IN \/ /\ conns' = [conns EXCEPT ![i].host = IF verdict = "accept" THEN "accepted" ELSE "closed"]
           /\ CASE verdict = "retry"  -> NextAttempt
                [] verdict = "refuse" -> Goto("failed")
                [] verdict = "accept" -> x' = [x EXCEPT !.step = "ack", !.camera = Advertises[c],
                                                       !.model = ModelOf[c], !.conn = i]
        \/ /\ Advertises[c] # Garbled      \* the host reports an unreadable peer address
           /\ conns' = [conns EXCEPT ![i].host = "closed"]
           /\ Goto("failed")
  /\ UNCHANGED <<command, datagrams, answered>>

\* The retry interval passes, or the host reports a timeout, without a callback.
AwaitTimesOut ==
  /\ x.step = "await"
  /\ NextAttempt
  /\ UNCHANGED <<command, datagrams, conns, queue, answered>>

\* The listener or the clock of the host fails.
AwaitFails ==
  /\ x.step = "await"
  /\ Goto("failed")
  /\ UNCHANGED <<command, datagrams, conns, queue, answered>>

\* acknowledge_callback, and for auto-discovery the plan of the model found.
AcknowledgeLeaks ==
  /\ x.step = "ack"
  /\ \/ /\ conns' = [conns EXCEPT ![x.conn].host = "acknowledged"]
        /\ \E step \in {"connect", "failed"} : Goto(step)
     \/ Goto("failed") /\ UNCHANGED conns
  /\ UNCHANGED <<command, datagrams, queue, answered>>

Acknowledge ==
  /\ x.step = "ack"
  /\ \/ /\ conns' = [conns EXCEPT ![x.conn].host = "acknowledged"]
        /\ \E step \in {"connect", "failed"} : Goto(step)   \* closing fails, or there is no plan
     \/ /\ conns' = [conns EXCEPT ![x.conn].host = "closed"]  \* the reply cannot be written
        /\ Goto("failed")
  /\ UNCHANGED <<command, datagrams, queue, answered>>

--------------------------------------------------------------------------------
(* The executor: establish_endpoint. *)

\* One new round by unicast to the camera that broadcast discovery found.
Recover ==
  x' = [x EXCEPT !.step = IF Knocks > 0 THEN "send" ELSE "failed",
                 !.round = "unicast", !.attempt = 1, !.init = 0, !.recovered = TRUE]

\* finish_failed_endpoint: the command connection is closed, and only when that
\* succeeds may an unavailable endpoint be recovered.
UnavailableAlways(eligible) ==
  /\ command' = "closed"
  /\ IF eligible /\ x.path = "auto" /\ ~x.recovered /\ RetryUnicast
       THEN Recover \/ Goto("failed")
       ELSE Goto("failed")

Unavailable(eligible) ==
  /\ command' = "closed"
  /\ IF eligible /\ x.path = "auto" /\ ~x.recovered /\ x.init = 0 /\ RetryUnicast
       THEN Recover \/ Goto("failed")
       ELSE Goto("failed")

\* connect_command, send_command_frame and next_command_frame fail with an
\* error that is eligible for recovery (not connected, timeout, connect failed,
\* deadline) or with another (the clock, a local failure).
Connect ==
  /\ x.step = "connect"
  /\ \/ Goto("init") /\ command' = "open"
     \/ \E eligible \in BOOLEAN : Unavailable(eligible)
  /\ UNCHANGED <<datagrams, conns, queue, answered>>

SendInit ==
  /\ x.step = "init"
  /\ \/ Goto("reply") /\ UNCHANGED command
     \/ \E eligible \in BOOLEAN : Unavailable(eligible)
  /\ UNCHANGED <<datagrams, conns, queue, answered>>

ReplyFails ==
  /\ x.step = "reply"
  /\ \E eligible \in BOOLEAN : Unavailable(eligible)
  /\ UNCHANGED <<datagrams, conns, queue, answered>>

\* An Init reply: an acknowledgement, an InitFail the manifest selects for a
\* retry on the same connection after a pause (which may fail), or a terminal
\* InitFail or malformed frame.
ReplyRetriesAlways ==
  /\ x.step = "reply"
  /\ \/ Goto("done") /\ UNCHANGED command
     \/ /\ x.init <= InitRetries
        /\ x' = [x EXCEPT !.step = "init", !.init = @ + 1]
        /\ UNCHANGED command
     \/ Goto("failed") /\ UNCHANGED command
  /\ answered' = (answered \/ ~x.recovered)
  /\ UNCHANGED <<datagrams, conns, queue>>

Reply ==
  /\ x.step = "reply"
  /\ \/ Goto("done") /\ UNCHANGED command
     \/ /\ x.init < InitRetries
        /\ x' = [x EXCEPT !.step = "init", !.init = @ + 1]
        /\ UNCHANGED command
     \/ Goto("failed") /\ command' = "closed"
  /\ answered' = (answered \/ ~x.recovered)
  /\ UNCHANGED <<datagrams, conns, queue>>

Executor ==
  \/ Bind
  \/ SendDiscovery
  \/ Callback
  \/ AwaitTimesOut
  \/ AwaitFails
  \/ Acknowledge
  \/ Connect
  \/ SendInit
  \/ ReplyFails
  \/ Reply

Camera ==
  \/ \E c \in Cameras, round \in Rounds : Knock(c, round)
  \/ \E i \in DOMAIN conns : CallBack(i) \/ AckReceived(i) \/ TaskEnds(i)

Next == Executor \/ Camera \/ LoseDatagram

Spec == Init /\ [][Next]_vars

\* The awaits of the executor that wait for a peer have deadlines and the others
\* are host calls that return; a callback task has one deadline for all it does.
Fairness ==
  WF_vars(Executor) /\ \A i \in 1 .. MaxConns : WF_vars(i \in DOMAIN conns /\ TaskEnds(i))

FairSpec == Spec /\ Fairness

--------------------------------------------------------------------------------
\* The executor connects only to a camera that called back from the address it
\* advertises, was recognised as the model in use and was acknowledged (run_pcss_auto_establishment, acquire_explicit_callback).
EndpointIsValidated ==
  x.step \in {"connect", "init", "reply", "done"} =>
    LET conn == conns[x.conn]
    IN /\ conn.host = "acknowledged"
       /\ x.camera = conn.camera /\ Advertises[conn.camera] = conn.camera
       /\ x.model = ModelOf[conn.camera] /\ x.model # NoModel

\* However the executor ends, it has closed every callback connection it
\* accepted, and its command connection is open exactly when it succeeded.
NothingLeftOpen ==
  x.step \in {"done", "failed"} =>
    /\ \A i \in DOMAIN conns : conns[i].host # "accepted"
    /\ command = "open" <=> x.step = "done"

\* A camera that answered Init on its discovered endpoint is never asked for a
\* new rendezvous: a rejection or a later failure ends the attempt
\* (endpoint_eligible, and init_attempt == 0 in establish_endpoint).
RecoveryIsUnanswered == x.recovered => ~answered

\* All the callbacks the executor ever acknowledges come from one camera, so no
\* other camera is left believing that it was chosen.
OneCameraAcknowledged ==
  \A i, j \in DOMAIN conns :
    conns[i].host = "acknowledged" /\ conns[j].host = "acknowledged" =>
      conns[i].camera = conns[j].camera

\* The executor always ends, and every callback task gives its permit back,
\* whatever is lost or late (with_deadline_source, timeout_at).
EverythingEnds ==
  /\ <>(x.step \in {"done", "failed"})
  /\ \A i \in 1 .. MaxConns :
       i \in DOMAIN conns ~> i \in DOMAIN conns /\ conns[i].task \in {"acknowledged", "ended"}

\* The recovery round uses an answer to its own unicast discovery.
RecoveryIsFresh ==
  x.recovered /\ x.step \in {"connect", "init", "reply", "done"} => conns[x.conn].round = "unicast"

\* Whatever is lost, late or repeated, the rendezvous ends at one camera that was
\* validated and acknowledged, leaves no socket behind when it does not, and asks for a
\* new rendezvous only when the endpoint never answered.
RendezvousIsSound ==
  /\ TypeOK /\ EndpointIsValidated /\ NothingLeftOpen
  /\ RecoveryIsUnanswered /\ OneCameraAcknowledged

--------------------------------------------------------------------------------
(* RendezvousIsSound is not inductive: that a recovery finds the endpoint unanswered  *)
(* and only one camera is acknowledged depends on where the executor can be when a    *)
(* socket is accepted, acknowledged or open.                                           *)

Chosen == {"ack", "connect", "init", "reply", "done"}

\* The listener holds every waiting connection once, and a task that has not connected
\* is unknown to the host.
QueueIsExact ==
  /\ \A k \in DOMAIN queue : conns[queue[k]].host = "queued"
  /\ \A k, l \in DOMAIN queue : queue[k] = queue[l] => k = l
  /\ \A i \in DOMAIN conns : conns[i].task = "connecting" => conns[i].host = "none"

\* From its acceptance on, the chosen callback is the one that was validated.
ChosenIsValidated ==
  x.step \in Chosen =>
    /\ x.conn \in DOMAIN conns
    /\ conns[x.conn].host = IF x.step = "ack" THEN "accepted" ELSE "acknowledged"
    /\ x.camera = conns[x.conn].camera
    /\ Advertises[x.camera] = x.camera
    /\ x.model = ModelOf[x.camera] /\ x.model # NoModel

\* An accepted callback is the chosen one, and acknowledged ones come from the camera
\* in use; a broadcast round that still searches has acknowledged nobody.
HostsAreAccountable ==
  \A i \in DOMAIN conns :
    /\ conns[i].host = "accepted" => x.step = "ack" /\ i = x.conn
    /\ conns[i].host = "acknowledged" =>
         /\ conns[i].camera = x.camera
         /\ x.round = "broadcast" => x.step \notin {"bind", "send", "await"}

CommandIsCounted == command = "open" <=> x.step \in {"init", "reply", "done"}

\* An answer on the discovered endpoint leaves a retry of Init or the end.
AnswerIsFinal == answered => ~x.recovered /\ (x.init > 0 \/ x.step \in {"done", "failed"})

\* A unicast round looks for a known camera and model.
UnicastIsDirected == x.round = "unicast" => x.camera \in Cameras /\ x.model # NoModel

IInv ==
  /\ TypeOK /\ QueueIsExact /\ ChosenIsValidated /\ HostsAreAccountable
  /\ CommandIsCounted /\ AnswerIsFinal /\ UnicastIsDirected

\* The inductive invariant implies what the run checks.
LEMMA InvariantIsEnough == IInv => RendezvousIsSound
<1> SUFFICES ASSUME IInv PROVE RendezvousIsSound
  OBVIOUS
<1> USE DEF IInv
<1>1. EndpointIsValidated
  BY DEF ChosenIsValidated, Chosen, EndpointIsValidated
<1>2. NothingLeftOpen
  BY DEF HostsAreAccountable, CommandIsCounted, NothingLeftOpen
<1>3. RecoveryIsUnanswered
  BY DEF AnswerIsFinal, RecoveryIsUnanswered
<1>4. OneCameraAcknowledged
  BY DEF HostsAreAccountable, OneCameraAcknowledged
<1> QED
  BY <1>1, <1>2, <1>3, <1>4 DEF RendezvousIsSound

\* A camera's task changes its own connection only, and hides none from the host.
LEMMA CameraInvariant ==
  ASSUME RendezvousAssumption, IInv, Camera
  PROVE  IInv'
<1> USE DEF IInv
<1>1. ASSUME NEW c \in Cameras, NEW round \in Rounds, Knock(c, round)
      PROVE  IInv'
  <2>1. CASE UNCHANGED conns
    BY <1>1, <2>1, Zenon DEF Knock, TypeOK, QueueIsExact, ChosenIsValidated, HostsAreAccountable,
                      CommandIsCounted, AnswerIsFinal, UnicastIsDirected
  <2>2. CASE /\ Len(conns) < MaxConns
             /\ conns' = Append(conns, [camera |-> c, round |-> round,
                                        task |-> "connecting", host |-> "none"])
    <3> DEFINE new == [camera |-> c, round |-> round, task |-> "connecting", host |-> "none"]
    <3>1. new \in Conns
      BY DEF Conns
    <3>2. /\ conns' \in Seq(Conns) /\ Len(conns') = Len(conns) + 1 /\ Len(conns') <= MaxConns
          /\ \A i \in DOMAIN conns : i \in DOMAIN conns' /\ conns'[i] = conns[i]
          /\ \A i \in DOMAIN conns' : i \in DOMAIN conns \/ conns'[i] = new
      BY <2>2, <3>1 DEF TypeOK, RendezvousAssumption
    <3>3. UNCHANGED <<x, command, queue, answered>> /\ datagrams' \subseteq datagrams
      BY <1>1 DEF Knock
    <3>4. queue' \in Seq(DOMAIN conns')
      BY <3>2, <3>3 DEF TypeOK
    <3>5. TypeOK'
      BY <3>2, <3>3, <3>4 DEF TypeOK
    <3>6. QueueIsExact'
      BY <3>2, <3>3, SMTT(30) DEF QueueIsExact, TypeOK
    <3>7. ChosenIsValidated' /\ HostsAreAccountable'
      BY <3>2, <3>3 DEF ChosenIsValidated, HostsAreAccountable, Chosen
    <3> QED
      BY <3>3, <3>5, <3>6, <3>7 DEF CommandIsCounted, AnswerIsFinal, UnicastIsDirected
  <2> QED
    BY <1>1, <2>1, <2>2 DEF Knock
<1>2. ASSUME NEW i \in DOMAIN conns, CallBack(i) \/ AckReceived(i) \/ TaskEnds(i)
      PROVE  IInv'
  <2>0. PICK r \in Conns : /\ conns' = [conns EXCEPT ![i] = r]
                           /\ r.camera = conns[i].camera /\ r.task # "connecting"
                           /\ CallBack(i) => r.host = "queued"
                           /\ ~CallBack(i) => r.host = conns[i].host
    <3> conns[i] \in Conns
      BY DEF TypeOK
    <3> USE DEF Conns, CallBack, AckReceived, TaskEnds
    <3>1. CASE CallBack(i)
      <4> WITNESS [conns[i] EXCEPT !.task = "notified", !.host = "queued"] \in Conns
      <4> QED
        BY <3>1, Zenon
    <3>2. CASE AckReceived(i)
      <4> WITNESS [conns[i] EXCEPT !.task = "acknowledged"] \in Conns
      <4> QED
        BY <3>2
    <3>3. CASE TaskEnds(i)
      <4> WITNESS [conns[i] EXCEPT !.task = "ended"] \in Conns
      <4> QED
        BY <3>3
    <3> QED
      BY <1>2, <3>1, <3>2, <3>3, Zenon
  <2>1. /\ UNCHANGED <<x, command, datagrams, answered>>
        /\ conns' \in Seq(Conns) /\ Len(conns') = Len(conns) /\ DOMAIN conns' = DOMAIN conns
        /\ \A j \in DOMAIN conns : /\ conns'[j].camera = conns[j].camera
                                   /\ j # i => conns'[j] = conns[j]
        /\ conns'[i].task # "connecting"
    <3>1. UNCHANGED <<x, command, datagrams, answered>>
      BY <1>2 DEF CallBack, AckReceived, TaskEnds
    <3> QED
      BY <2>0, <3>1 DEF TypeOK
  <2>2. CASE CallBack(i)
    <3>1. conns[i].host = "none" /\ conns'[i].host = "queued" /\ queue' = Append(queue, i)
      BY <2>0, <2>2, Zenon DEF CallBack, QueueIsExact, TypeOK
    <3>2. TypeOK'
      BY <2>1, <3>1 DEF TypeOK
    <3>3. QueueIsExact'
      <4>1. \A k \in DOMAIN queue : queue[k] \in DOMAIN conns /\ queue[k] # i
        BY <3>1 DEF TypeOK, QueueIsExact
      <4>2. \A k \in DOMAIN queue' : \/ k \in DOMAIN queue /\ queue'[k] = queue[k]
                                     \/ k = Len(queue) + 1 /\ queue'[k] = i
        BY <3>1 DEF TypeOK
      <4>3. \A k \in DOMAIN queue' : conns'[queue'[k]].host = "queued"
        BY <2>1, <3>1, <4>1, <4>2 DEF QueueIsExact
      <4>4. \A k, l \in DOMAIN queue' : queue'[k] = queue'[l] => k = l
        BY <4>1, <4>2 DEF QueueIsExact
      <4>5. \A j \in DOMAIN conns' : conns'[j].task = "connecting" => conns'[j].host = "none"
        BY <2>1 DEF QueueIsExact
      <4> QED
        BY <4>3, <4>4, <4>5 DEF QueueIsExact
    <3> QED
      BY <2>1, <3>1, <3>2, <3>3
      DEF ChosenIsValidated, HostsAreAccountable, CommandIsCounted, AnswerIsFinal, UnicastIsDirected
  <2>3. CASE ~CallBack(i)
    <3>1. UNCHANGED queue /\ conns'[i].host = conns[i].host
      BY <1>2, <2>0, <2>3 DEF AckReceived, TaskEnds, TypeOK
    <3>2. TypeOK'
      BY <2>1, <3>1 DEF TypeOK
    <3>3. QueueIsExact'
      <4>1. \A k \in DOMAIN queue : queue[k] \in DOMAIN conns
        BY DEF TypeOK
      <4>2. \A j \in DOMAIN conns : conns'[j].host = conns[j].host
        BY <2>1, <3>1
      <4> QED
        BY <2>1, <3>1, <4>1, <4>2 DEF QueueIsExact
    <3> QED
      BY <2>1, <3>1, <3>2, <3>3
      DEF ChosenIsValidated, HostsAreAccountable, CommandIsCounted, AnswerIsFinal, UnicastIsDirected
  <2> QED
    BY <2>2, <2>3
<1> QED
  BY <1>1, <1>2 DEF Camera

\* Another attempt, or the end of the search, moves the step and the attempt only.
LEMMA NextAttemptMoves ==
  ASSUME x \in Progress, NextAttempt
  PROVE  /\ x' \in Progress /\ x'.step \in {"send", "failed"}
         /\ x'.round = x.round /\ x'.camera = x.camera /\ x'.model = x.model
         /\ x'.init = x.init /\ x'.recovered = x.recovered
<1>1. PICK n \in Nat : \/ x' = [x EXCEPT !.step = "send", !.attempt = n]
                       \/ x' = [x EXCEPT !.step = "failed"]
  <2>1. x.attempt + 1 \in Nat
    BY DEF Progress
  <2> QED
    BY <2>1 DEF NextAttempt
<1> QED
  BY <1>1, Zenon DEF Progress, Steps

\* A step of the search that takes no callback moves the executor only.
LEMMA SearchInvariant ==
  ASSUME RendezvousAssumption, IInv, Bind \/ SendDiscovery \/ AwaitTimesOut \/ AwaitFails
  PROVE  IInv'
<1> USE DEF IInv
<1>1. /\ x.step \in {"bind", "send", "await"}
      /\ UNCHANGED <<command, conns, queue, answered>>
  BY DEF Bind, SendDiscovery, AwaitTimesOut, AwaitFails
<1>2. x \in Progress
  BY DEF TypeOK
<1>3. /\ x' \in Progress /\ x'.step \in {"send", "await", "failed"}
      /\ x'.round = x.round /\ x'.camera = x.camera /\ x'.model = x.model
      /\ x'.init = x.init /\ x'.recovered = x.recovered
  <2>1. CASE Bind
    BY <1>2, <2>1 DEF Bind, Goto, Progress, Steps
  <2>2. CASE SendDiscovery
    BY <1>2, <2>2 DEF SendDiscovery, Goto, Progress, Steps
  <2>3. CASE AwaitTimesOut
    BY <1>2, <2>3, NextAttemptMoves DEF AwaitTimesOut
  <2>4. CASE AwaitFails
    BY <1>2, <2>4 DEF AwaitFails, Goto, Progress, Steps
  <2> QED
    BY <2>1, <2>2, <2>3, <2>4
<1>4. datagrams' \subseteq Cameras \X Rounds
  <2>1. CASE SendDiscovery
    <3>1. (IF x.round = "broadcast" THEN Cameras ELSE {x.camera}) \X {x.round} \subseteq Cameras \X Rounds
      BY <1>2 DEF Progress, Rounds, UnicastIsDirected
    <3> QED
      BY <2>1, <3>1 DEF SendDiscovery, TypeOK
  <2> QED
    BY <2>1 DEF Bind, AwaitTimesOut, AwaitFails, TypeOK
<1>5. TypeOK'
  BY <1>1, <1>3, <1>4 DEF TypeOK
<1>6. QueueIsExact'
  BY <1>1 DEF QueueIsExact
<1>7. ChosenIsValidated' /\ HostsAreAccountable'
  BY <1>1, <1>3, Zenon DEF ChosenIsValidated, HostsAreAccountable, Chosen
<1>8. CommandIsCounted' /\ AnswerIsFinal' /\ UnicastIsDirected'
  BY <1>1, <1>3 DEF CommandIsCounted, AnswerIsFinal, UnicastIsDirected
<1> QED
  BY <1>5, <1>6, <1>7, <1>8

\* The host's end of one connection changes, and nothing else of any.
LEMMA HostMoves ==
  ASSUME TypeOK, NEW i \in DOMAIN conns, NEW v \in {"accepted", "acknowledged", "closed"},
         conns' = [conns EXCEPT ![i].host = v]
  PROVE  /\ conns' \in Seq(Conns) /\ Len(conns') = Len(conns) /\ DOMAIN conns' = DOMAIN conns
         /\ \A j \in DOMAIN conns : /\ conns'[j].camera = conns[j].camera
                                    /\ conns'[j].task = conns[j].task
                                    /\ j # i => conns'[j] = conns[j]
         /\ conns'[i].host = v
<1>1. conns[i] \in Conns
  BY DEF TypeOK
<1>2. PICK r \in Conns : /\ conns' = [conns EXCEPT ![i] = r]
                         /\ r.camera = conns[i].camera /\ r.task = conns[i].task /\ r.host = v
  <2> USE <1>1 DEF Conns
  <2> WITNESS [conns[i] EXCEPT !.host = v] \in Conns
  <2> QED
    OBVIOUS
<1>3. conns' \in Seq(Conns) /\ Len(conns') = Len(conns) /\ DOMAIN conns' = DOMAIN conns
  BY <1>2 DEF TypeOK
<1>4. conns'[i] = r /\ \A j \in DOMAIN conns : j # i => conns'[j] = conns[j]
  BY <1>2 DEF TypeOK
<1> QED
  BY <1>2, <1>3, <1>4

\* A callback is taken from the queue: it becomes the chosen one or is closed.
LEMMA CallbackInvariant ==
  ASSUME RendezvousAssumption, IInv, Callback
  PROVE  IInv'
<1> USE DEF IInv
<1> DEFINE i == Head(queue)
           c == conns[i].camera
<1>1. /\ x.step = "await" /\ queue # <<>> /\ queue' = Tail(queue)
      /\ UNCHANGED <<command, datagrams, answered>>
  BY Zenon DEF Callback
<1>2. /\ i \in DOMAIN conns /\ i = queue[1] /\ queue' \in Seq(DOMAIN conns)
      /\ conns[i].host = "queued" /\ conns[i] \in Conns
      /\ \A k \in DOMAIN queue' : k + 1 \in DOMAIN queue /\ queue'[k] = queue[k + 1]
  BY <1>1 DEF TypeOK, QueueIsExact
<1>3. x \in Progress /\ c \in Cameras
  BY <1>2 DEF TypeOK, Conns
<1>4. PICK v \in {"accepted", "closed"} : conns' = [conns EXCEPT ![i].host = v]
  BY Zenon DEF Callback
<1>5. /\ conns' \in Seq(Conns) /\ Len(conns') = Len(conns) /\ DOMAIN conns' = DOMAIN conns
      /\ \A j \in DOMAIN conns : /\ conns'[j].camera = conns[j].camera
                                 /\ conns'[j].task = conns[j].task
                                 /\ j # i => conns'[j] = conns[j]
      /\ conns'[i].host = v
  <2> HIDE DEF i
  <2> QED
    BY <1>2, <1>4, HostMoves, Zenon
<1>6. QueueIsExact'
  <2>1. \A k \in DOMAIN queue' : queue'[k] \in DOMAIN conns /\ queue'[k] # i
    BY <1>1, <1>2 DEF QueueIsExact, TypeOK
  <2>2. \A k \in DOMAIN queue' : conns'[queue'[k]].host = "queued"
    BY <1>2, <1>5, <2>1 DEF QueueIsExact
  <2>3. \A k, l \in DOMAIN queue' : queue'[k] = queue'[l] => k = l
    BY <1>1, <1>2 DEF QueueIsExact, TypeOK
  <2>4. \A j \in DOMAIN conns' : conns'[j].task = "connecting" => conns'[j].host = "none"
    BY <1>2, <1>5 DEF QueueIsExact
  <2> QED
    BY <2>2, <2>3, <2>4 DEF QueueIsExact
<1>7. CASE /\ conns' = [conns EXCEPT ![i].host = "accepted"]
           /\ x' = [x EXCEPT !.step = "ack", !.camera = Advertises[c],
                             !.model = ModelOf[c], !.conn = i]
           /\ Advertises[c] = c /\ ModelOf[c] # NoModel
           /\ x.round = "unicast" => c = x.camera
  <2>1. v = "accepted"
    BY <1>2, <1>5, <1>7, Zenon DEF TypeOK, Conns
  <2>2. i \in Nat /\ ModelOf[c] \in Models
    BY <1>2, <1>3, <1>7, SMTT(30) DEF TypeOK, Models
  <2>3. /\ x' \in Progress /\ x'.step = "ack" /\ x'.camera = c /\ x'.model = ModelOf[c]
        /\ x'.conn = i /\ x'.round = x.round /\ x'.init = x.init /\ x'.recovered = x.recovered
    <3> HIDE DEF i, c
    <3> QED
      BY <1>3, <1>7, <2>2, Zenon DEF Progress, Steps
  <2>4. TypeOK'
    BY <1>1, <1>2, <1>5, <2>3, Zenon DEF TypeOK
  <2>5. ChosenIsValidated'
    BY <1>2, <1>5, <1>7, <2>1, <2>3, Zenon DEF ChosenIsValidated
  <2>6. HostsAreAccountable'
    BY <1>1, <1>2, <1>3, <1>5, <1>7, <2>1, <2>3, SMTT(30) DEF HostsAreAccountable, Progress, Rounds
  <2>7. CommandIsCounted' /\ AnswerIsFinal' /\ UnicastIsDirected'
    BY <1>1, <1>3, <1>7, <2>3, Zenon DEF CommandIsCounted, AnswerIsFinal, UnicastIsDirected
  <2> QED
    BY <1>6, <2>4, <2>5, <2>6, <2>7
<1>8. CASE /\ conns' = [conns EXCEPT ![i].host = "closed"]
           /\ NextAttempt \/ Goto("failed")
  <2>1. v = "closed"
    BY <1>2, <1>5, <1>8 DEF TypeOK, Conns
  <2>2. /\ x' \in Progress /\ x'.step \in {"send", "failed"}
        /\ x'.round = x.round /\ x'.camera = x.camera /\ x'.model = x.model
        /\ x'.init = x.init /\ x'.recovered = x.recovered
    BY <1>3, <1>8, NextAttemptMoves DEF Goto, Progress, Steps
  <2>3. TypeOK'
    BY <1>1, <1>2, <1>5, <2>2 DEF TypeOK
  <2>4. ChosenIsValidated' /\ HostsAreAccountable'
    <3>1. ChosenIsValidated'
      BY <2>2 DEF ChosenIsValidated, Chosen
    <3>2. \A j \in DOMAIN conns' : \/ conns'[j].host = "closed"
                                   \/ j # i /\ conns'[j] = conns[j]
      BY <1>5, <2>1, Zenon
    <3>3. HostsAreAccountable'
      BY <1>1, <1>5, <2>2, <3>2 DEF HostsAreAccountable
    <3> QED
      BY <3>1, <3>3
  <2>5. CommandIsCounted' /\ AnswerIsFinal' /\ UnicastIsDirected'
    BY <1>1, <2>2 DEF CommandIsCounted, AnswerIsFinal, UnicastIsDirected
  <2> QED
    BY <1>6, <2>3, <2>4, <2>5
<1>9. \/ /\ conns' = [conns EXCEPT ![i].host = "accepted"]
         /\ x' = [x EXCEPT !.step = "ack", !.camera = Advertises[c],
                           !.model = ModelOf[c], !.conn = i]
         /\ Advertises[c] = c /\ ModelOf[c] # NoModel
         /\ x.round = "unicast" => c = x.camera
      \/ /\ conns' = [conns EXCEPT ![i].host = "closed"]
         /\ NextAttempt \/ Goto("failed")
  <2>1. CASE x.round = "broadcast"
    BY <1>3, <2>1, Zenon DEF Callback, BroadcastVerdict
  <2>2. CASE x.round = "unicast"
    BY <1>3, <2>2, Zenon DEF Callback, UnicastVerdict, UnicastIsDirected
  <2> QED
    BY <1>3, <2>1, <2>2, Zenon DEF Progress, Rounds
<1> QED
  BY <1>7, <1>8, <1>9, Zenon

\* The chosen callback is acknowledged or closed.
LEMMA AcknowledgeInvariant ==
  ASSUME RendezvousAssumption, IInv, Acknowledge
  PROVE  IInv'
<1> USE DEF IInv
<1>1. x.step = "ack" /\ UNCHANGED <<command, datagrams, queue, answered>>
  BY DEF Acknowledge
<1>2. /\ x \in Progress /\ x.conn \in DOMAIN conns /\ conns[x.conn].host = "accepted"
      /\ conns[x.conn].camera = x.camera
  BY <1>1 DEF TypeOK, ChosenIsValidated, Chosen
<1>3. PICK v \in {"acknowledged", "closed"}, step \in {"connect", "failed"} :
        /\ conns' = [conns EXCEPT ![x.conn].host = v]
        /\ x' = [x EXCEPT !.step = step]
        /\ step = "connect" => v = "acknowledged"
  BY DEF Acknowledge, Goto
<1>4. /\ conns' \in Seq(Conns) /\ Len(conns') = Len(conns) /\ DOMAIN conns' = DOMAIN conns
      /\ \A j \in DOMAIN conns : /\ conns'[j].camera = conns[j].camera
                                 /\ conns'[j].task = conns[j].task
                                 /\ j # x.conn => conns'[j] = conns[j]
      /\ conns'[x.conn].host = v
  BY <1>2, <1>3, HostMoves, Zenon
<1>5. /\ x' \in Progress /\ x'.step = step /\ x'.camera = x.camera /\ x'.model = x.model
      /\ x'.conn = x.conn /\ x'.round = x.round /\ x'.init = x.init /\ x'.recovered = x.recovered
  BY <1>2, <1>3 DEF Progress, Steps
<1>6. TypeOK'
  BY <1>1, <1>4, <1>5 DEF TypeOK
<1>7. QueueIsExact'
  <2>1. \A k \in DOMAIN queue : queue[k] \in DOMAIN conns /\ queue[k] # x.conn
    BY <1>2 DEF QueueIsExact, TypeOK
  <2> QED
    BY <1>1, <1>2, <1>4, <2>1 DEF QueueIsExact
<1>8. ChosenIsValidated'
  BY <1>1, <1>2, <1>3, <1>4, <1>5, Zenon DEF ChosenIsValidated, Chosen
<1>9. HostsAreAccountable'
  BY <1>1, <1>2, <1>3, <1>4, <1>5 DEF HostsAreAccountable
<1>10. CommandIsCounted' /\ AnswerIsFinal' /\ UnicastIsDirected'
  BY <1>1, <1>3, <1>5 DEF CommandIsCounted, AnswerIsFinal, UnicastIsDirected
<1> QED
  BY <1>6, <1>7, <1>8, <1>9, <1>10

\* Connecting and the Init handshake go on, end, or begin the one recovery, which needs
\* an endpoint that never answered.
LEMMA EstablishInvariant ==
  ASSUME RendezvousAssumption, IInv, Connect \/ SendInit \/ ReplyFails \/ Reply
  PROVE  IInv'
<1> USE DEF IInv
<1>1. /\ x \in Progress /\ x.step \in {"connect", "init", "reply"}
      /\ UNCHANGED <<datagrams, conns, queue>>
  BY DEF Connect, SendInit, ReplyFails, Reply, TypeOK
<1>2. /\ x.camera \in Cameras /\ x.model # NoModel
      /\ \A i \in DOMAIN conns : conns[i].host # "accepted"
  <2>1. x.camera \in Cameras /\ x.model # NoModel
    <3>1. /\ x.conn \in DOMAIN conns /\ x.camera = conns[x.conn].camera
          /\ x.model # NoModel
      BY <1>1 DEF ChosenIsValidated, Chosen
    <3>2. conns[x.conn] \in Conns
      BY <3>1 DEF TypeOK
    <3> QED
      BY <3>1, <3>2 DEF Conns
  <2>2. \A i \in DOMAIN conns : conns[i].host # "accepted"
    BY <1>1 DEF HostsAreAccountable
  <2> QED
    BY <2>1, <2>2
<1>3. answered' \in BOOLEAN
  BY Zenon DEF Connect, SendInit, ReplyFails, Reply, TypeOK
<1>4. QueueIsExact'
  BY <1>1 DEF QueueIsExact
<1>5. ASSUME /\ x' \in Progress /\ x'.round = x.round /\ x'.camera = x.camera
             /\ x'.model = x.model /\ x'.conn = x.conn
             /\ x'.step \in {"init", "reply", "done", "failed"},
             command' \in {"open", "closed"}, command' = "open" <=> x'.step # "failed"
      PROVE  /\ TypeOK' /\ ChosenIsValidated' /\ HostsAreAccountable'
             /\ CommandIsCounted' /\ UnicastIsDirected'
  <2>1. TypeOK'
    BY <1>1, <1>3, <1>5 DEF TypeOK
  <2>2. ChosenIsValidated'
    BY <1>1, <1>5, Zenon DEF ChosenIsValidated, Chosen
  <2>3. HostsAreAccountable'
    BY <1>1, <1>2, <1>5, Zenon DEF HostsAreAccountable
  <2>4. CommandIsCounted' /\ UnicastIsDirected'
    BY <1>5 DEF CommandIsCounted, UnicastIsDirected
  <2> QED
    BY <2>1, <2>2, <2>3, <2>4
<1>6. CASE x' = [x EXCEPT !.step = "failed"] /\ command' = "closed"
  <2>1. /\ x' \in Progress /\ x'.step = "failed" /\ x'.round = x.round /\ x'.camera = x.camera
        /\ x'.model = x.model /\ x'.conn = x.conn /\ x'.recovered = x.recovered
    BY <1>1, <1>6 DEF Progress, Steps
  <2>2. AnswerIsFinal'
    BY <2>1, Zenon DEF AnswerIsFinal, Connect, SendInit, ReplyFails, Reply
  <2> QED
    BY <1>4, <1>5, <1>6, <2>1, <2>2
<1>7. CASE /\ x' = [x EXCEPT !.step = "init"] /\ command' = "open"
           /\ UNCHANGED answered
  <2>1. /\ x' \in Progress /\ x'.step = "init" /\ x'.round = x.round /\ x'.camera = x.camera
        /\ x'.model = x.model /\ x'.conn = x.conn /\ x'.recovered = x.recovered
        /\ x'.init = x.init
    BY <1>1, <1>7 DEF Progress, Steps
  <2>2. AnswerIsFinal'
    BY <1>1, <1>7, <2>1 DEF AnswerIsFinal
  <2> QED
    BY <1>4, <1>5, <1>7, <2>1, <2>2
<1>8. CASE SendInit /\ x' = [x EXCEPT !.step = "reply"] /\ UNCHANGED command
  <2>1. /\ x' \in Progress /\ x'.step = "reply" /\ x'.round = x.round /\ x'.camera = x.camera
        /\ x'.model = x.model /\ x'.conn = x.conn /\ x'.recovered = x.recovered
        /\ x'.init = x.init
    BY <1>1, <1>8 DEF Progress, Steps
  <2>2. AnswerIsFinal'
    BY <1>1, <1>8, <2>1 DEF AnswerIsFinal, SendInit
  <2>3. command' = "open"
    BY <1>8 DEF CommandIsCounted, SendInit
  <2> QED
    BY <1>4, <1>5, <2>1, <2>2, <2>3
<1>9. CASE Reply /\ UNCHANGED command /\ x' = [x EXCEPT !.step = "done"]
  <2>1. /\ x' \in Progress /\ x'.step = "done" /\ x'.round = x.round /\ x'.camera = x.camera
        /\ x'.model = x.model /\ x'.conn = x.conn /\ x'.recovered = x.recovered
    BY <1>1, <1>9 DEF Progress, Steps
  <2>2. AnswerIsFinal'
    BY <1>9, <2>1, Zenon DEF AnswerIsFinal, Reply
  <2>3. command' = "open"
    BY <1>9 DEF CommandIsCounted, Reply
  <2> QED
    BY <1>4, <1>5, <2>1, <2>2, <2>3
<1>10. CASE /\ Reply /\ UNCHANGED command /\ x.init < InitRetries
            /\ x' = [x EXCEPT !.step = "init", !.init = @ + 1]
  <2>1. PICK n \in 0 .. InitRetries : n > 0 /\ x' = [x EXCEPT !.step = "init", !.init = n]
    <3>1. x.init + 1 \in 0 .. InitRetries /\ x.init + 1 > 0
      BY <1>1, <1>10 DEF Progress, RendezvousAssumption
    <3> QED
      BY <1>10, <3>1
  <2>2. /\ x' \in Progress /\ x'.step = "init" /\ x'.round = x.round /\ x'.camera = x.camera
        /\ x'.model = x.model /\ x'.conn = x.conn /\ x'.recovered = x.recovered /\ x'.init = n
    BY <1>1, <2>1, Zenon DEF Progress, Steps
  <2>3. AnswerIsFinal'
    BY <1>10, <2>1, <2>2, Zenon DEF AnswerIsFinal, Reply
  <2>4. command' = "open"
    BY <1>10 DEF CommandIsCounted, Reply
  <2> QED
    BY <1>4, <1>5, <2>2, <2>3, <2>4
<1>11. CASE Recover /\ ~x.recovered /\ x.init = 0 /\ command' = "closed" /\ UNCHANGED answered
  <2>1. /\ x' \in Progress /\ x'.step \in {"send", "failed"} /\ x'.round = "unicast"
        /\ x'.camera = x.camera /\ x'.model = x.model /\ x'.recovered = TRUE
    BY <1>1, <1>11, ZenonT(30) DEF Recover, Progress, Steps, Rounds, RendezvousAssumption
  <2>2. ~answered
    BY <1>1, <1>11 DEF AnswerIsFinal
  <2>3. TypeOK'
    BY <1>1, <1>3, <1>11, <2>1 DEF TypeOK
  <2>4. ChosenIsValidated' /\ HostsAreAccountable'
    BY <1>1, <1>2, <2>1, Zenon DEF ChosenIsValidated, HostsAreAccountable, Chosen
  <2>5. CommandIsCounted' /\ AnswerIsFinal' /\ UnicastIsDirected'
    BY <1>2, <1>11, <2>1, <2>2, Zenon DEF CommandIsCounted, AnswerIsFinal, UnicastIsDirected
  <2> QED
    BY <1>4, <2>3, <2>4, <2>5
<1>12. CASE UNCHANGED answered /\ \E eligible \in BOOLEAN : Unavailable(eligible)
  BY <1>6, <1>11, <1>12 DEF Unavailable, Goto
<1>13. CASE Connect
  BY <1>7, <1>12, <1>13 DEF Connect, Goto
<1>14. CASE SendInit
  BY <1>8, <1>12, <1>14 DEF SendInit, Goto
<1>15. CASE ReplyFails
  BY <1>12, <1>15 DEF ReplyFails
<1>16. CASE Reply
  BY <1>6, <1>9, <1>10, <1>16 DEF Reply, Goto
<1> QED
  BY <1>13, <1>14, <1>15, <1>16

\* Whatever the cameras, the limits and the network do, the rendezvous is sound
\* (RendezvousIsSound): the executor of pcss_executor.rs ends at one validated and
\* acknowledged camera, leaves no socket behind when it fails, and recovers only an
\* endpoint that never answered.
THEOREM RendezvousHolds == Spec => []RendezvousIsSound
<1> USE RendezvousAssumption
<1>1. Init => IInv
  <2> SUFFICES ASSUME Init PROVE IInv
    OBVIOUS
  <2>1. x \in Progress
    <3>1. 0 \in 0 .. InitRetries /\ 0 \in Nat /\ 1 \in Nat
      BY DEF RendezvousAssumption
    <3>2. /\ "bind" \in Steps /\ {"broadcast", "unicast"} = Rounds /\ FALSE \in BOOLEAN
      BY DEF Steps, Rounds
    <3>3. CASE x = [step |-> "bind", path |-> "auto", round |-> "broadcast", attempt |-> 1,
                    camera |-> NoCamera, model |-> NoModel, conn |-> 0, init |-> 0, recovered |-> FALSE]
      BY <3>1, <3>2, <3>3, Zenon DEF Progress
    <3>4. ASSUME NEW c \in Cameras, NEW model \in Models,
                 x = [step |-> "bind", path |-> "known", round |-> "unicast", attempt |-> 1,
                      camera |-> c, model |-> model, conn |-> 0, init |-> 0, recovered |-> FALSE]
          PROVE  x \in Progress
      BY <3>1, <3>2, <3>4, Zenon DEF Progress
    <3> QED
      BY <3>3, <3>4, Zenon DEF Init
  <2>2. TypeOK
    <3>1. /\ conns \in Seq(Conns) /\ Len(conns) <= MaxConns
          /\ queue \in Seq(DOMAIN conns)
      BY DEF Init, RendezvousAssumption
    <3>2. answered \in BOOLEAN /\ command \in {"none", "open", "closed"}
      BY Zenon DEF Init
    <3>3. datagrams \subseteq Cameras \X Rounds
      BY Zenon DEF Init
    <3> QED
      BY <2>1, <3>1, <3>2, <3>3 DEF TypeOK
  <2>3. QueueIsExact /\ ChosenIsValidated /\ HostsAreAccountable
    BY DEF Init, QueueIsExact, ChosenIsValidated, HostsAreAccountable, Chosen
  <2>4. CommandIsCounted /\ AnswerIsFinal /\ UnicastIsDirected
    BY DEF Init, CommandIsCounted, AnswerIsFinal, UnicastIsDirected, Models
  <2> QED
    BY <2>2, <2>3, <2>4 DEF IInv
<1>2. IInv /\ [Next]_vars => IInv'
  <2> SUFFICES ASSUME IInv, [Next]_vars PROVE IInv'
    OBVIOUS
  <2>1. CASE Executor
    BY <2>1, SearchInvariant, CallbackInvariant, AcknowledgeInvariant, EstablishInvariant, Zenon
    DEF Executor
  <2>2. CASE Camera
    BY <2>2, CameraInvariant, Zenon
  <2>3. CASE LoseDatagram
    <3>1. datagrams' \subseteq datagrams /\ UNCHANGED <<x, command, conns, queue, answered>>
      BY <2>3, Zenon DEF LoseDatagram
    <3> QED
      BY <3>1, Zenon DEF IInv, TypeOK, QueueIsExact, ChosenIsValidated, HostsAreAccountable,
                  CommandIsCounted, AnswerIsFinal, UnicastIsDirected
  <2>4. CASE UNCHANGED vars
    BY <2>4, Zenon DEF vars, IInv, TypeOK, QueueIsExact, ChosenIsValidated, HostsAreAccountable,
                CommandIsCounted, AnswerIsFinal, UnicastIsDirected
  <2> QED
    BY <2>1, <2>2, <2>3, <2>4 DEF Next
<1> QED
  BY <1>1, <1>2, InvariantIsEnough, PTL DEF Spec

-------------------------------------------------------------------------------
(* Values of the constants for model checking: a camera, a second one of    *)
(* another model, and one that advertises the address of the first.         *)

MCAdvertises == [c \in Cameras |-> IF c = "liar" THEN "cam" ELSE c]

MCModelOf == [c \in Cameras |-> IF c = "twin" THEN "other" ELSE "m"]
===============================================================================
