-------------------------- MODULE CommandConnections --------------------------
(***************************************************************************)
(* The command connections of the simulator service and the one PTP        *)
(* session they share (services/camera-sim-service/src/lib.rs with the     *)
(* session half of crates/camera-sim/src/engine.rs).                       *)
(*                                                                         *)
(* Every accepted socket runs its own handler task.  A handler dispatches  *)
(* operations under the engine, owner and lifecycle locks, which is one    *)
(* step here; it writes the reply after the locks are released, and when   *)
(* its transport ends it takes the locks again to release the session and  *)
(* then, separately, finishes its lifecycle entry.  Steps of several       *)
(* handlers, control-plane overlays and shutdown interleave between those  *)
(* points.                                                                 *)
(***************************************************************************)
EXTENDS Lifecycle, Naturals, Sequences, FiniteSets

CONSTANTS
  Conns,         \* command sockets, named by their session sequence number
  NoConn,        \* the owner value `None`
  CommandSlots,  \* handlers admitted at once (COMMAND_BUDGET / RESERVATION)
  MaxCompleted,  \* MAX_COMPLETED_CONNECTION_LIFECYCLES
  Faults         \* reply faults injected: subset of {"suppress", "close"}

ASSUME ConnAssumption == NoConn \notin Conns
ASSUME BoundAssumption == CommandSlots \in Nat /\ MaxCompleted \in Nat \ {0}

Reasons == {"AcknowledgedCloseSession", "LocalCleanClose", "PeerEof", "TransportError"}

\* The detected manifest mode: none yet, one without a feature, or a feature.
Modes == {"undetected", "plain"} \cup Features

\* What a handler has left to write: an OK to CloseSession, another response,
\* nothing (suppressed), or a close directive.
Replies == {"idle", "closeOk", "response", "none", "close"}

VARIABLES
  session_open,  \* engine: CameraState.session_open
  active_mode,   \* engine: CameraState.active_mode
  owner,         \* session_owner: the connection whose teardown clears the session
  pc,            \* where each handler task is
  reply,         \* the engine's reply the handler is writing
  close_acked,   \* CommandTraceGuard.close_session_acknowledged
  reason,        \* what handle_command_conn_inner returned
  entries,       \* connections that have a lifecycle entry
  terminal,      \* entry.terminal_reason ("none" while active)
  snap,          \* entry.tracker.snapshot
  completed,     \* ConnectionLifecycleState.completed
  running,       \* the accept loop has not seen shutdown
  patched,       \* history: an overlay has changed the session behind the handlers
  opener         \* history: the connection whose OpenSession made the session

engineVars == <<session_open, active_mode, owner>>
handlerVars == <<pc, reply, close_acked, reason>>
lifecycleVars == <<entries, terminal, snap, completed>>
vars == <<engineVars, handlerVars, lifecycleVars, running, patched, opener>>

-----------------------------------------------------------------------------
Init ==
  /\ session_open = FALSE
  /\ active_mode = "undetected"
  /\ owner = NoConn
  /\ pc = [c \in Conns |-> "idle"]
  /\ reply = [c \in Conns |-> "idle"]
  /\ close_acked = [c \in Conns |-> FALSE]
  /\ reason = [c \in Conns |-> "none"]
  /\ entries = {}
  /\ terminal = [c \in Conns |-> "none"]
  /\ snap = [c \in Conns |-> InitialSnapshot]
  /\ completed = <<>>
  /\ running = TRUE
  /\ patched = FALSE
  /\ opener = NoConn

-----------------------------------------------------------------------------
\* Lifecycle registry.

Active(c) == c \in entries /\ terminal[c] = "none"

\* CommandTerminalReason::transition.
TransitionOf(why) ==
  IF why \in {"AcknowledgedCloseSession", "LocalCleanClose"}
  THEN "ProxyTransportClosedLocally"
  ELSE "ProxyTransportLost"

\* Variant with the limit off by one.
ExpiresEarly(queue) == Len(queue) >= MaxCompleted

Expires(queue) == Len(queue) > MaxCompleted

\* ConnectionLifecycles::finish.  Idempotent: an entry that is gone or already
\* terminal is left alone.  One entry is pushed, so at most one expires.
FinishLifecycle(c, why) ==
  IF ~ Active(c)
  THEN UNCHANGED lifecycleVars
  ELSE LET queue == Append(completed, c) IN
       /\ snap' = [snap EXCEPT ![c] = Apply(@, TransitionOf(why))]
       /\ terminal' = [terminal EXCEPT ![c] = why]
       /\ completed' = IF Expires(queue) THEN Tail(queue) ELSE queue
       /\ entries' = IF Expires(queue) THEN entries \ {Head(queue)} ELSE entries

\* Variant that ignores the owner's evidence.
TrackerIsSender(c) == c

\* The tracker the engine records into: the owner's while its entry is active,
\* the sender's otherwise.
TrackerFor(c) == IF owner \in Conns /\ Active(owner) THEN owner ELSE c

\* Variant that leaves the previous owner's session claim standing.
RecordKeepsOldClaim(c, transition) ==
  LET tracker == TrackerFor(c)
  IN  /\ snap' = [x \in Conns |-> IF x \in {c, tracker}
                                  THEN Apply(snap[x], transition) ELSE snap[x]]
      /\ owner' = CASE transition = "PtpSessionOpened" -> c
                    [] transition = "PtpSessionClosed" -> NoConn
                    [] OTHER -> owner

\* One session or feature transition, recorded in the tracker and copied to the
\* sender; an open by another connection closes the previous owner's session.
RecordTransition(c, transition) ==
  LET tracker == TrackerFor(c)
      recorded == Apply(snap[tracker], transition)
  IN  /\ snap' = [x \in Conns |->
                    IF x = c THEN Apply(snap[c], transition)
                    ELSE IF x # tracker THEN snap[x]
                    ELSE IF transition = "PtpSessionOpened"
                         THEN Apply(recorded, "PtpSessionClosed") ELSE recorded]
      /\ owner' = CASE transition = "PtpSessionOpened" -> c
                    [] transition = "PtpSessionClosed" -> NoConn
                    [] OTHER -> owner

-----------------------------------------------------------------------------
\* Engine operations, as seen from the shared session.

FeatureOf(mode) == IF mode \in Features THEN mode ELSE "none"

RecordedFeature(c) ==
  IF \E f \in Features : snap[TrackerFor(c)].feature = Confirmed(f)
  THEN snap[TrackerFor(c)].feature[2]
  ELSE "none"

OpenSession(c) ==
  /\ ~ session_open
  /\ session_open' = TRUE
  /\ active_mode' = "undetected"
  /\ RecordTransition(c, "PtpSessionOpened")
  /\ opener' = c

CloseSession(c) ==
  /\ session_open
  /\ session_open' = FALSE
  /\ active_mode' = "undetected"
  /\ RecordTransition(c, "PtpSessionClosed")
  /\ UNCHANGED opener

\* A property write re-detects the mode; only a change of mode can produce a
\* feature transition, and only when the tracker does not already claim it.
SetProp(c, mode) ==
  /\ session_open
  /\ active_mode' = mode
  /\ IF mode = active_mode \/ RecordedFeature(c) = FeatureOf(mode)
     THEN UNCHANGED <<snap, owner>>
     ELSE RecordTransition(c, IF FeatureOf(mode) = "none"
                              THEN "FeatureExited" ELSE FeatureOf(mode))
  /\ UNCHANGED <<session_open, opener>>

\* An operation that leaves the session, the mode and the trackers alone: a
\* read, a refused or malformed request, a faulted one.
NoEffect == UNCHANGED <<engineVars, snap, opener>>

Effect(c, op) ==
  CASE op = "OpenSession"  -> OpenSession(c)
    [] op = "CloseSession" -> CloseSession(c)
    [] op \in Modes        -> SetProp(c, op)
    [] OTHER               -> session_open /\ NoEffect

Ops == {"OpenSession", "CloseSession", "Read"} \cup Modes

-----------------------------------------------------------------------------
\* Handler steps.

Handlers == {c \in Conns : pc[c] \notin {"idle", "done"}}

\* reserve_command_session_identity and the spawn in the accept loop.
Accept(c) ==
  /\ running
  /\ pc[c] = "idle"
  /\ Cardinality(Handlers) < CommandSlots
  /\ pc' = [pc EXCEPT ![c] = "handshake"]
  /\ entries' = entries \cup {c}
  /\ snap' = [snap EXCEPT ![c] =
                Apply(Apply(@, "CommandListenerReady"), "ProxyTransportAccepted")]
  /\ UNCHANGED <<engineVars, reply, close_acked, reason, terminal,
                 completed, running, patched, opener>>

\* The init handshake ends in an ack.
Initialize(c) ==
  /\ pc[c] = "handshake"
  /\ pc' = [pc EXCEPT ![c] = "loop"]
  /\ snap' = [snap EXCEPT ![c] = Apply(@, "CommandInitialized")]
  /\ UNCHANGED <<engineVars, reply, close_acked, reason, entries,
                 terminal, completed, running, patched, opener>>

End(c, why) ==
  /\ pc' = [pc EXCEPT ![c] = "ended"]
  /\ reason' = [reason EXCEPT ![c] = why]

\* The handshake is refused (arming link, device name, packet shape), the peer
\* leaves, or its deadline passes.
RejectInit(c) ==
  /\ pc[c] = "handshake"
  /\ \E why \in {"LocalCleanClose", "PeerEof", "TransportError"} : End(c, why)
  /\ UNCHANGED <<engineVars, reply, close_acked, lifecycleVars,
                 running, patched, opener>>

\* ConnectionLifecycles::dispatch_operation and the bookkeeping done under the
\* same locks.  The engine applies the operation, refuses it, or a fault rule
\* short-circuits it; a suppressed reply hides a successful open from
\* mark_new_session.
Dispatch(c, op) ==
  /\ pc[c] = "loop"
  /\ pc' = [pc EXCEPT ![c] = "reply"]
  /\ \/ /\ Effect(c, op)
        /\ reply' = [reply EXCEPT ![c] =
                       IF op = "CloseSession" THEN "closeOk" ELSE "response"]
        /\ close_acked' = [close_acked EXCEPT ![c] = @ /\ op # "OpenSession"]
     \/ /\ Effect(c, op)
        /\ "suppress" \in Faults
        /\ reply' = [reply EXCEPT ![c] = "none"]
        /\ UNCHANGED close_acked
     \/ /\ NoEffect
        /\ \/ reply' = [reply EXCEPT ![c] = "response"]
           \/ "close" \in Faults /\ reply' = [reply EXCEPT ![c] = "close"]
        /\ UNCHANGED close_acked
  /\ UNCHANGED <<reason, entries, terminal, completed, running, patched>>

\* write_reply succeeded, or there was nothing to write.
Replied(c) ==
  /\ pc[c] = "reply"
  /\ reply[c] # "close"
  /\ pc' = [pc EXCEPT ![c] = "loop"]
  /\ close_acked' = [close_acked EXCEPT ![c] = @ \/ reply[c] = "closeOk"]
  /\ reply' = [reply EXCEPT ![c] = "idle"]
  /\ UNCHANGED <<engineVars, reason, lifecycleVars, running, patched, opener>>

\* A close directive of the engine or of the wire plan ends the handler, and so
\* does a failed write, a failed listener transition or a failed observation.
ReplyEnds(c) ==
  /\ pc[c] = "reply"
  /\ \/ reply[c] = "close" /\ End(c, "LocalCleanClose")
     \/ "close" \in Faults /\ reply[c] # "none" /\ End(c, "LocalCleanClose")
     \/ End(c, "TransportError")
  /\ reply' = [reply EXCEPT ![c] = "idle"]
  /\ UNCHANGED <<engineVars, close_acked, lifecycleVars, running, patched, opener>>

\* EOF between operations: CommandTraceGuard::mark_peer_closed.
PeerClosed(c) ==
  /\ pc[c] = "loop"
  /\ End(c, IF close_acked[c] THEN "AcknowledgedCloseSession" ELSE "PeerEof")
  /\ UNCHANGED <<engineVars, reply, close_acked, lifecycleVars,
                 running, patched, opener>>

\* A read fails, or the paired event channel cancels the command channel.
LoopBroken(c) ==
  /\ pc[c] = "loop"
  /\ \E why \in {"TransportError", "LocalCleanClose"} : End(c, why)
  /\ UNCHANGED <<engineVars, reply, close_acked, lifecycleVars,
                 running, patched, opener>>

\* Variants: teardown that clears whatever session is open, and teardown that
\* leaves the session to the next client.
TeardownUnconditional(c) ==
  /\ pc[c] = "ended"
  /\ pc' = [pc EXCEPT ![c] = "released"]
  /\ session_open' = FALSE
  /\ active_mode' = "undetected"
  /\ owner' = NoConn
  /\ UNCHANGED <<reply, close_acked, reason, lifecycleVars, running, patched, opener>>

TeardownKeepsSession(c) ==
  /\ pc[c] = "ended"
  /\ pc' = [pc EXCEPT ![c] = "released"]
  /\ UNCHANGED <<engineVars, reply, close_acked, reason, lifecycleVars, running,
                 patched, opener>>

\* The tail of handle_command_conn: release the session only when this
\* connection owns it.
Teardown(c) ==
  /\ pc[c] = "ended"
  /\ pc' = [pc EXCEPT ![c] = "released"]
  /\ IF owner = c
     THEN /\ session_open' = FALSE
          /\ active_mode' = "undetected"
          /\ owner' = NoConn
     ELSE UNCHANGED engineVars
  /\ UNCHANGED <<reply, close_acked, reason, lifecycleVars, running,
                 patched, opener>>

\* The handler's locals go with its task.
DropTask(c) ==
  /\ pc' = [pc EXCEPT ![c] = "done"]
  /\ reply' = [reply EXCEPT ![c] = "idle"]
  /\ close_acked' = [close_acked EXCEPT ![c] = FALSE]
  /\ reason' = [reason EXCEPT ![c] = "none"]

\* lifecycle_guard.finish, after the locks are dropped.
Finish(c) ==
  /\ pc[c] = "released"
  /\ DropTask(c)
  /\ FinishLifecycle(c, reason[c])
  /\ UNCHANGED <<engineVars, running, patched, opener>>

-----------------------------------------------------------------------------
\* PATCH /state changes session_open and may reset the mode; it never touches
\* the owner or a tracker.
Overlay ==
  /\ running
  /\ session_open' \in BOOLEAN
  /\ active_mode' \in {active_mode, "undetected"}
  /\ patched' = TRUE
  /\ UNCHANGED <<owner, handlerVars, lifecycleVars, running, opener>>

Shutdown ==
  /\ running
  /\ running' = FALSE
  /\ UNCHANGED <<engineVars, handlerVars, lifecycleVars, patched, opener>>

\* Variant without the guard that finishes the lifecycle of a dropped task.
AbortWithoutGuard(c) ==
  /\ ~ running
  /\ c \in Handlers
  /\ DropTask(c)
  /\ UNCHANGED <<engineVars, lifecycleVars, running, patched, opener>>

\* conns.shutdown() drops a handler wherever it is suspended; only its
\* lifecycle guard runs.
Abort(c) ==
  /\ ~ running
  /\ c \in Handlers
  /\ DropTask(c)
  /\ FinishLifecycle(c, "LocalCleanClose")
  /\ UNCHANGED <<engineVars, running, patched, opener>>

-----------------------------------------------------------------------------
Step(c) ==
  \/ Accept(c)
  \/ Initialize(c)
  \/ RejectInit(c)
  \/ \E op \in Ops : Dispatch(c, op)
  \/ Replied(c)
  \/ ReplyEnds(c)
  \/ PeerClosed(c)
  \/ LoopBroken(c)
  \/ Teardown(c)
  \/ Finish(c)
  \/ Abort(c)

Next == (\E c \in Conns : Step(c)) \/ Overlay \/ Shutdown

Spec == Init /\ [][Next]_vars

\* A spawned task that is ready runs: teardown and finish need only locks that
\* are always released, and shutdown drains every handler it aborted.
Fairness == \A c \in Conns : WF_vars(Teardown(c)) /\ WF_vars(Finish(c)) /\ WF_vars(Abort(c))

FairSpec == Spec /\ Fairness

-----------------------------------------------------------------------------
\* Properties.

\* Every variable stays in its domain.
TypeOK ==
  /\ session_open \in BOOLEAN
  /\ active_mode \in Modes
  /\ owner \in Conns \cup {NoConn}
  /\ pc \in [Conns -> {"idle", "handshake", "loop", "reply", "ended", "released", "done"}]
  /\ reply \in [Conns -> Replies]
  /\ close_acked \in [Conns -> BOOLEAN]
  /\ reason \in [Conns -> Reasons \cup {"none"}]
  /\ entries \subseteq Conns
  /\ terminal \in [Conns -> Reasons \cup {"none"}]
  /\ snap \in [Conns -> Snapshots]
  /\ completed \in Seq(Conns)
  /\ running \in BOOLEAN
  /\ patched \in BOOLEAN
  /\ opener \in Conns \cup {NoConn}

\* The session never outlives its owner: until an overlay interferes or shutdown
\* begins, an open session belongs to a connection whose handler still has its
\* teardown ahead of it, so the engine cannot wedge on SESSION_ALREADY_OPEN.
OpenSessionHasLiveOwner ==
  running => /\ ~ patched => (session_open <=> owner # NoConn)
             /\ owner # NoConn => Active(owner) /\ pc[owner] \in {"loop", "reply", "ended"}

\* Among active connections, exactly the owner's lifecycle claims a confirmed
\* open session (a handler between its teardown and its finish aside): no two
\* overlapping connections both report the session as theirs.
OpenClaimIsOwners ==
  \A c \in Conns : Active(c) =>
    /\ snap[c].session = Confirmed("Open") => owner = c \/ pc[c] = "released"
    /\ owner = c => snap[c].session = Confirmed("Open")

\* A feature the engine is in is never missing from the owner's lifecycle, even
\* when another connection entered it or the owner's evidence came from an
\* earlier session.
ActiveFeatureIsClaimed ==
  \A c \in Conns :
    ~ patched /\ owner = c /\ Active(c) /\ active_mode \in Features
      => snap[c].feature = Confirmed(active_mode)

\* A peer that leaves while it owns a session it opened after its acknowledged
\* CloseSession is a transport loss, not an acknowledged close.
EofWithOpenSessionIsLoss ==
  \A c \in Conns : pc[c] = "ended" /\ owner = c => reason[c] # "AcknowledgedCloseSession"

\* Teardown of a connection never closes a session that another connection
\* opened in its place.
TeardownSparesReplacement ==
  [][\A c \in Conns :
       pc[c] = "ended" /\ pc'[c] = "released" /\ session_open /\ ~ session_open'
         => opener = c]_vars

\* A session whose owner lost its transport is released, unless shutdown aborts
\* the handler first.
LostSessionIsReleased ==
  \A c \in Conns : (pc[c] = "ended" /\ owner = c) ~> (owner # c \/ ~ running)

\* Shutdown leaves only completed lifecycle records behind.
ShutdownDrains == ~ running ~> (\A c \in entries : terminal[c] # "none")

\* The registry retains every connection that still has a handler, plus as many
\* of the completed ones as the limit allows.
RetentionIsExact ==
  /\ LET done == Cardinality({c \in Conns : pc[c] = "done"})
     IN  Len(completed) = IF done < MaxCompleted THEN done ELSE MaxCompleted
  /\ {c \in entries : terminal[c] # "none"} = {completed[i] : i \in 1..Len(completed)}
  /\ \A c \in Handlers : Active(c)

\* The registry of lifecycles tells what is so: a feature the engine is in is claimed by
\* the connection that owns the session, and exactly the connections with a handler and
\* the latest completed ones are retained (dispatch_operation and finish of
\* ConnectionLifecycles).
RegistryIsExact == ActiveFeatureIsClaimed /\ RetentionIsExact

\* Everything that holds the session ends: a lost owner is released, and a shutdown
\* completes every record (finish, and the guard that runs when a task is aborted).
SessionsEnd == LostSessionIsReleased /\ ShutdownDrains
=============================================================================
