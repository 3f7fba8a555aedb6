---------------------- MODULE CommandConnectionsProofs ----------------------
(***************************************************************************)
(* Proofs about CommandConnections for any set of connections, any number  *)
(* of slots, any retention limit and any choice of reply faults: the type  *)
(* invariant, the ownership of the shared session, the uniqueness of the   *)
(* confirmed session claim, that a teardown spares a replacement, and that *)
(* the registry retains exactly the latest ended connections, as many as   *)
(* its limit allows (Retained is the invariant that this needs).           *)
(***************************************************************************)
EXTENDS CommandConnections, FiniteSetTheorems, TLAPS

\* Transitions the engine records while it dispatches an operation.
SessionTransitions == {"PtpSessionOpened", "PtpSessionClosed", "FeatureExited"} \cup Features

\* A live handler has an active entry, and the registry's completed queue holds
\* only connections whose handler is gone.
HandlersAreActive ==
  /\ \A c \in Handlers : Active(c)
  /\ \A c \in Conns : pc[c] = "done" => ~ Active(c)
  /\ \A i \in 1..Len(completed) : pc[completed[i]] = "done"

\* A connection not accepted yet has no entry and claims nothing.
IdleIsFresh ==
  \A c \in Conns : pc[c] = "idle" =>
    /\ c \notin entries
    /\ terminal[c] = "none"
    /\ snap[c].session # Confirmed("Open")

\* The owner's teardown is still ahead of it, or shutdown dropped its task.
OwnerIsLive ==
  owner # NoConn => \/ pc[owner] \in {"loop", "reply", "ended"}
                    \/ ~ running /\ pc[owner] = "done"

\* Ownership goes to the connection that opened the session and to no other.
OwnerOpened == owner # NoConn => opener = owner

\* Without overlays and before shutdown the session is open exactly while owned.
OpenIffOwned == running /\ ~ patched => (session_open <=> owner # NoConn)

\* A handler past its loop knows why it ended.
EndedHasReason == \A c \in Conns : pc[c] \in {"ended", "released"} => reason[c] \in Reasons

IInv ==
  /\ TypeOK
  /\ EndedHasReason
  /\ HandlersAreActive
  /\ IdleIsFresh
  /\ OwnerIsLive
  /\ OwnerOpened
  /\ OpenIffOwned
  /\ OpenClaimIsOwners

-----------------------------------------------------------------------------
\* mark_open_layers_unconfirmed keeps a snapshot a snapshot and leaves no
\* confirmed open session.
LEMMA MarkUnconfirmed ==
  ASSUME NEW x \in Snapshots
  PROVE  /\ MarkOpenLayersUnconfirmed(x) \in Snapshots
         /\ MarkOpenLayersUnconfirmed(x).session # Confirmed("Open")
<1> DEFINE session == IF x.session = Confirmed("Open") THEN Unconfirmed("Open")
                                                       ELSE x.session
           feature == IF \E f \in Features : x.feature = Confirmed(f)
                      THEN Unconfirmed(x.feature[2]) ELSE x.feature
<1>1. session \in Evidence({"Open", "Closed"})
  BY DEF Snapshots, Evidence
<1>2. session # Confirmed("Open")
  BY DEF Confirmed, Unconfirmed
<1>3. feature \in Evidence({"Inactive"} \cup Features)
  <2>1. CASE \E f \in Features : x.feature = Confirmed(f)
    <3>1. PICK f \in Features : x.feature = Confirmed(f)
      BY <2>1
    <3>2. Confirmed(f)[2] = f
      BY DEF Confirmed
    <3>3. feature = Unconfirmed(f)
      BY <2>1, <3>1, <3>2
    <3>. QED  BY <3>3 DEF Evidence
  <2>2. CASE ~ \E f \in Features : x.feature = Confirmed(f)
    BY <2>2 DEF Snapshots
  <2>. QED  BY <2>1, <2>2
<1>4. MarkOpenLayersUnconfirmed(x) = [x EXCEPT !.session = session, !.feature = feature]
  BY DEF MarkOpenLayersUnconfirmed
<1> HIDE DEF session, feature
<1>. QED  BY <1>1, <1>2, <1>3, <1>4, Zenon DEF Snapshots

\* Applying a lifecycle transition yields a snapshot, and does this to the
\* session layer: an open confirms it open, a close confirms it closed, a lost
\* transport leaves no confirmed open session, and the other transitions a
\* command connection applies keep it (apply_connection_lifecycle_transition).
LEMMA ApplySnapshot ==
  ASSUME NEW s \in Snapshots, NEW t \in Transitions
  PROVE  /\ Apply(s, t) \in Snapshots
         /\ t = "PtpSessionOpened" => Apply(s, t).session = Confirmed("Open")
         /\ t = "PtpSessionClosed" => Apply(s, t).session # Confirmed("Open")
         /\ t \in {"ProxyTransportLost", "ProxyTransportClosedLocally"}
              => Apply(s, t).session # Confirmed("Open")
         /\ t \in {"CommandListenerReady", "ProxyTransportAccepted",
                   "CommandInitialized", "FeatureExited"} \cup Features
              => Apply(s, t).session = s.session
<1> USE DEF Features
<1>1. CASE t \in {"ProxyTransportLost", "ProxyTransportClosedLocally"}
  <2> DEFINE end == IF t = "ProxyTransportLost" THEN "Lost" ELSE "LocallyClosed"
             x == [s EXCEPT !.transport = Confirmed(end)]
  <2>1. x \in Snapshots
    BY DEF Snapshots, Evidence
  <2>2. Apply(s, t) = MarkOpenLayersUnconfirmed(x)
    BY <1>1 DEF Apply
  <2>. QED  BY <1>1, <2>1, <2>2, MarkUnconfirmed
<1>2. CASE t \in {"NetworkPersonaReady", "NetworkPersonaExitRequested",
                  "NetworkPersonaExitConfirmed"}
  <2>1. PICK e \in Evidence({"Ready", "Exited"}) : Apply(s, t) = [s EXCEPT !.persona = e]
    BY <1>2, Zenon DEF Apply, Evidence
  <2>. QED  BY <1>2, <2>1 DEF Snapshots
<1>3. CASE t = "CommandListenerReady"
  <2>1. Apply(s, t) = [s EXCEPT !.listener = Confirmed("Ready")]
    BY <1>3 DEF Apply
  <2>. QED  BY <1>3, <2>1 DEF Snapshots, Evidence
<1>4. CASE t = "ProxyTransportAccepted"
  <2>1. Apply(s, t) = [s EXCEPT !.transport = Confirmed("Accepted")]
    BY <1>4 DEF Apply
  <2>. QED  BY <1>4, <2>1 DEF Snapshots, Evidence
<1>5. CASE t = "CommandInitialized"
  <2>1. Apply(s, t) = [s EXCEPT !.listener = Confirmed("Ready"),
                                !.transport = Confirmed("CommandInitialized")]
    BY <1>5 DEF Apply
  <2>. QED  BY <1>5, <2>1, Zenon DEF Snapshots, Evidence
<1>6. CASE t = "PtpSessionOpened"
  <2>1. Apply(s, t) = [s EXCEPT !.session = Confirmed("Open")]
    BY <1>6 DEF Apply
  <2>. QED  BY <1>6, <2>1 DEF Snapshots, Evidence
<1>7. CASE t = "PtpSessionClosed"
  <2>1. Apply(s, t) = [s EXCEPT !.session = Confirmed("Closed"),
                                !.feature = Confirmed("Inactive")]
    BY <1>7 DEF Apply
  <2>2. Confirmed("Open") # Confirmed("Closed")
    BY DEF Confirmed
  <2>. QED  BY <1>7, <2>1, <2>2, Zenon DEF Snapshots, Evidence
<1>8. CASE t \in {"FeatureExited", "LiveView", "ImageTransfer"}
  <2>1. PICK f \in {"Inactive"} \cup Features : Apply(s, t) = [s EXCEPT !.feature = Confirmed(f)]
    BY <1>8 DEF Apply
  <2>. QED  BY <1>8, <2>1 DEF Snapshots, Evidence
<1>. QED  BY <1>1, <1>2, <1>3, <1>4, <1>5, <1>6, <1>7, <1>8, Zenon DEF Transitions

-----------------------------------------------------------------------------
\* One recorded transition keeps the trackers well-formed, leaves idle
\* connections alone and moves the confirmed session claim with the owner.
LEMMA RecordedClaim ==
  ASSUME TypeOK, IdleIsFresh, OwnerIsLive, OpenClaimIsOwners,
         NEW c \in Conns, pc[c] = "loop", Active(c),
         NEW t \in SessionTransitions, RecordTransition(c, t)
  PROVE  /\ snap' \in [Conns -> Snapshots]
         /\ owner' \in Conns \cup {NoConn}
         /\ t = "PtpSessionOpened" => owner' = c
         /\ t = "PtpSessionClosed" => owner' = NoConn
         /\ t \notin {"PtpSessionOpened", "PtpSessionClosed"} => owner' = owner
         /\ \A x \in Conns : pc[x] = "idle" => snap'[x] = snap[x]
         /\ \A x \in Conns : Active(x) =>
              /\ snap'[x].session = Confirmed("Open") => owner' = x \/ pc[x] = "released"
              /\ owner' = x => snap'[x].session = Confirmed("Open")
<1> DEFINE tracker == TrackerFor(c)
           recorded == Apply(snap[tracker], t)
<1>1. /\ tracker \in Conns
      /\ pc[tracker] # "idle"
      /\ \A x \in Conns : owner = x /\ Active(x) => tracker = x
  BY ConnAssumption DEF TrackerFor, TypeOK, OwnerIsLive
<1>2. t \in Transitions /\ "PtpSessionClosed" \in Transitions
  BY DEF SessionTransitions, Transitions
<1>3. \A x \in Conns : snap[x] \in Snapshots
  BY DEF TypeOK
<1>4. /\ recorded \in Snapshots
      /\ Apply(recorded, "PtpSessionClosed") \in Snapshots
      /\ Apply(recorded, "PtpSessionClosed").session # Confirmed("Open")
      /\ Apply(snap[c], t) \in Snapshots
  BY <1>1, <1>2, <1>3, ApplySnapshot
<1>5. /\ owner' = CASE t = "PtpSessionOpened" -> c
                    [] t = "PtpSessionClosed" -> NoConn
                    [] OTHER -> owner
      /\ snap' = [x \in Conns |->
                    IF x = c THEN Apply(snap[c], t)
                    ELSE IF x # tracker THEN snap[x]
                    ELSE IF t = "PtpSessionOpened"
                         THEN Apply(recorded, "PtpSessionClosed") ELSE recorded]
  BY DEF RecordTransition
<1> HIDE DEF tracker, recorded
<1>6. /\ snap' \in [Conns -> Snapshots]
      /\ \A x \in Conns : pc[x] = "idle" => snap'[x] = snap[x]
  BY <1>1, <1>3, <1>4, <1>5
<1>7. /\ t = "PtpSessionOpened" => owner' = c
      /\ t = "PtpSessionClosed" => owner' = NoConn
      /\ t \notin {"PtpSessionOpened", "PtpSessionClosed"} => owner' = owner
  BY <1>5
<1>8. ASSUME NEW x \in Conns, Active(x)
      PROVE  /\ snap'[x].session = Confirmed("Open") => owner' = x \/ pc[x] = "released"
             /\ owner' = x => snap'[x].session = Confirmed("Open")
  <2>1. /\ snap[x].session = Confirmed("Open") => owner = x \/ pc[x] = "released"
        /\ owner = x => snap[x].session = Confirmed("Open") /\ tracker = x
    BY <1>1, <1>8 DEF OpenClaimIsOwners
  <2>2. CASE t = "PtpSessionOpened"
    <3>1. Apply(snap[c], t).session = Confirmed("Open")
      BY <1>2, <1>3, <2>2, ApplySnapshot
    <3>. QED  BY <1>4, <1>5, <1>7, <2>1, <2>2, <3>1
  <2>3. CASE t = "PtpSessionClosed"
    <3>1. /\ Apply(snap[c], t).session # Confirmed("Open")
          /\ recorded.session # Confirmed("Open")
      BY <1>1, <1>2, <1>3, <2>3, ApplySnapshot DEF recorded
    <3>. QED  BY <1>5, <1>7, <2>1, <2>3, <3>1, ConnAssumption
  <2>4. CASE t \in {"FeatureExited"} \cup Features
    <3>1. /\ Apply(snap[c], t).session = snap[c].session
          /\ recorded.session = snap[tracker].session
      BY <1>1, <1>2, <1>3, <2>4, ApplySnapshot DEF recorded
    <3>2. t \notin {"PtpSessionOpened", "PtpSessionClosed"}
      BY <2>4 DEF Features
    <3>3. snap'[x].session = snap[x].session
      BY <1>5, <3>1, <3>2
    <3>. QED  BY <1>7, <2>1, <3>2, <3>3
  <2>. QED  BY <2>2, <2>3, <2>4 DEF SessionTransitions
<1>9. owner' \in Conns \cup {NoConn}
  BY <1>7 DEF TypeOK
<1>. QED  BY <1>6, <1>7, <1>8, <1>9

\* Finishing a lifecycle entry keeps the registry well-formed: the finished
\* connection is no longer active, no other connection loses or changes its
\* entry unless it is a completed one, and the queue holds completed connections.
LEMMA FinishedEntry ==
  ASSUME TypeOK, HandlersAreActive, NEW c \in Conns, c \in Handlers,
         NEW why \in Reasons, FinishLifecycle(c, why)
  PROVE  /\ entries' \subseteq Conns
         /\ terminal' \in [Conns -> Reasons \cup {"none"}]
         /\ snap' \in [Conns -> Snapshots]
         /\ completed' \in Seq(Conns)
         /\ ~ (c \in entries' /\ terminal'[c] = "none")
         /\ \A x \in Conns \ {c} :
              /\ snap'[x] = snap[x] /\ terminal'[x] = terminal[x]
              /\ x \in entries' => x \in entries
              /\ pc[x] # "done" /\ x \in entries => x \in entries'
         /\ \A i \in 1..Len(completed') :
              completed'[i] = c \/ pc[completed'[i]] = "done"
<1> DEFINE queue == Append(completed, c)
<1>1. Active(c)
  BY DEF HandlersAreActive
<1>2. /\ snap' = [snap EXCEPT ![c] = Apply(@, TransitionOf(why))]
      /\ terminal' = [terminal EXCEPT ![c] = why]
      /\ completed' = IF Expires(queue) THEN Tail(queue) ELSE queue
      /\ entries' = IF Expires(queue) THEN entries \ {Head(queue)} ELSE entries
  BY <1>1 DEF FinishLifecycle
<1>3. TransitionOf(why) \in Transitions
  BY DEF TransitionOf, Transitions
<1>4. Apply(snap[c], TransitionOf(why)) \in Snapshots
  BY <1>3, ApplySnapshot DEF TypeOK
<1>5. /\ queue \in Seq(Conns) /\ queue # <<>>
      /\ \A i \in 1..Len(queue) : queue[i] = c \/ pc[queue[i]] = "done"
      /\ Head(queue) = c \/ pc[Head(queue)] = "done"
  BY DEF TypeOK, HandlersAreActive
<1>6. why # "none"
  BY DEF Reasons
<1> HIDE DEF queue
<1>7. /\ completed' \in Seq(Conns)
      /\ \A i \in 1..Len(completed') : completed'[i] = c \/ pc[completed'[i]] = "done"
  <2>1. Tail(queue) \in Seq(Conns) /\ \A i \in 1..Len(Tail(queue)) :
          Tail(queue)[i] = queue[i + 1] /\ i + 1 \in 1..Len(queue)
    BY <1>5
  <2>. QED  BY <1>2, <1>5, <2>1
<1>8. /\ entries' \subseteq Conns
      /\ terminal' \in [Conns -> Reasons \cup {"none"}]
      /\ snap' \in [Conns -> Snapshots]
  BY <1>2, <1>4 DEF TypeOK
<1>9. terminal'[c] # "none"
  BY <1>2, <1>6 DEF TypeOK
<1>10. \A x \in Conns \ {c} :
         /\ snap'[x] = snap[x] /\ terminal'[x] = terminal[x]
         /\ x \in entries' => x \in entries
         /\ pc[x] # "done" /\ x \in entries => x \in entries'
  BY <1>2, <1>5, Zenon DEF TypeOK
<1>. QED  BY <1>7, <1>8, <1>9, <1>10

-----------------------------------------------------------------------------
\* The effect of a dispatched operation on the shared session preserves the
\* invariant, whatever the handler does with the reply.
LEMMA EffectInvariant ==
  ASSUME IInv, NEW c \in Conns, pc[c] = "loop", NEW op \in Ops, Effect(c, op) \/ NoEffect
  PROVE  /\ session_open' \in BOOLEAN /\ active_mode' \in Modes
         /\ owner' \in Conns \cup {NoConn} /\ opener' \in Conns \cup {NoConn}
         /\ snap' \in [Conns -> Snapshots]
         /\ owner' # NoConn => owner' = c \/ owner' = owner
         /\ owner' # NoConn => opener' = owner'
         /\ running /\ ~ patched => (session_open' <=> owner' # NoConn)
         /\ \A x \in Conns : pc[x] = "idle" => snap'[x] = snap[x]
         /\ \A x \in Conns : Active(x) =>
              /\ snap'[x].session = Confirmed("Open") => owner' = x \/ pc[x] = "released"
              /\ owner' = x => snap'[x].session = Confirmed("Open")
<1> USE DEF IInv
<1>1. Active(c)
  BY DEF HandlersAreActive, Handlers
<1>2. CASE NoEffect
  BY <1>2, Zenon DEF NoEffect, engineVars, TypeOK, OwnerOpened, OpenIffOwned, OpenClaimIsOwners
<1>3. CASE OpenSession(c)
  <2>1. "PtpSessionOpened" \in SessionTransitions
    BY DEF SessionTransitions
  <2>. QED  BY <1>1, <1>3, <2>1, RecordedClaim, ConnAssumption, Zenon DEF OpenSession, TypeOK, Modes
<1>4. CASE CloseSession(c)
  <2>1. "PtpSessionClosed" \in SessionTransitions
    BY DEF SessionTransitions
  <2>. QED  BY <1>1, <1>4, <2>1, RecordedClaim, ConnAssumption, Zenon
               DEF CloseSession, TypeOK, Modes
<1>5. CASE op \in Modes /\ SetProp(c, op)
  <2> DEFINE t == IF FeatureOf(op) = "none" THEN "FeatureExited" ELSE FeatureOf(op)
  <2>1. /\ t \in SessionTransitions
        /\ t \notin {"PtpSessionOpened", "PtpSessionClosed"}
    BY DEF SessionTransitions, FeatureOf, Features
  <2>2. CASE UNCHANGED <<snap, owner>>
    BY <1>5, <2>2, Zenon DEF SetProp, TypeOK, OwnerOpened, OpenIffOwned, OpenClaimIsOwners
  <2>3. CASE RecordTransition(c, t)
    <3> HIDE DEF t
    <3>. QED  BY <1>1, <1>5, <2>1, <2>3, RecordedClaim, Zenon
                 DEF SetProp, TypeOK, OwnerOpened, OpenIffOwned
  <2>. QED  BY <1>5, <2>2, <2>3, Zenon DEF SetProp
<1>6. Effect(c, op) => OpenSession(c) \/ CloseSession(c) \/ (op \in Modes /\ SetProp(c, op)) \/ NoEffect
  BY DEF Effect, Ops, Modes, Features
<1>. QED  BY <1>2, <1>3, <1>4, <1>5, <1>6, Zenon

\* A handler that goes away with its lifecycle finished preserves the invariant,
\* provided it does not own the session or shutdown is under way.
LEMMA DropInvariant ==
  ASSUME IInv, NEW c \in Conns, c \in Handlers, NEW why \in Reasons,
         DropTask(c), FinishLifecycle(c, why),
         UNCHANGED <<engineVars, running, patched, opener>>,
         owner # c \/ ~ running
  PROVE  IInv'
<1> USE DEF IInv, engineVars
<1> DEFINE active(x) == x \in entries' /\ terminal'[x] = "none"
<1>1. /\ entries' \subseteq Conns
      /\ terminal' \in [Conns -> Reasons \cup {"none"}]
      /\ snap' \in [Conns -> Snapshots]
      /\ completed' \in Seq(Conns)
      /\ ~ active(c)
      /\ \A x \in Conns \ {c} :
           /\ snap'[x] = snap[x] /\ terminal'[x] = terminal[x]
           /\ x \in entries' => x \in entries
           /\ pc[x] # "done" /\ x \in entries => x \in entries'
      /\ \A i \in 1..Len(completed') : completed'[i] = c \/ pc[completed'[i]] = "done"
  BY FinishedEntry, Zenon
<1>2. /\ pc' = [pc EXCEPT ![c] = "done"]
      /\ reply' = [reply EXCEPT ![c] = "idle"]
      /\ close_acked' = [close_acked EXCEPT ![c] = FALSE]
      /\ reason' = [reason EXCEPT ![c] = "none"]
  BY DEF DropTask
<1>3. TypeOK'
  BY <1>1, <1>2, Zenon DEF TypeOK, Replies
<1>4. HandlersAreActive'
  <2>1. \A x \in Conns : pc'[x] \notin {"idle", "done"} => active(x)
    BY <1>1, <1>2 DEF HandlersAreActive, Handlers, Active, TypeOK
  <2>2. \A x \in Conns : pc'[x] = "done" => ~ active(x)
    BY <1>1, <1>2 DEF HandlersAreActive, Active, TypeOK
  <2>3. \A i \in 1..Len(completed') : pc'[completed'[i]] = "done"
    BY <1>1, <1>2 DEF TypeOK
  <2>. QED  BY <2>1, <2>2, <2>3, Zenon DEF HandlersAreActive, Handlers, Active
<1>5. IdleIsFresh' /\ EndedHasReason'
  BY <1>1, <1>2 DEF IdleIsFresh, EndedHasReason, TypeOK
<1>6. OwnerIsLive' /\ OwnerOpened' /\ OpenIffOwned'
  BY <1>2, Zenon DEF OwnerIsLive, OwnerOpened, OpenIffOwned, TypeOK
<1>7. OpenClaimIsOwners'
  BY <1>1, <1>2 DEF OpenClaimIsOwners, Active, TypeOK
<1>. QED  BY <1>3, <1>4, <1>5, <1>6, <1>7

\* A step of a handler that stays within its loop, or ends it, without touching
\* the registry or the session preserves the invariant.
LEMMA MoveInvariant ==
  ASSUME IInv, NEW c \in Conns, pc[c] \in {"handshake", "loop", "reply"},
         NEW to \in {"loop", "reply", "ended"}, pc' = [pc EXCEPT ![c] = to],
         UNCHANGED <<engineVars, lifecycleVars, running, patched, opener>>,
         reply' \in [Conns -> Replies], close_acked' \in [Conns -> BOOLEAN],
         reason' \in [Conns -> Reasons \cup {"none"}],
         \A x \in Conns : pc'[x] \in {"ended", "released"} => reason'[x] \in Reasons
  PROVE  IInv'
<1> USE DEF IInv, engineVars, lifecycleVars
<1>1. TypeOK' /\ EndedHasReason'
  BY Zenon DEF TypeOK, EndedHasReason
<1>2. HandlersAreActive'
  BY DEF HandlersAreActive, Handlers, Active, TypeOK
<1>3. IdleIsFresh' /\ OwnerIsLive' /\ OwnerOpened' /\ OpenIffOwned'
  BY Zenon DEF IdleIsFresh, OwnerIsLive, OwnerOpened, OpenIffOwned, TypeOK
<1>4. OpenClaimIsOwners'
  BY Zenon DEF OpenClaimIsOwners, Active, TypeOK
<1>. QED  BY <1>1, <1>2, <1>3, <1>4, Zenon

\* An operation and its effect on the session keep the invariant.
LEMMA DispatchInvariant ==
  ASSUME IInv, NEW c \in Conns, NEW op \in Ops, Dispatch(c, op)
  PROVE  IInv'
<1> USE DEF IInv
<1>1. /\ pc[c] = "loop" /\ pc' = [pc EXCEPT ![c] = "reply"]
      /\ Effect(c, op) \/ NoEffect
      /\ UNCHANGED <<reason, entries, terminal, completed, running, patched>>
  BY Zenon DEF Dispatch
<1>2. /\ session_open' \in BOOLEAN /\ active_mode' \in Modes
      /\ owner' \in Conns \cup {NoConn} /\ opener' \in Conns \cup {NoConn}
      /\ snap' \in [Conns -> Snapshots]
      /\ owner' # NoConn => owner' = c \/ owner' = owner
      /\ owner' # NoConn => opener' = owner'
      /\ running /\ ~ patched => (session_open' <=> owner' # NoConn)
      /\ \A x \in Conns : pc[x] = "idle" => snap'[x] = snap[x]
      /\ \A x \in Conns : Active(x) =>
           /\ snap'[x].session = Confirmed("Open") => owner' = x \/ pc[x] = "released"
           /\ owner' = x => snap'[x].session = Confirmed("Open")
  BY <1>1, EffectInvariant, Zenon
<1>3. reply' \in [Conns -> Replies] /\ close_acked' \in [Conns -> BOOLEAN]
  BY Zenon DEF Dispatch, TypeOK, Replies
<1>4. TypeOK'
  BY <1>1, <1>2, <1>3, Zenon DEF TypeOK
<1>5. HandlersAreActive' /\ EndedHasReason'
  BY <1>1 DEF HandlersAreActive, EndedHasReason, Handlers, Active, TypeOK
<1>6. IdleIsFresh'
  BY <1>1, <1>2, Zenon DEF IdleIsFresh, TypeOK
<1>7. OwnerIsLive' /\ OwnerOpened' /\ OpenIffOwned'
  BY <1>1, <1>2, Zenon DEF OwnerIsLive, OpenIffOwned, OwnerOpened, TypeOK
<1>8. OpenClaimIsOwners'
  BY <1>1, <1>2, Zenon DEF OpenClaimIsOwners, Active, TypeOK
<1>. QED  BY <1>4, <1>5, <1>6, <1>7, <1>8

\* Every step of one handler preserves the invariant.
LEMMA StepInvariant ==
  ASSUME IInv, NEW c \in Conns, Step(c)
  PROVE  IInv'
<1> USE DEF IInv
<1>1. CASE Accept(c)
  <2> DEFINE first == Apply(snap[c], "CommandListenerReady")
             new == Apply(first, "ProxyTransportAccepted")
  <2>1. {"CommandListenerReady", "ProxyTransportAccepted"} \subseteq Transitions
    BY DEF Transitions
  <2>2. snap[c] \in Snapshots
    BY Zenon DEF TypeOK
  <2>3. first \in Snapshots /\ first.session = snap[c].session
    BY <2>1, <2>2, ApplySnapshot, Zenon
  <2>4. new \in Snapshots /\ new.session = first.session
    BY <2>1, <2>3, ApplySnapshot, Zenon
  <2>5. /\ pc[c] = "idle" /\ pc' = [pc EXCEPT ![c] = "handshake"]
        /\ snap' = [snap EXCEPT ![c] = new] /\ entries' = entries \cup {c}
        /\ UNCHANGED <<engineVars, reply, close_acked, reason, terminal, completed,
                       running, patched, opener>>
    BY <1>1, Zenon DEF Accept
  <2> HIDE DEF first, new
  <2> USE DEF engineVars
  <2>6. TypeOK' /\ EndedHasReason'
    BY <2>4, <2>5, Zenon DEF TypeOK, EndedHasReason
  <2>7. HandlersAreActive'
    BY <2>5 DEF HandlersAreActive, IdleIsFresh, Handlers, Active, TypeOK
  <2>8. IdleIsFresh' /\ OwnerIsLive' /\ OwnerOpened' /\ OpenIffOwned'
    BY <2>5, Zenon DEF IdleIsFresh, OwnerIsLive, OwnerOpened, OpenIffOwned, TypeOK
  <2>9. OpenClaimIsOwners'
    BY <2>3, <2>4, <2>5, ConnAssumption
       DEF OpenClaimIsOwners, IdleIsFresh, OwnerIsLive, Active, TypeOK
  <2>. QED  BY <2>6, <2>7, <2>8, <2>9
<1>2. CASE Initialize(c)
  <2> DEFINE new == Apply(snap[c], "CommandInitialized")
  <2>1. new \in Snapshots /\ new.session = snap[c].session
    BY ApplySnapshot, Zenon DEF TypeOK, Transitions
  <2>2. /\ pc[c] = "handshake" /\ pc' = [pc EXCEPT ![c] = "loop"]
        /\ snap' = [snap EXCEPT ![c] = new]
        /\ UNCHANGED <<engineVars, reply, close_acked, reason, entries, terminal,
                       completed, running, patched, opener>>
    BY <1>2, Zenon DEF Initialize
  <2> HIDE DEF new
  <2> USE DEF engineVars
  <2>3. TypeOK' /\ EndedHasReason'
    BY <2>1, <2>2, Zenon DEF TypeOK, EndedHasReason
  <2>4. HandlersAreActive'
    BY <2>2 DEF HandlersAreActive, Handlers, Active, TypeOK
  <2>5. IdleIsFresh' /\ OwnerIsLive' /\ OwnerOpened' /\ OpenIffOwned'
    BY <2>2, Zenon DEF IdleIsFresh, OwnerIsLive, OwnerOpened, OpenIffOwned, TypeOK
  <2>6. OpenClaimIsOwners'
    BY <2>1, <2>2, Zenon DEF OpenClaimIsOwners, Active, TypeOK
  <2>. QED  BY <2>3, <2>4, <2>5, <2>6
<1>3. CASE RejectInit(c) \/ PeerClosed(c) \/ LoopBroken(c)
  <2>1. PICK why \in Reasons : End(c, why)
    BY <1>3, Zenon DEF RejectInit, PeerClosed, LoopBroken, Reasons
  <2>2. /\ pc[c] \in {"handshake", "loop"}
        /\ UNCHANGED <<engineVars, reply, close_acked, lifecycleVars, running, patched, opener>>
    BY <1>3, Zenon DEF RejectInit, PeerClosed, LoopBroken
  <2>3. /\ reply' \in [Conns -> Replies] /\ close_acked' \in [Conns -> BOOLEAN]
        /\ reason' \in [Conns -> Reasons \cup {"none"}]
        /\ \A x \in Conns : pc'[x] \in {"ended", "released"} => reason'[x] \in Reasons
    BY <2>1, <2>2, Zenon DEF End, TypeOK, EndedHasReason
  <2>4. pc' = [pc EXCEPT ![c] = "ended"]
    BY <2>1 DEF End
  <2> HIDE DEF IInv
  <2>. QED  BY <2>2, <2>3, <2>4, MoveInvariant, Zenon
<1>4. CASE \E op \in Ops : Dispatch(c, op)
  BY <1>4, DispatchInvariant, Zenon
<1>5. CASE Replied(c)
  BY <1>5, MoveInvariant, Zenon DEF Replied, TypeOK, EndedHasReason, Replies
<1>6. CASE ReplyEnds(c)
  <2>1. PICK why \in Reasons : End(c, why)
    BY <1>6 DEF ReplyEnds, Reasons
  <2>. QED  BY <1>6, <2>1, MoveInvariant, Zenon DEF ReplyEnds, End, TypeOK, EndedHasReason, Replies
<1>7. CASE Teardown(c)
  <2> USE DEF engineVars, lifecycleVars
  <2>1. /\ pc[c] = "ended" /\ pc' = [pc EXCEPT ![c] = "released"]
        /\ IF owner = c THEN ~ session_open' /\ active_mode' = "undetected" /\ owner' = NoConn
           ELSE UNCHANGED engineVars
        /\ session_open' \in BOOLEAN
        /\ UNCHANGED <<reply, close_acked, reason, lifecycleVars, running, patched, opener>>
    BY <1>7, Zenon DEF Teardown, TypeOK
  <2>2. TypeOK' /\ EndedHasReason'
    BY <2>1, Zenon DEF TypeOK, EndedHasReason, Modes
  <2>3. HandlersAreActive'
    BY <2>1 DEF HandlersAreActive, Handlers, Active, TypeOK
  <2>4. IdleIsFresh' /\ OwnerIsLive' /\ OwnerOpened' /\ OpenIffOwned'
    BY <2>1, Zenon DEF IdleIsFresh, OwnerIsLive, OwnerOpened, OpenIffOwned, TypeOK
  <2>5. OpenClaimIsOwners'
    BY <2>1, ConnAssumption, Zenon DEF OpenClaimIsOwners, Active, TypeOK
  <2>. QED  BY <2>2, <2>3, <2>4, <2>5
<1>8. CASE Finish(c)
  <2>1. c \in Handlers /\ reason[c] \in Reasons /\ owner # c
    BY <1>8, ConnAssumption, Zenon DEF Finish, Handlers, EndedHasReason, OwnerIsLive
  <2>. QED  BY <1>8, <2>1, DropInvariant, Zenon DEF Finish
<1>9. CASE Abort(c)
  BY <1>9, DropInvariant, Zenon DEF Abort, Reasons
<1>. QED  BY <1>1, <1>2, <1>3, <1>4, <1>5, <1>6, <1>7, <1>8, <1>9, Zenon DEF Step

-----------------------------------------------------------------------------
\* The inductive invariant holds in every behaviour of the service.
THEOREM Invariance == Spec => []IInv
<1>1. Init => IInv
  <2> SUFFICES ASSUME Init PROVE IInv
    OBVIOUS
  <2>1. InitialSnapshot \in Snapshots /\ InitialSnapshot.session # Confirmed("Open")
    BY Zenon DEF InitialSnapshot, Snapshots, Evidence, Unknown, Confirmed
  <2>2. TypeOK
    <3>1. snap \in [Conns -> Snapshots] /\ completed \in Seq(Conns) /\ entries \subseteq Conns
      BY <2>1 DEF Init
    <3>2. session_open \in BOOLEAN /\ active_mode \in Modes /\ reply \in [Conns -> Replies]
      BY Zenon DEF Init, Modes, Replies
    <3>. QED  BY <3>1, <3>2, Zenon DEF Init, TypeOK
  <2>3. EndedHasReason
    BY DEF Init, EndedHasReason
  <2>4. HandlersAreActive /\ IdleIsFresh
    BY <2>1 DEF Init, HandlersAreActive, IdleIsFresh, Handlers, Active
  <2>5. OwnerIsLive /\ OwnerOpened /\ OpenIffOwned
    BY DEF Init, OwnerIsLive, OwnerOpened, OpenIffOwned
  <2>6. OpenClaimIsOwners
    BY Zenon DEF Init, OpenClaimIsOwners, Active
  <2>. QED  BY <2>2, <2>3, <2>4, <2>5, <2>6 DEF IInv
<1>2. IInv /\ [Next]_vars => IInv'
  <2> SUFFICES ASSUME IInv, [Next]_vars PROVE IInv'
    OBVIOUS
  <2> USE DEF IInv
  <2>1. CASE \E c \in Conns : Step(c)
    BY <2>1, StepInvariant
  <2>2. CASE Overlay
    <3> USE <2>2 DEF Overlay, handlerVars, lifecycleVars
    <3>1. TypeOK' /\ EndedHasReason'
      BY Zenon DEF TypeOK, EndedHasReason, Modes
    <3>2. HandlersAreActive' /\ IdleIsFresh'
      BY Zenon DEF HandlersAreActive, IdleIsFresh, Handlers, Active
    <3>3. OwnerIsLive' /\ OwnerOpened' /\ OpenIffOwned'
      BY Zenon DEF OwnerIsLive, OwnerOpened, OpenIffOwned
    <3>4. OpenClaimIsOwners'
      BY Zenon DEF OpenClaimIsOwners, Active
    <3>. QED  BY <3>1, <3>2, <3>3, <3>4, Zenon
  <2>3. CASE Shutdown
    <3> USE <2>3 DEF Shutdown, engineVars, handlerVars, lifecycleVars
    <3>1. TypeOK' /\ EndedHasReason'
      BY Zenon DEF TypeOK, EndedHasReason
    <3>2. HandlersAreActive' /\ IdleIsFresh'
      BY Zenon DEF HandlersAreActive, IdleIsFresh, Handlers, Active
    <3>3. OwnerIsLive' /\ OwnerOpened' /\ OpenIffOwned'
      BY Zenon DEF OwnerIsLive, OwnerOpened, OpenIffOwned
    <3>4. OpenClaimIsOwners'
      BY Zenon DEF OpenClaimIsOwners, Active
    <3>. QED  BY <3>1, <3>2, <3>3, <3>4, Zenon
  <2>4. CASE UNCHANGED vars
    <3> USE <2>4 DEF vars, engineVars, handlerVars, lifecycleVars
    <3>1. TypeOK' /\ EndedHasReason'
      BY Zenon DEF TypeOK, EndedHasReason
    <3>2. HandlersAreActive' /\ IdleIsFresh'
      BY Zenon DEF HandlersAreActive, IdleIsFresh, Handlers, Active
    <3>3. OwnerIsLive' /\ OwnerOpened' /\ OpenIffOwned'
      BY Zenon DEF OwnerIsLive, OwnerOpened, OpenIffOwned
    <3>4. OpenClaimIsOwners'
      BY Zenon DEF OpenClaimIsOwners, Active
    <3>. QED  BY <3>1, <3>2, <3>3, <3>4, Zenon
  <2>. QED  BY <2>1, <2>2, <2>3, <2>4, Zenon DEF Next
<1>. QED  BY <1>1, <1>2, PTL DEF Spec

\* Type correctness.
THEOREM TypeCorrect == Spec => []TypeOK
BY Invariance, PTL DEF IInv

\* An open session always belongs to a connection that still has its teardown
\* ahead of it, so no interleaving of handlers leaves the engine refusing every
\* later OpenSession.
THEOREM SessionHasLiveOwner == Spec => []OpenSessionHasLiveOwner
<1>1. IInv => OpenSessionHasLiveOwner
  BY Zenon DEF IInv, TypeOK, OpenSessionHasLiveOwner, OpenIffOwned, OwnerIsLive, HandlersAreActive,
     Handlers
<1>. QED  BY <1>1, Invariance, PTL

\* Exactly the session's owner claims a confirmed open session.
THEOREM ClaimIsUnique == Spec => []OpenClaimIsOwners
BY Invariance, PTL DEF IInv

\* Teardown never closes a session another connection opened in its place
\* (docs/INTEGRATION.md 9.8).
THEOREM ReplacementIsSpared == Spec => TeardownSparesReplacement
<1>1. IInv /\ [Next]_vars =>
        [\A c \in Conns :
           pc[c] = "ended" /\ pc'[c] = "released" /\ session_open /\ ~ session_open'
             => opener = c]_vars
  <2> SUFFICES ASSUME IInv, Next, NEW c \in Conns, pc[c] = "ended", pc'[c] = "released",
                      session_open, ~ session_open'
               PROVE  opener = c
    OBVIOUS
  <2>1. PICK d \in Conns : Step(d)
    BY Zenon DEF Next, Overlay, Shutdown, handlerVars
  <2>2. d = c
    BY <2>1, Zenon
       DEF IInv, TypeOK, Step, Accept, Initialize, RejectInit, Dispatch, Replied, ReplyEnds,
       PeerClosed, LoopBroken, Teardown, Finish, Abort, End, DropTask
  <2>3. Teardown(c)
    BY <2>1, <2>2, Zenon
       DEF IInv, TypeOK, Step, Accept, Initialize, RejectInit, Dispatch, Replied, ReplyEnds,
       PeerClosed, LoopBroken, Finish, Abort, End, DropTask
  <2>4. owner = c
    BY <2>3, Zenon DEF Teardown, engineVars
  <2>. QED  BY <2>4, ConnAssumption, Zenon DEF IInv, OwnerOpened
<1>. QED  BY <1>1, Invariance, PTL DEF Spec, TeardownSparesReplacement

-----------------------------------------------------------------------------
\* The connections whose handler is gone.
Done == {c \in Conns : pc[c] = "done"}

\* The completed queue names each connection once, names exactly the entries that
\* have ended, and is as long as the limit and the number of ended handlers say.
Retained ==
  /\ IsFiniteSet(Done)
  /\ Len(completed) = IF Cardinality(Done) < MaxCompleted THEN Cardinality(Done) ELSE MaxCompleted
  /\ \A i, j \in 1..Len(completed) : completed[i] = completed[j] => i = j
  /\ \A c \in Conns : (c \in entries /\ terminal[c] # "none")
                        <=> (\E i \in 1..Len(completed) : completed[i] = c)

\* A full queue after c has ended.
Shifted(q, c) == Tail(Append(q, c))

\* What expiry does to a queue without repetitions: it forgets its head and only that.
LEMMA ExpiryForgetsHead ==
  ASSUME NEW q \in Seq(Conns), NEW c \in Conns, Len(q) >= 1,
         \A i, j \in 1..Len(q) : q[i] = q[j] => i = j,
         \A i \in 1..Len(q) : q[i] # c
  PROVE  /\ Shifted(q, c) \in Seq(Conns) /\ Len(Shifted(q, c)) = Len(q)
         /\ Head(Append(q, c)) = q[1]
         /\ \A i, j \in 1..Len(q) : Shifted(q, c)[i] = Shifted(q, c)[j] => i = j
         /\ \A x \in Conns : (\E i \in 1..Len(q) : Shifted(q, c)[i] = x)
                               <=> x = c \/ (x # q[1] /\ \E i \in 1..Len(q) : q[i] = x)
<1> DEFINE t == Shifted(q, c)
<1>1. /\ Append(q, c) \in Seq(Conns) /\ Len(Append(q, c)) = Len(q) + 1
      /\ \A i \in 1..Len(q) : Append(q, c)[i] = q[i]
      /\ Append(q, c)[Len(q) + 1] = c
  OBVIOUS
<1>2. /\ t \in Seq(Conns) /\ Len(t) = Len(q)
      /\ \A i \in 1..Len(q) : t[i] = Append(q, c)[i + 1]
      /\ Head(Append(q, c)) = q[1]
  BY <1>1, SMTT(30) DEF Shifted
<1> HIDE DEF t
<1>3. /\ Len(q) \in Nat /\ t[Len(q)] = c
      /\ \A i \in 1..(Len(q) - 1) : t[i] = q[i + 1]
  BY <1>1, <1>2, SMTT(30)
<1>4. \A i, j \in 1..Len(t) : t[i] = t[j] => i = j
  <2>1. ASSUME NEW i \in 1..Len(q), NEW j \in 1..Len(q), t[i] = t[j], i < j
        PROVE  FALSE
    <3>1. t[i] = q[i + 1] /\ i + 1 \in 1..Len(q)
      BY <1>3, <2>1
    <3>2. CASE j = Len(q)
      BY <1>3, <2>1, <3>1, <3>2, Zenon
    <3>3. CASE j < Len(q)
      <4>1. t[j] = q[j + 1] /\ j + 1 \in 1..Len(q)
        BY <1>3, <2>1, <3>3
      <4>2. q[i + 1] = q[j + 1]
        BY <2>1, <3>1, <4>1, Zenon
      <4>3. i + 1 = j + 1
        BY <3>1, <4>1, <4>2, Zenon
      <4>. QED  BY <2>1, <4>3
    <3>. QED  BY <1>3, <3>2, <3>3
  <2>. QED  BY <1>2, <1>3, <2>1
<1>5. ASSUME NEW x \in Conns
      PROVE  (\E i \in 1..Len(t) : t[i] = x)
               <=> x = c \/ (x # q[1] /\ \E i \in 1..Len(q) : q[i] = x)
  <2>1. ASSUME NEW i \in 1..Len(t), t[i] = x
        PROVE  x = c \/ (x # q[1] /\ \E k \in 1..Len(q) : q[k] = x)
    <3>1. CASE i = Len(q)
      BY <1>3, <2>1, <3>1, Zenon
    <3>2. CASE i # Len(q)
      <4>1. i + 1 \in 2..Len(q) /\ x = q[i + 1]
        BY <1>2, <1>3, <2>1, <3>2
      <4>. QED  BY <4>1
    <3>. QED  BY <3>1, <3>2, Zenon
  <2>2. ASSUME x = c
        PROVE  \E i \in 1..Len(t) : t[i] = x
    BY <1>2, <1>3, <2>2
  <2>3. ASSUME x # q[1], NEW k \in 1..Len(q), q[k] = x
        PROVE  \E i \in 1..Len(t) : t[i] = x
    <3>1. k - 1 \in 1..(Len(q) - 1) /\ (k - 1) + 1 = k
      BY <1>3, <2>3
    <3>2. t[k - 1] = x
      BY <1>3, <2>3, <3>1, Zenon
    <3>3. k - 1 \in 1..Len(t)
      BY <1>2, <1>3, <3>1
    <3>. QED  BY <3>2, <3>3, Zenon
  <2>. QED  BY <2>1, <2>2, <2>3, Zenon
<1>. QED  BY <1>2, <1>4, <1>5, Zenon DEF t

\* A queue as long as the limit m and the number d of ended handlers say, when one more
\* handler ends: below the limit it grows with them, at the limit it stays.
LEMMA OneMoreEnds ==
  ASSUME NEW d \in Nat, NEW m \in Nat, NEW l \in Nat, l = IF d < m THEN d ELSE m
  PROVE  /\ l # m => l + 1 = IF d + 1 < m THEN d + 1 ELSE m
         /\ l = m => l = IF d + 1 < m THEN d + 1 ELSE m
<1>1. CASE d < m
  BY <1>1
<1>2. CASE ~ (d < m)
  BY <1>2
<1>. QED  BY <1>1, <1>2, Zenon

\* Finishing an entry keeps the registry exact, below the limit and at it.
LEMMA FinishRetains ==
  ASSUME IInv, Retained, NEW c \in Conns, c \in Handlers, NEW why \in Reasons,
         DropTask(c), FinishLifecycle(c, why)
  PROVE  Retained'
<1> DEFINE queue == Append(completed, c)
           n == Len(completed)
<1>1. Active(c) /\ c \notin Done
  BY Zenon DEF IInv, HandlersAreActive, Handlers, Done
<1>2. /\ terminal' = [terminal EXCEPT ![c] = why]
      /\ completed' = IF Expires(queue) THEN Tail(queue) ELSE queue
      /\ entries' = IF Expires(queue) THEN entries \ {Head(queue)} ELSE entries
  BY <1>1, Zenon DEF FinishLifecycle
<1>3. Done' = Done \cup {c}
  BY Zenon DEF DropTask, Done, IInv, TypeOK
<1>4. /\ IsFiniteSet(Done') /\ Cardinality(Done') = Cardinality(Done) + 1
      /\ Cardinality(Done) \in Nat
  BY <1>1, <1>3, FS_AddElement, FS_CardinalityType, Zenon DEF Retained
<1>5. /\ completed \in Seq(Conns) /\ n \in Nat
      /\ queue \in Seq(Conns) /\ Len(queue) = n + 1
      /\ \A i \in 1..n : queue[i] = completed[i]
      /\ queue[n + 1] = c
  BY SMTT(30) DEF IInv, TypeOK
<1>6. \A i \in 1..n : completed[i] # c
  BY <1>1, Zenon DEF Retained, Active
<1>7. Expires(queue) <=> n = MaxCompleted
  BY <1>4, <1>5, BoundAssumption DEF Expires, Retained
<1>8. why # "none" /\ terminal \in [Conns -> Reasons \cup {"none"}] /\ c \in entries
  BY <1>1, Zenon DEF Reasons, IInv, TypeOK, Active
<1> HIDE DEF queue, n
<1>9. LET d == Cardinality(Done) + 1
       IN  /\ n # MaxCompleted => n + 1 = IF d < MaxCompleted THEN d ELSE MaxCompleted
           /\ n = MaxCompleted => n = IF d < MaxCompleted THEN d ELSE MaxCompleted
  <2>1. n = IF Cardinality(Done) < MaxCompleted THEN Cardinality(Done) ELSE MaxCompleted
    BY Zenon DEF Retained, n
  <2>2. MaxCompleted \in Nat
    BY BoundAssumption
  <2>. QED  BY <1>4, <1>5, <2>1, <2>2, OneMoreEnds, Zenon
<1>10. CASE Expires(queue)
  <2>1. n >= 1 /\ n = MaxCompleted
    BY <1>7, <1>10, BoundAssumption
  <2>2. /\ completed' \in Seq(Conns) /\ Len(completed') = n
        /\ Head(queue) = completed[1]
        /\ \A i, j \in 1..Len(completed') : completed'[i] = completed'[j] => i = j
        /\ \A x \in Conns : (\E i \in 1..Len(completed') : completed'[i] = x)
             <=> x = c \/ (x # completed[1] /\ \E i \in 1..n : completed[i] = x)
    <3>1. completed' = Shifted(completed, c)
      BY <1>2, <1>10, Zenon DEF queue, Shifted
    <3>2. /\ Len(completed) >= 1
          /\ \A i, j \in 1..Len(completed) : completed[i] = completed[j] => i = j
          /\ \A i \in 1..Len(completed) : completed[i] # c
      BY <1>6, <2>1, Zenon DEF Retained, n
    <3>3. completed \in Seq(Conns)
      BY <1>5
    <3>4. /\ Shifted(completed, c) \in Seq(Conns)
          /\ Len(Shifted(completed, c)) = Len(completed)
          /\ Head(Append(completed, c)) = completed[1]
          /\ \A i, j \in 1..Len(completed) :
               Shifted(completed, c)[i] = Shifted(completed, c)[j] => i = j
          /\ \A x \in Conns :
               (\E i \in 1..Len(completed) : Shifted(completed, c)[i] = x)
                 <=> x = c \/ (x # completed[1] /\ \E i \in 1..Len(completed) : completed[i] = x)
      BY <3>2, <3>3, ExpiryForgetsHead, ZenonT(30)
    <3>. QED  BY <3>1, <3>4, Zenon DEF queue, n
  <2>3. Len(completed') = IF Cardinality(Done') < MaxCompleted
                          THEN Cardinality(Done') ELSE MaxCompleted
    BY <1>4, <1>9, <2>1, <2>2, Zenon
  <2>4. ASSUME NEW x \in Conns
        PROVE  (x \in entries' /\ terminal'[x] # "none")
                 <=> (\E i \in 1..Len(completed') : completed'[i] = x)
    <3>1. c # completed[1] /\ entries' = entries \ {completed[1]}
      BY <1>2, <1>5, <1>6, <1>10, <2>1, <2>2, SMTT(30)
    <3>2. CASE x = c
      BY <1>2, <1>8, <2>2, <3>1, <3>2, Zenon
    <3>3. CASE x # c
      BY <1>2, <1>8, <2>2, <3>1, <3>3, ZenonT(30) DEF Retained, n
    <3>. QED  BY <3>2, <3>3, Zenon
  <2>. QED  BY <1>4, <2>2, <2>3, <2>4, Zenon DEF Retained
<1>11. CASE ~ Expires(queue)
  <2>1. completed' = queue /\ entries' = entries /\ n # MaxCompleted
    BY <1>2, <1>7, <1>11, Zenon
  <2>2. Len(completed') = IF Cardinality(Done') < MaxCompleted
                          THEN Cardinality(Done') ELSE MaxCompleted
    BY <1>4, <1>5, <1>9, <2>1, Zenon
  <2>3. \A i, j \in 1..(n + 1) : queue[i] = queue[j] => i = j
    <3> SUFFICES ASSUME NEW i \in 1..(n + 1), NEW j \in 1..(n + 1), queue[i] = queue[j]
                 PROVE  i = j
      OBVIOUS
    <3>1. CASE i \in 1..n /\ j \in 1..n
      BY <1>5, <3>1, Zenon DEF Retained, n
    <3>2. CASE i = n + 1 \/ j = n + 1
      BY <1>5, <1>6, <3>2
    <3>. QED  BY <1>5, <3>1, <3>2
  <2>4. ASSUME NEW x \in Conns
        PROVE  (x \in entries' /\ terminal'[x] # "none")
                 <=> (\E i \in 1..(n + 1) : queue[i] = x)
    <3>1. CASE x = c
      BY <1>2, <1>5, <1>8, <2>1, <3>1, SMTT(30)
    <3>2. CASE x # c
      <4>1. (\E i \in 1..(n + 1) : queue[i] = x) <=> \E i \in 1..n : completed[i] = x
        BY <1>5, <3>2
      <4>. QED  BY <1>2, <1>8, <2>1, <3>2, <4>1, Zenon DEF Retained, n
    <3>. QED  BY <3>1, <3>2, Zenon
  <2>. QED  BY <1>4, <1>5, <2>1, <2>2, <2>3, <2>4 DEF Retained
<1>. QED  BY <1>10, <1>11

\* Every step keeps the registry exact.
LEMMA RetainedInvariant ==
  ASSUME IInv, Retained, [Next]_vars
  PROVE  Retained'
<1>1. ASSUME NEW c \in Conns, Finish(c) \/ Abort(c)
      PROVE  Retained'
  <2>1. PICK why \in Reasons : FinishLifecycle(c, why)
    BY <1>1, Zenon DEF Finish, Abort, IInv, EndedHasReason, Reasons
  <2>2. c \in Handlers /\ DropTask(c)
    BY <1>1, Zenon DEF Finish, Abort, Handlers
  <2>. QED  BY <2>1, <2>2, FinishRetains, Zenon
<1>2. ASSUME UNCHANGED <<terminal, completed>>,
             \A x \in Conns : pc'[x] = "done" <=> pc[x] = "done",
             \A x \in Conns : x \in entries' => x \in entries \/ terminal[x] = "none",
             entries \subseteq entries'
      PROVE  Retained'
  <2>1. Done' = Done
    BY <1>2, Zenon DEF Done
  <2>. QED  BY <1>2, <2>1 DEF Retained
<1>3. ASSUME NEW c \in Conns, Accept(c)
      PROVE  Retained'
  BY <1>2, <1>3, Zenon DEF Accept, IInv, IdleIsFresh, TypeOK
<1>4. ASSUME NEW c \in Conns,
             \/ Initialize(c) \/ RejectInit(c) \/ \E op \in Ops : Dispatch(c, op)
             \/ Replied(c) \/ ReplyEnds(c) \/ PeerClosed(c) \/ LoopBroken(c) \/ Teardown(c)
      PROVE  Retained'
  <2>1. UNCHANGED <<entries, terminal, completed>>
    BY <1>4, Zenon
       DEF Initialize, RejectInit, Dispatch, Replied, ReplyEnds, PeerClosed, LoopBroken,
       Teardown, lifecycleVars
  <2>2. \A x \in Conns : pc'[x] = "done" <=> pc[x] = "done"
    BY <1>4, Zenon
       DEF Initialize, RejectInit, Dispatch, Replied, ReplyEnds, PeerClosed, LoopBroken,
       Teardown, End, IInv, TypeOK
  <2>. QED  BY <1>2, <2>1, <2>2, Zenon
<1>5. CASE Overlay \/ Shutdown \/ UNCHANGED vars
  BY <1>2, <1>5, Zenon DEF Overlay, Shutdown, vars, handlerVars, lifecycleVars
<1>. QED  BY <1>1, <1>3, <1>4, <1>5, Zenon DEF Next, Step

\* What a transition does to the feature layer: entering a feature confirms it.
LEMMA FeatureEntered ==
  ASSUME NEW s \in Snapshots, NEW f \in Features
  PROVE  Apply(s, f).feature = Confirmed(f)
<1>1. Apply(s, f) = [s EXCEPT !.feature = Confirmed(f)]
  BY DEF Apply, Features
<1>. QED  BY <1>1 DEF Snapshots

\* A write of property or session state that leaves the engine in a feature leaves the
\* owner's lifecycle claiming it, whichever connection sent it.
LEMMA EffectClaims ==
  ASSUME IInv, ActiveFeatureIsClaimed, NEW c \in Conns, NEW op \in Ops,
         Effect(c, op), UNCHANGED <<entries, terminal, patched>>
  PROVE  ActiveFeatureIsClaimed'
<1> SUFFICES ASSUME NEW o \in Conns, (~ patched)', (owner = o)', Active(o)',
                    (active_mode \in Features)'
             PROVE  (snap[o].feature = Confirmed(active_mode))'
  BY Zenon DEF ActiveFeatureIsClaimed
<1>1. Active(o) /\ ~ patched
  BY Zenon DEF Active
<1>2. CASE op \in {"OpenSession", "CloseSession"}
  <2>1. active_mode' = "undetected"
    BY <1>2 DEF Effect, OpenSession, CloseSession, Modes, Features
  <2>. QED  BY <2>1, Zenon DEF Features
<1>3. CASE op = "Read"
  <2>1. NoEffect
    BY <1>3 DEF Effect, Modes, Features
  <2>. QED  BY <1>1, <2>1, Zenon DEF NoEffect, engineVars, ActiveFeatureIsClaimed
<1>4. CASE op \in Modes
  <2>1. SetProp(c, op)
    BY <1>4 DEF Effect, Modes, Features
  <2>2. active_mode' = op /\ op \in Features /\ FeatureOf(op) = op /\ op # "none"
    BY <2>1, Zenon DEF SetProp, FeatureOf, Features
  <2>3. owner' = owner /\ owner = o
    BY <2>1, <2>2 DEF SetProp, RecordTransition, Features
  <2>4. TrackerFor(c) = o
    BY <1>1, <2>3, Zenon DEF TrackerFor
  <2>5. CASE op = active_mode
    <3>1. snap' = snap
      BY <2>1, <2>5, Zenon DEF SetProp
    <3>. QED  BY <1>1, <2>2, <2>3, <2>5, <3>1, Zenon DEF ActiveFeatureIsClaimed
  <2>6. CASE op # active_mode /\ RecordedFeature(c) = op
    <3>1. snap' = snap
      BY <2>1, <2>2, <2>6, Zenon DEF SetProp
    <3>2. PICK f \in Features : snap[o].feature = Confirmed(f)
      BY <2>2, <2>4, <2>6, Zenon DEF RecordedFeature
    <3>3. snap[o].feature[2] = op
      BY <2>2, <2>4, <2>6, Zenon DEF RecordedFeature
    <3>4. Confirmed(f)[2] = f
      BY Zenon DEF Confirmed
    <3>. QED  BY <2>2, <3>1, <3>2, <3>3, <3>4, Zenon
  <2>7. CASE op # active_mode /\ RecordedFeature(c) # op
    <3>1. RecordTransition(c, op)
      BY <2>1, <2>2, <2>7, Zenon DEF SetProp
    <3>2. snap'[o] = Apply(snap[o], op)
      BY <2>2, <2>4, <3>1 DEF RecordTransition, Features
    <3>3. snap[o] \in Snapshots
      BY Zenon DEF IInv, TypeOK
    <3>. QED  BY <2>2, <3>2, <3>3, FeatureEntered, Zenon
  <2>. QED  BY <2>5, <2>6, <2>7, Zenon
<1>. QED  BY <1>2, <1>3, <1>4, Zenon DEF Ops

\* Every step keeps an active feature claimed by the owner.
LEMMA ClaimedInvariant ==
  ASSUME IInv, ActiveFeatureIsClaimed, [Next]_vars
  PROVE  ActiveFeatureIsClaimed'
<1>1. ASSUME NEW c \in Conns, UNCHANGED <<engineVars, patched>>,
             \A x \in Conns : Active(x)' => Active(x) \/ x = c,
             \A x \in Conns : x # c => snap'[x] = snap[x],
             owner = c => ~ Active(c)' \/ (snap'[c] = snap[c] /\ Active(c))
      PROVE  ActiveFeatureIsClaimed'
  BY <1>1, Zenon DEF ActiveFeatureIsClaimed, engineVars
<1>2. ASSUME NEW c \in Conns, Accept(c) \/ Initialize(c)
      PROVE  ActiveFeatureIsClaimed'
  <2>1. owner # c
    BY <1>2, ConnAssumption, Zenon DEF IInv, OwnerIsLive, Accept, Initialize
  <2>2. UNCHANGED <<engineVars, patched, terminal>> /\ entries' \subseteq entries \cup {c}
    BY <1>2, Zenon DEF Accept, Initialize
  <2>3. \A x \in Conns : x # c => snap'[x] = snap[x]
    BY <1>2, Zenon DEF Accept, Initialize, IInv, TypeOK
  <2>. QED  BY <1>1, <2>1, <2>2, <2>3, Zenon DEF Active
<1>3. ASSUME NEW c \in Conns, Finish(c) \/ Abort(c)
      PROVE  ActiveFeatureIsClaimed'
  <2>1. PICK why \in Reasons : FinishLifecycle(c, why)
    BY <1>3, Zenon DEF Finish, Abort, IInv, EndedHasReason, Reasons
  <2>2. UNCHANGED <<engineVars, patched>>
    BY <1>3, Zenon DEF Finish, Abort
  <2>3. Active(c)
    BY <1>3, Zenon DEF Finish, Abort, IInv, HandlersAreActive, Handlers
  <2>4. /\ entries' \subseteq entries
        /\ terminal' = [terminal EXCEPT ![c] = why]
        /\ \A x \in Conns : x # c => snap'[x] = snap[x]
    BY <2>1, <2>3, Zenon DEF FinishLifecycle, IInv, TypeOK
  <2>5. ~ Active(c)' /\ \A x \in Conns : Active(x)' => Active(x)
    BY <2>4, Zenon DEF Active, IInv, TypeOK, Reasons
  <2>. QED  BY <1>1, <2>2, <2>4, <2>5, Zenon
<1>4. ASSUME NEW c \in Conns, NEW op \in Ops, Dispatch(c, op)
      PROVE  ActiveFeatureIsClaimed'
  <2>1. Effect(c, op) \/ NoEffect
    BY <1>4, Zenon DEF Dispatch
  <2>2. UNCHANGED <<entries, terminal, patched>>
    BY <1>4, Zenon DEF Dispatch
  <2>3. CASE NoEffect
    BY <2>2, <2>3, Zenon DEF NoEffect, engineVars, ActiveFeatureIsClaimed, Active
  <2>. QED  BY <2>1, <2>2, <2>3, EffectClaims, Zenon
<1>5. ASSUME NEW c \in Conns, Teardown(c)
      PROVE  ActiveFeatureIsClaimed'
  <2>1. UNCHANGED <<entries, terminal, snap, patched>>
    BY <1>5, Zenon DEF Teardown, lifecycleVars
  <2>2. CASE owner = c
    BY <1>5, <2>2, ConnAssumption, Zenon DEF Teardown, ActiveFeatureIsClaimed
  <2>3. CASE owner # c
    BY <1>5, <2>1, <2>3, SMTT(30) DEF Teardown, engineVars, ActiveFeatureIsClaimed, Active
  <2>. QED  BY <2>2, <2>3, Zenon
<1>6. ASSUME NEW c \in Conns,
             RejectInit(c) \/ Replied(c) \/ ReplyEnds(c) \/ PeerClosed(c) \/ LoopBroken(c)
      PROVE  ActiveFeatureIsClaimed'
  <2>1. UNCHANGED <<engineVars, lifecycleVars, patched>>
    BY <1>6, Zenon DEF RejectInit, Replied, ReplyEnds, PeerClosed, LoopBroken
  <2>. QED  BY <2>1, Zenon DEF engineVars, lifecycleVars, ActiveFeatureIsClaimed, Active
<1>7. CASE Overlay
  BY <1>7, Zenon DEF Overlay, ActiveFeatureIsClaimed
<1>8. CASE Shutdown \/ UNCHANGED vars
  BY <1>8 DEF Shutdown, vars, engineVars, lifecycleVars, ActiveFeatureIsClaimed, Active
<1>. QED  BY <1>2, <1>3, <1>4, <1>5, <1>6, <1>7, <1>8, Zenon DEF Next, Step

\* The registry tells what is so, in every reachable state: a feature the engine is in is
\* claimed by the session's owner, whoever entered it, and the records kept are those of
\* the live handlers and of as many ended ones as the limit allows.
THEOREM RegistryHolds == Spec => []RegistryIsExact
<1>1. Init => Retained /\ ActiveFeatureIsClaimed
  <2> SUFFICES ASSUME Init
               PROVE  Retained /\ ActiveFeatureIsClaimed
    OBVIOUS
  <2>1. Done = {}
    BY Zenon DEF Init, Done
  <2>2. IsFiniteSet(Done) /\ Cardinality(Done) = 0
    BY <2>1, FS_EmptySet, Zenon
  <2>3. completed = <<>> /\ Len(completed) = 0 /\ entries = {}
    BY Zenon DEF Init
  <2>. QED  BY <2>2, <2>3, BoundAssumption DEF Retained, Init, ActiveFeatureIsClaimed, Features
<1>2. IInv /\ Retained /\ ActiveFeatureIsClaimed => RegistryIsExact
  <2> SUFFICES ASSUME IInv, Retained
               PROVE  RetentionIsExact
    BY DEF RegistryIsExact
  <2>1. \A c \in Handlers : Active(c)
    BY Zenon DEF IInv, HandlersAreActive
  <2>2. \A i \in 1..Len(completed) : completed[i] \in Conns
    BY SMTT(30) DEF IInv, TypeOK
  <2>3. {c \in entries : terminal[c] # "none"} = {completed[i] : i \in 1..Len(completed)}
    BY <2>2 DEF Retained, IInv, TypeOK
  <2>. QED  BY <2>1, <2>3, Zenon DEF RetentionIsExact, Retained, Done
<1>. QED  BY <1>1, <1>2, Invariance, RetainedInvariant, ClaimedInvariant, PTL DEF Spec
=============================================================================
