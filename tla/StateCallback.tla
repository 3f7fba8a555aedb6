---------------------------- MODULE StateCallback ----------------------------
(***************************************************************************)
(* The state callback of the simulator service:                            *)
(* services/camera-sim-service/src/state_callback.rs and the places in     *)
(* lib.rs and control.rs that change the camera state.  Writers (command   *)
(* tasks and control requests) change the engine under its lock, and call  *)
(* notify_one some time after they released it.  One push task waits for   *)
(* the notification, debounces, takes the registry and the state at two    *)
(* different instants, and posts the snapshot to every target.             *)
(***************************************************************************)
EXTENDS Naturals, FiniteSets

CONSTANTS
  Writers,    \* tasks that change the state or register a target
  Targets,    \* callback URLs
  Never,      \* a target that was sent nothing
  Bodies,     \* how many different snapshots there are
  MaxState,   \* bound: how often the state changes
  MaxVersion, \* bound: how often a target is registered
  Losses      \* what may go wrong: "abort", "teardown", "post", "shutdown"

ASSUME CallbackAssumption ==
  /\ Bodies \in Nat \ {0}
  /\ MaxState \in Nat
  /\ MaxVersion \in Nat
  /\ Losses \subseteq {"abort", "teardown", "post", "shutdown"}
  /\ Never \notin Nat

VARIABLES
  state,     \* the camera state, as the number of changes so far
  writer,    \* whether each writer still has to notify, of a change or of a registration
  permit,    \* the permit of the `dirty` notification
  version,   \* RegistryInner.version
  targets,   \* RegistryInner.targets
  pusher,    \* where the push task is
  snapshot,  \* the registry snapshot push_latest works on
  body,      \* the state it took
  last,      \* LastPush
  posted,      \* history: the state each target was last sent
  owed,      \* history: registrations that no push has answered yet
  failed,    \* history: targets whose last post since they registered did not arrive
  silent       \* history: a writer kept its change to itself, and nobody notified since

pushVars == <<snapshot, body, last>>
callbackVars == <<state, writer, permit, version, targets, pusher, pushVars, posted, owed, failed, silent>>

\* The JSON text of a state: the camera can return to an earlier one.
Json(s) == IF s = Never THEN Never ELSE s % Bodies

CallbackInit ==
  /\ state = 0
  /\ writer = [w \in Writers |-> "idle"]
  /\ permit = FALSE
  /\ version = 0
  /\ targets = {}
  /\ pusher = "registry"
  /\ snapshot = [version |-> 0, targets |-> {}]
  /\ body = 0
  /\ last = [version |-> 0, body |-> Never]
  /\ posted = [t \in Targets |-> Never]
  /\ owed = {}
  /\ failed = {}
  /\ silent = FALSE

-----------------------------------------------------------------------------
\* Writers.

\* An operation, a completed stream, a state patch or advance-property: the state
\* may change, and the notification follows outside the engine lock.
Mutate(w) ==
  /\ writer[w] = "idle"
  /\ state' \in {state, state + 1} /\ state' <= MaxState
  /\ writer' = [writer EXCEPT ![w] = "notify"]
  /\ UNCHANGED <<permit, version, targets, pusher, pushVars, posted, owed, failed, silent>>

\* A responder action notifies before it releases the engine.
InvokeActionNotifies(w) ==
  /\ writer[w] = "idle"
  /\ state < MaxState
  /\ state' = state + 1
  /\ permit' = TRUE
  /\ silent' = FALSE
  /\ UNCHANGED <<writer, version, targets, pusher, pushVars, posted, owed, failed>>

\* POST /callbacks: Registry::add_url.
AddUrl(w, t) ==
  /\ writer[w] = "idle"
  /\ version < MaxVersion
  /\ version' = version + 1
  /\ targets' = targets \cup {t}
  /\ owed' = owed \cup {t} /\ failed' = failed \ {t}
  /\ writer' = [writer EXCEPT ![w] = "registered"]
  /\ UNCHANGED <<state, permit, pusher, pushVars, posted, silent>>

\* Variant that drops the notification while the push task is busy.
NotifyIdleOnly(w) ==
  /\ writer[w] # "idle"
  /\ writer' = [writer EXCEPT ![w] = "idle"]
  /\ permit' = (permit \/ pusher = "wait")
  /\ silent' = FALSE
  /\ UNCHANGED <<state, version, targets, pusher, pushVars, posted, owed, failed>>

\* notify_one keeps one permit while nobody waits.
NotifyOne(w) ==
  /\ writer[w] # "idle"
  /\ writer' = [writer EXCEPT ![w] = "idle"]
  /\ permit' = TRUE
  /\ silent' = FALSE
  /\ UNCHANGED <<state, version, targets, pusher, pushVars, posted, owed, failed>>

\* A writer that changed the state ends before it notifies: a listener could not be
\* rearmed, or the observation could not be recorded.
AbortWriter(w) ==
  /\ "abort" \in Losses
  /\ writer[w] = "notify"
  /\ writer' = [writer EXCEPT ![w] = "idle"]
  /\ silent' = TRUE
  /\ UNCHANGED <<state, permit, version, targets, pusher, pushVars, posted, owed, failed>>

\* handle_command_conn clears the session of a transport that ended, and notifies
\* nobody.
TeardownSession ==
  /\ "teardown" \in Losses
  /\ state < MaxState
  /\ state' = state + 1
  /\ silent' = TRUE
  /\ UNCHANGED <<writer, permit, version, targets, pusher, pushVars, posted, owed, failed>>

-----------------------------------------------------------------------------
\* The push task.

Shutdown ==
  /\ "shutdown" \in Losses
  /\ pusher = "wait"
  /\ pusher' = "stopped"
  /\ UNCHANGED <<state, writer, permit, version, targets, pushVars, posted, owed, failed, silent>>

Notified ==
  /\ pusher = "wait" /\ permit
  /\ permit' = FALSE
  /\ pusher' = "registry"
  /\ UNCHANGED <<state, writer, version, targets, pushVars, posted, owed, failed, silent>>

\* registry.snapshot(), after the debounce.
TakeRegistry ==
  /\ pusher = "registry"
  /\ snapshot' = [version |-> version, targets |-> targets]
  /\ pusher' = IF targets = {} THEN "wait" ELSE "state"
  /\ UNCHANGED <<state, writer, permit, version, targets, body, last, posted, owed, failed, silent>>

\* snapshot_json under the engine lock, and the comparison with the last push.
TakeState ==
  /\ pusher = "state"
  /\ body' = state
  /\ pusher' = IF Json(last.body) = Json(state) /\ last.version = snapshot.version
               THEN "wait" ELSE "post"
  /\ UNCHANGED <<state, writer, permit, version, targets, snapshot, last, posted, owed, failed, silent>>

\* Variant that gives up the round at the first failure.
PostUntilFailure(t) ==
  /\ pusher = "post" /\ t \in snapshot.targets
  /\ \/ /\ snapshot' = [snapshot EXCEPT !.targets = @ \ {t}]
        /\ posted' = [posted EXCEPT ![t] = body]
        /\ owed' = owed \ {t} /\ failed' = failed \ {t}
     \/ /\ "post" \in Losses
        /\ snapshot' = [snapshot EXCEPT !.targets = {}]
        /\ failed' = failed \cup {t} /\ UNCHANGED <<posted, owed>>
  /\ UNCHANGED <<state, writer, permit, version, targets, pusher, body, last, silent>>

\* post_json to one target after the other, with or without success.
Post(t) ==
  /\ pusher = "post" /\ t \in snapshot.targets
  /\ snapshot' = [snapshot EXCEPT !.targets = @ \ {t}]
  /\ \/ posted' = [posted EXCEPT ![t] = body] /\ owed' = owed \ {t} /\ failed' = failed \ {t}
     \/ "post" \in Losses /\ failed' = failed \cup {t} /\ UNCHANGED <<posted, owed>>
  /\ UNCHANGED <<state, writer, permit, version, targets, pusher, body, last, silent>>

\* LastPush: what was taken, not what there is by now.
Remember ==
  /\ pusher = "post" /\ snapshot.targets = {}
  /\ last' = [version |-> snapshot.version, body |-> body]
  /\ pusher' = "wait"
  /\ UNCHANGED <<state, writer, permit, version, targets, snapshot, body, posted, owed, failed, silent>>

-----------------------------------------------------------------------------
Push == Notified \/ TakeRegistry \/ TakeState \/ Remember \/ \E t \in Targets : Post(t)

CallbackNext ==
  \/ \E w \in Writers :
       \/ Mutate(w) \/ InvokeActionNotifies(w) \/ NotifyOne(w) \/ AbortWriter(w)
       \/ \E t \in Targets : AddUrl(w, t)
  \/ TeardownSession \/ Shutdown \/ Push

CallbackSpec == CallbackInit /\ [][CallbackNext]_callbackVars

\* The push task runs on, each post is bounded by POST_TIMEOUT, and a writer that
\* changed the state gets to its notification.
CallbackFairness ==
  /\ WF_callbackVars(Push)
  /\ \A w \in Writers : WF_callbackVars(NotifyOne(w) \/ AbortWriter(w))

CallbackFairSpec == CallbackSpec /\ CallbackFairness

-----------------------------------------------------------------------------
\* Properties.

\* Every variable stays in its domain.
CallbackTypeOK ==
  /\ state \in 0..MaxState
  /\ writer \in [Writers -> {"idle", "notify", "registered"}]
  /\ permit \in BOOLEAN /\ silent \in BOOLEAN
  /\ version \in 0..MaxVersion
  /\ targets \subseteq Targets /\ owed \subseteq targets /\ failed \subseteq targets
  /\ pusher \in {"wait", "registry", "state", "post", "stopped"}
  /\ snapshot \in [version : 0..MaxVersion, targets : SUBSET Targets]
  /\ body \in 0..MaxState
  /\ last \in [version : 0..MaxVersion, body : 0..MaxState \cup {Never}]
  /\ posted \in [Targets -> 0..MaxState \cup {Never}]

\* At rest, what was pushed is what there is.
RestIsPushed ==
  (pusher = "wait" /\ ~ permit /\ ~ silent /\ targets # {} /\ \A w \in Writers : writer[w] = "idle")
    => /\ Json(last.body) = Json(state) /\ last.version = version
       /\ \A t \in targets : t \in failed \/ Json(posted[t]) = Json(state)

\* Every target ends up with the state the camera ends up in: no change that somebody
\* notified is lost between the notification, the debounce and a push in progress, and a
\* change without one (TeardownSession, AbortWriter) arrives with the next notification.
\* Left out are a task that was stopped, a target whose own last post failed, and a change
\* that nobody notified, at its time or since.
Converges ==
  \A t \in Targets :
    <>[](t \in targets =>
           \/ Json(posted[t]) = Json(state) \/ t \in failed
           \/ silent \/ pusher = "stopped")

\* Every registration, also a repeated one, is answered with a post of a snapshot.
RegistrationIsAnswered ==
  \A t \in Targets : t \in owed ~> t \notin owed \/ t \in failed \/ pusher = "stopped"

\* Nobody who registered is forgotten: every target is answered, and ends up with the
\* state the camera ends up in as far as that was notified and its post arrived.
TargetsAreServed == Converges /\ RegistrationIsAnswered

\* When nobody is about to notify and the task waits, it has pushed the state there
\* is to the registry there is, unless the last change was kept from it; and every
\* target has that state, but for those whose own last post failed: a failure is not
\* repeated, and costs no other target its post (push_latest).
QuiescentIsCurrent == CallbackTypeOK /\ RestIsPushed
===============================================================================
