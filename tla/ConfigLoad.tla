------------------------------ MODULE ConfigLoad ------------------------------
(***************************************************************************)
(* A manufacturer's index and the body manifests of its models are loaded  *)
(* as one store, or not at all (camera-config/src/store.rs, index/parse.rs).*)
(* A host that has the store establishes connections, comes back to saved  *)
(* cameras and follows a camera's own transfers.  What the checks of the   *)
(* load say about the establishment plans is compared with every way the   *)
(* plans can be walked; BleExecutor models that walk itself.               *)
(***************************************************************************)
EXTENDS Integers, FiniteSets, SequencesExt

CONSTANTS
  Indexes,   \* the indexes that may be loaded, with their bodies
  MaxUses    \* bound: things the host does with the store

LoadAssumption == MaxUses \in Nat

VARIABLES
  index,     \* the index and the bodies
  state,     \* unread, loaded, refused or panicked
  resolved,  \* the transfers resolved at load, by model
  use        \* what the host did last with the store, and how often it used it

vars == <<index, state, resolved, use>>

Models == Range(index.models)
Body(m) == CHOOSE b \in m.body : TRUE  \* store.rs:110-118

\* A step of an establishment plan, its fields empty where the verb does not use them.
Step ==
  [verb |-> "read", out |-> {}, steps |-> <<>>, else |-> <<>>, onFailure |-> <<>>, from |-> <<>>,
   evidence |-> <<>>]

-----------------------------------------------------------------------------
\* The index.

\* parse.rs:59-63
Named(m) == UNION {{[name |-> n, est |-> r[n]] : n \in DOMAIN r} : r \in m.ble \cup m.usb}
\* parse.rs:915-927
Spans(est, sequence) == SelectSeq(est.activities, LAMBDA a : a.sequence = sequence)

Covered(spans, length) ==  \* parse.rs:928-968
  IF length = 0 THEN spans = <<>>
  ELSE /\ spans # <<>> /\ spans[1].first = 0 /\ Last(spans).end = length
       /\ \A i \in DOMAIN spans :
            /\ spans[i].first < spans[i].end /\ spans[i].end <= length
            /\ i > 1 => spans[i].first = spans[i - 1].end

validate_establishment_activities(est) ==
  LET acts == est.activities
  IN  /\ \A i, j \in DOMAIN acts :
           /\ acts[i].id = acts[j].id => i = j
           /\ (acts[i].sequence = "steps" /\ acts[j].sequence = "ready") => j < i
      /\ Covered(Spans(est, "steps"), Len(est.steps)) /\ Covered(Spans(est, "ready"), Len(est.ready))

RECURSIVE forbid_acquire_firmware(_)
forbid_acquire_firmware(steps) ==
  \A st \in Range(steps) : st.verb # "firmware" /\
    \A inner \in {st.steps, st.else, st.onFailure, st.from, st.evidence} : forbid_acquire_firmware(inner)

validate_reconnect_contract(m) ==
  \A ble \in m.ble : \A s \in Range(m.signatures) : \A route \in s.route :
    /\ m.policy /\ route.identity # {} /\ route.identity \subseteq s.captures
    /\ route.mechanism \in DOMAIN ble

\* One meaning per activity and version.
\* parse.rs:64-90
Consistent(acts) == \A a, b \in acts : (a.id = b.id /\ a.version = b.version) => a.meta = b.meta

from_yaml(ix) ==
  /\ ix.parses
  /\ \A m \in Range(ix.models) :
       /\ validate_reconnect_contract(m)
       /\ \A e \in Named(m) : validate_establishment_activities(e.est) /\ forbid_acquire_firmware(e.est.ready)
  /\ Consistent(UNION {UNION {Range(e.est.activities) : e \in Named(m)} : m \in Range(ix.models)})

-----------------------------------------------------------------------------
\* The bodies.

\* The establishment that a mechanism names in the BLE registry, if there is one.
\* mfg_index.rs:1797-1803
establishment(m, mechanism) == UNION {{r[n] : n \in mechanism \cap DOMAIN r} : r \in m.ble}

\* camera-config/lib.rs:481-486
Leaves(b) == {c \in DOMAIN b.connections : \E e \in Range(b.connections[c].entries) : e.reestablishes}

\* Variant that does not ask that a connection that is left can be established again.
ContractOnly(b) == b.contract

\* Of the manifest's checks, what the later ones take for granted (PlanCheck has them all).
require_valid_mode_entries(b) == b.contract /\ \A c \in Leaves(b) : b.connections[c].establishment # {}

Matches(m, mechanism, params) ==  \* store.rs:579-598
  \E est \in establishment(m, mechanism) : params = est.params

validate_reestablishment_params(m, b) ==
  \A c \in DOMAIN b.connections :
    /\ \A e \in Range(b.connections[c].enables) : e.params # {} => Matches(m, e.mechanism, e.params)
    /\ \A e \in Range(b.connections[c].entries) :
         e.reestablishes => Matches(m, b.connections[c].establishment, e.params)

\* The parameters of a connection that names no establishment are not looked up but expected.
Unexpected(b) == \E c \in Leaves(b) : b.connections[c].establishment = {}  \* store.rs:575-578

validate_pcss_camera_names(m, b) ==
  \A s \in Range(m.signatures) : (s.kind = "pcss" /\ s.connection \in DOMAIN b.connections) =>
    \A name \in b.connections[s.connection].knock : name = s.camera

\* Variant that also counts what the steps after a failure produce.
RECURSIVE AnyOutputs(_)
AnyOutputs(steps) ==
  UNION {st.out \cup UNION {AnyOutputs(s) : s \in {st.steps, st.else, st.onFailure, st.from}} : st \in Range(steps)}

RECURSIVE collect_step_scope_outputs(_)
collect_step_scope_outputs(steps) ==
  UNION {st.out \cup UNION {collect_step_scope_outputs(s) : s \in {st.steps, st.else, st.from}} : st \in Range(steps)}

establishment_scope_outputs(est) ==  \* store.rs:656-661
  est.persist \cup collect_step_scope_outputs(est.ready) \cup collect_step_scope_outputs(est.steps)

validate_host_establishment_scopes(m, b) ==
  \A c \in DOMAIN b.connections : \A gate \in b.connections[c].gates :
    \E est \in establishment(m, b.connections[c].establishment) : gate \in establishment_scope_outputs(est)

\* Variant that does not look into the steps after a failure.
RECURSIVE InterruptOnTheWay(_)
InterruptOnTheWay(steps) ==
  \E st \in Range(steps) : st.verb = "interrupt" \/ \E s \in {st.steps, st.else, st.from} : InterruptOnTheWay(s)

RECURSIVE usb_await_interrupt_step(_)
usb_await_interrupt_step(steps) ==
  \E st \in Range(steps) : st.verb = "interrupt" \/
    \E s \in {st.steps, st.else, st.onFailure, st.from} : usb_await_interrupt_step(s)

validate_usb_event_delivery(m, b) ==
  \A c \in DOMAIN b.connections : b.connections[c].delivery = "none" =>
    \A r \in m.usb : \A n \in b.connections[c].establishment \cap DOMAIN r :
      ~usb_await_interrupt_step(r[n].steps) /\ ~usb_await_interrupt_step(r[n].ready)

Connections(b) == {b.connections[c] : c \in DOMAIN b.connections}  \* store.rs:302-311

\* The activities of a connection, of its entries and of its actions' initiators.
ActivitiesOf(c) ==  \* store.rs:357-391
  Range(c.activities) \cup UNION {Range(e.activities) : e \in Range(c.entries)}
  \cup UNION {Range(a.activities) : a \in Range(c.actions)}

\* The activities of the BLE establishments and of the bodies; those of USB are not among them.
validate_activity_metadata_consistency(ix) ==
  Consistent(UNION {UNION {Range(r[n].activities) : n \in DOMAIN r} :
                      r \in UNION {m.ble : m \in Range(ix.models)}}
             \cup UNION {ActivitiesOf(c) : c \in UNION {Connections(Body(m)) : m \in Range(ix.models)}})

validate_merged_activity_ids(ix) ==
  \A m \in Range(ix.models) : \A c \in Connections(Body(m)) : \A est \in establishment(m, c.establishment) :
    {a.id : a \in Range(est.activities)} \cap {a.id : a \in Range(c.activities)} = {}

validate_camera_initiated_monitor_recovery(m, t) ==
  t.recovers => m.ble # {} /\ m.policy /\ \E s \in Range(m.signatures) : s.kind = "ble" /\ s.route # {}

\* Variant that resolves every model's transfer on the primary model's body.
PrimaryBody(ix, m) == Body(ix.models[1])

\* The body that a model's transfer is resolved on.
BodyFor(ix, m) == Body(m)

\* The port that the transfer's connection binds the role to: none without the connection, 0
\* without a binding.
resolve_camera_initiated_transfer(b, t) ==
  [connection |-> t.connection,
   ports |-> {c.roles[t.role] : c \in {b.connections[id] : id \in {t.connection} \cap DOMAIN b.connections}}]

\* What becomes of one model, in the order of the load.
BodyLoads(m) ==  \* store.rs:108-134
  CASE m.body = {} -> "refused"
    [] m.body # {} ->
         IF ~(Body(m).schema /\ require_valid_mode_entries(Body(m))) THEN "refused"
         ELSE IF Unexpected(Body(m)) THEN "panicked"
         ELSE IF /\ validate_reestablishment_params(m, Body(m))
                 /\ validate_pcss_camera_names(m, Body(m))
                 /\ validate_host_establishment_scopes(m, Body(m))
                 /\ validate_usb_event_delivery(m, Body(m))
              THEN "loaded" ELSE "refused"

\* The first model that does not load ends the load.
BodiesLoad(ix) ==  \* store.rs:108-109
  LET bad == SelectInSeq(ix.models, LAMBDA m : BodyLoads(m) # "loaded")
  IN  IF bad = 0 THEN "loaded" ELSE BodyLoads(ix.models[bad])

TransfersResolve(ix) ==  \* store.rs:153-170
  \A m \in Range(ix.models) : \A t \in Body(m).transfer :
    /\ validate_camera_initiated_monitor_recovery(m, t)
    /\ t.codes /\ resolve_camera_initiated_transfer(BodyFor(ix, m), t).ports \notin {{}, {0}}

Loads(ix) ==  \* store.rs:135-152
  IF ~from_yaml(ix) THEN "refused"
  ELSE IF BodiesLoad(ix) # "loaded" THEN BodiesLoad(ix)
  ELSE IF /\ validate_activity_metadata_consistency(ix) /\ validate_merged_activity_ids(ix)
          /\ ix.models # <<>> /\ TransfersResolve(ix)
       THEN "loaded" ELSE "refused"

-----------------------------------------------------------------------------
\* How a plan can be walked: [ok, facts, waits, clean], clean while nothing failed.

NoWalk == [ok |-> TRUE, facts |-> {}, waits |-> FALSE, clean |-> TRUE]
Joined(r, w) ==
  [ok |-> w.ok, facts |-> r.facts \cup w.facts, waits |-> r.waits \/ w.waits, clean |-> r.clean /\ w.clean]
Failed(w) == [w EXCEPT !.ok = FALSE, !.clean = FALSE]

RECURSIVE Walks(_)

\* The steps of a retry fail, what follows a failure runs, and they may run once more.
Retried(st) ==  \* executor.rs:1383-1465
  LET failed == {w \in Walks(st.steps) : ~w.ok}
      after  == {Joined(w, f) : w \in failed, f \in Walks(st.onFailure)}
  IN  Walks(st.steps) \cup {Failed(w) : w \in after}
        \cup {Joined(w, again) : w \in {w \in after : w.ok}, again \in Walks(st.steps)}

Polled(st) == {Joined(w, [NoWalk EXCEPT !.facts = st.out]) : w \in {w \in Walks(st.steps) : w.ok} \cup {NoWalk}}
Proved(st) == {Failed(Joined(w, e)) : w \in Walks(st.steps), e \in Walks(st.evidence)}

WalksOf(st) ==
  CASE st.verb = "if" -> Walks(st.steps) \cup Walks(st.else)
    [] st.verb = "retry" -> Retried(st)
    [] st.verb = "acquire" -> {IF w.ok THEN Joined(w, [NoWalk EXCEPT !.facts = st.out]) ELSE w : w \in Walks(st.from)}
    [] st.verb = "await" -> Polled(st) \cup Proved(st)
    [] OTHER -> LET done == [NoWalk EXCEPT !.facts = st.out, !.waits = st.verb = "interrupt"]
                IN  {done, [Failed(done) EXCEPT !.facts = {}]}

Walks(steps) ==
  FoldLeft(LAMBDA ws, st : {w \in ws : ~w.ok} \cup {Joined(w, n) : w \in {w \in ws : w.ok}, n \in WalksOf(st)},
           {NoWalk}, steps)

-----------------------------------------------------------------------------
\* The host.

Unused == [kind |-> "none", delivery |-> "reliable", walk |-> NoWalk, ids |-> <<>>, found |-> TRUE, uses |-> 0]

Init ==
  /\ index \in Indexes
  /\ state = "unread" /\ use = Unused /\ resolved = [id \in {} |-> {}]

from_manufacturer_index ==
  /\ state = "unread"
  /\ state' = Loads(index)
  /\ resolved' = IF state' = "loaded"
                 THEN [id \in {m.id : m \in {m \in Models : Body(m).transfer # {}}} |->
                        LET m == CHOOSE m \in Models : m.id = id
                        IN  {resolve_camera_initiated_transfer(BodyFor(index, m), t) : t \in Body(m).transfer}]
                 ELSE resolved
  /\ UNCHANGED <<index, use>>

Used(u) == use' = [u EXCEPT !.uses = use.uses + 1] /\ UNCHANGED <<index, state, resolved>>
Usable == state = "loaded" /\ use.uses < MaxUses

\* A raw USB connection is established from the USB registry, any other from the BLE one.
PlanOf(m, c) ==  \* mfg_index.rs:1788-1803
  IF c.kind = "usb" THEN UNION {{r[n] : n \in c.establishment \cap DOMAIN r} : r \in m.usb}
  ELSE establishment(m, c.establishment)

Establish ==  \* camera-protocol-ffi/lib.rs:2789-2812
  /\ Usable
  /\ \E m \in Models : \E c \in Connections(Body(m)) : \E est \in PlanOf(m, c) :
       \E w \in Walks(est.steps) \cup Walks(est.ready) :
         Used([Unused EXCEPT !.kind = IF c.kind = "usb" THEN "usb" ELSE "ble", !.delivery = c.delivery, !.walk = w,
                 !.ids = [i \in 1..(Len(est.activities) + Len(c.activities)) |-> (est.activities \o c.activities)[i].id]])

\* A saved camera is seen again, and its route says how to come back to it.
Reconnect ==
  /\ Usable
  /\ \E m \in Models : m.ble # {} /\ \E s \in Range(m.signatures) : \E route \in s.route :
       Used([Unused EXCEPT !.kind = "reconnect", !.found = establishment(m, {route.mechanism}) # {}])

\* A transfer that the camera starts, and the way back when its monitor is lost.
Handoff ==
  /\ Usable
  /\ \E m \in Models : m.id \in DOMAIN resolved /\ \E t \in resolved[m.id] :
       Used([Unused EXCEPT !.kind = "handoff",
               !.found = \E c \in DOMAIN Body(m).connections : c = t.connection /\
                           t.ports = {Body(m).connections[c].roles[r] : r \in {r.role : r \in Body(m).transfer}}])

Recover ==
  /\ Usable
  /\ \E m \in Models : \E t \in Body(m).transfer : t.recovers /\
       Used([Unused EXCEPT !.kind = "recover", !.found = m.policy /\ \E s \in Range(m.signatures) : s.route # {}])

Next == from_manufacturer_index \/ Establish \/ Reconnect \/ Handoff \/ Recover

Spec == Init /\ [][Next]_vars

-----------------------------------------------------------------------------
TypeOK ==
  /\ index \in Indexes /\ state \in {"unread", "loaded", "refused", "panicked"}
  /\ DOMAIN resolved \subseteq {m.id : m \in Models} /\ use.uses \in 0..MaxUses

\* The order of the checks keeps the load from its own expectations failing.
LoadDoesNotPanic == state # "panicked"

\* No walk of a plan waits for an interrupt on a connection that has no events, not even in
\* what runs after a failure.
NoWaitForNothing == ~(use.kind = "usb" /\ use.delivery = "none" /\ use.walk.waits)

\* A gate of a connection is met by what is saved, or by some walk in which nothing failed;
\* the gates of raw USB connections are checked against the BLE registry and are left out.
GatesCanBeMet ==
  state = "loaded" =>
    \A m \in Models : \A c \in {c \in Connections(Body(m)) : c.kind # "usb"} : \A gate \in c.gates :
      \E est \in PlanOf(m, c) :
        gate \in est.persist \/
          \E w \in Walks(est.steps) \cup Walks(est.ready) : w.ok /\ w.clean /\ gate \in w.facts

\* A way that the store offers leads somewhere: the route back to a saved camera has a plan,
\* the transfer of a model goes to a port of that model, and a lost monitor has a route.
WaysLeadSomewhere == use.found

\* The activities of a plan that a host is shown can be told apart; those that a USB
\* establishment shares with its connection are not checked by the load.
ActivitiesAreDistinct == use.kind = "ble" => IsInjective(use.ids)

\* A store that loads can be used.
LoadedStoreIsUsable ==
  /\ LoadDoesNotPanic /\ NoWaitForNothing /\ GatesCanBeMet
  /\ WaysLeadSomewhere /\ ActivitiesAreDistinct
=============================================================================
