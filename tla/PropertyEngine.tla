---------------------------- MODULE PropertyEngine ----------------------------
(***************************************************************************)
(* The property and operation catalogue of the simulated camera            *)
(* (crates/camera-sim/src/engine.rs and state.rs, and the catalogue        *)
(* queries of crates/camera-config/src/query.rs): reads and writes under   *)
(* dispositions (valueless, silently refused), deferred transitions that   *)
(* settle when polled, composite records, vendor operations with effects   *)
(* and events, the live-view stream that blocks re-arming, and the         *)
(* control-side state of refusals and descriptors.                         *)
(*                                                                         *)
(* Values are small integers; a mode path is its sequence of segments, the *)
(* empty one standing for no detected mode.  The sequence gates and the    *)
(* workflow phase, and what they follow, are the subject of SequenceGates: *)
(* here the one gate is open or not, and LiveModes are the modes whose     *)
(* phase is live view.                                                     *)
(***************************************************************************)
EXTENDS Integers, Sequences, FiniteSets, SequencesExt, FiniteSetsExt

CONSTANTS PropTable,   \* the manifest's properties by code
          OpTable,     \* its operations by code
          ModeTable,   \* its modes in path order, with what they are detected by
          Connection,  \* the bound connection
          LiveModes,   \* modes whose declared phase is live view
          GuessedMode, \* the mode path assumed for value profiles before detection
          StoreSizes,  \* the sizes of the stored objects by handle
          Transitions, \* properties the manifest's responder actions may move
          Arming,      \* the property and value that start live view
          Values,      \* values a client may write
          SizeLimit,   \* what an object-size answer is counted modulo
          MaxEvents,   \* bound: queued events
          MaxQueued,   \* bound: objects made available
          MaxManaged,  \* bound: managed connections opened and not closed
          Budgets      \* auxiliary descriptor budgets an overlay may set

EngineAssumption ==
  /\ {MaxEvents, MaxQueued, MaxManaged} \cup Budgets \subseteq Nat
  /\ SizeLimit \in Nat \ {0} /\ Transitions \subseteq DOMAIN PropTable
  /\ Arming[1] \in DOMAIN PropTable

VARIABLES cam,   \* props, pending, events, mode, gate, stream, queue
          aux,   \* descriptor budget (-1: none configured), used and managed
          ap,    \* the held and the one-shot refusal of access points
          last   \* what the last request did, and when transitions were armed and read

vars == <<cam, aux, ap, last>>

Absent == -1
Properties == DOMAIN PropTable
Operations == DOMAIN OpTable

-----------------------------------------------------------------------------
\* Catalogue queries.

\* A predicate over observed values: none, or a property and the value it must have.
Holds(when, s) == when = <<>> \/ s.props[when[1]] = when[2]  \* engine.rs:1867-1873

mode_matches(modes, path) == modes = {} \/ \E m \in modes : IsPrefix(m, path)  \* query.rs:39-46

disposition_scope_matches(d, s) ==
  /\ d.connections = {} \/ Connection \in d.connections
  /\ IF s.mode = <<>> THEN d.modes = {} ELSE mode_matches(d.modes, s.mode)
  /\ Holds(d.when, s)

is_valueless(p, s) ==
  \E d \in PropTable[p].dispositions : d.kind = "valueless" /\ disposition_scope_matches(d, s)

is_write_silent_refusal(p, s) ==
  \E d \in PropTable[p].dispositions : d.kind = "silent" /\ disposition_scope_matches(d, s)

is_silent_refusal(op, s) == \E d \in OpTable[op].dispositions : disposition_scope_matches(d, s)

\* mode is <<>> before detection, when the mode axis does not constrain.
evaluate_availability(op, mode, s) ==
  LET o == OpTable[op]
  IN  IF o.advertisedOnly THEN "unavailable"
      ELSE IF o.connections # {} /\ Connection \notin o.connections THEN "wrongConnection"
      ELSE IF mode # <<>> /\ ~ mode_matches(o.modes, mode) THEN "wrongMode"
      ELSE IF ~ Holds(o.requires, s) THEN "blocked"
      ELSE "available"

\* Reads and writes of properties are not subject to the mode axis.
operation_availability_error(op, s) ==
  LET mode == IF OpTable[op].handler \in {"getDesc", "getValue", "setProp"} THEN <<>> ELSE s.mode
      availability == evaluate_availability(op, mode, s)
  IN  CASE availability = "available" -> "none"
        [] availability = "blocked" -> "generalError"
        [] OTHER -> "notSupported"

\* The same decision with every axis evaluated, for the trace it explains it with.
operation_available_explained(op, mode, s) ==
  LET o == OpTable[op]
      connectionOk == o.connections = {} \/ Connection \in o.connections
      modeOk == mode_matches(o.modes, mode)
  IN  IF o.advertisedOnly THEN "unavailable"
      ELSE IF ~ connectionOk THEN "wrongConnection"
      ELSE IF ~ modeOk THEN "wrongMode"
      ELSE IF ~ Holds(o.requires, s) THEN "blocked" ELSE "available"

detect_mode(props) ==  \* query.rs:463-472
  LET hits == {i \in DOMAIN ModeTable : props[ModeTable[i].detect[1]] = ModeTable[i].detect[2]}
  IN  IF hits = {} THEN <<>> ELSE ModeTable[Min(hits)].path

manifest_mode_path(s) == IF s.mode = <<>> THEN GuessedMode ELSE s.mode  \* state.rs:265-271

\* The most specific profile: a named connection first, then the longest mode.
value_profile_for(p, s) ==
  LET fit == {f \in PropTable[p].profiles :
                /\ f.connection \in {"any", Connection}
                /\ IsPrefix(f.mode, manifest_mode_path(s))}
      Rank(f) == (IF f.connection = "any" THEN 0 ELSE 100) + Len(f.mode)
  IN  IF fit = {} THEN {} ELSE {CHOOSE f \in fit : \A g \in fit : Rank(g) <= Rank(f)}

\* A value converted to the property's width.
typed(p, value) == value % (PropTable[p].max + 1)

\* A write by any of a row's values stores the row's own.
normalized_property_write(p, value, s) ==
  LET rows == {r \in UNION {f.rows : f \in value_profile_for(p, s)} :
                 value \in {r.raw} \cup r.aliases}
  IN  IF rows = {} THEN value ELSE typed(p, (CHOOSE r \in rows : TRUE).store)

-----------------------------------------------------------------------------
\* Deferred transitions.

arm_effect(s, p, value, settle) ==
  IF settle = 0
  THEN [s EXCEPT !.props[p] = value, !.pending[p] = [value |-> Absent, remaining |-> 0]]
  ELSE [s EXCEPT !.pending[p] = [value |-> value, remaining |-> settle]]

\* Every property of codes is polled once.
resolve_pending(s, codes) ==  \* state.rs:174-185
  LET due == {p \in codes : s.pending[p].remaining = 1}
  IN  [s EXCEPT !.props = [p \in Properties |-> IF p \in due THEN s.pending[p].value ELSE @[p]],
                !.pending = [p \in Properties |->
                   IF p \in due THEN [value |-> Absent, remaining |-> 0]
                   ELSE IF p \in codes /\ @[p].remaining > 0
                   THEN [@[p] EXCEPT !.remaining = @ - 1] ELSE @[p]]]

-----------------------------------------------------------------------------
\* Replies: the state after the request, the response and the data; an early one leaves
\* out what follows a successful operation.

Answer(s, reply, data) == [s |-> s, reply |-> reply, data |-> data, early |-> FALSE]

Early(answer) == [answer EXCEPT !.early = TRUE]

Refuse(s, reply) == Answer(s, reply, <<>>)

property_gate_reply(p, s) == PropTable[p].gated /\ ~ s.gate  \* engine.rs:1405-1408

operation_gate_reply(op, s) == OpTable[op].gated /\ ~ s.gate  \* engine.rs:1400-1403

\* The value described or read, the datatype's zero when none was ever stored.
build_prop_desc(p, s) == IF s.props[p] = Absent THEN 0 ELSE s.props[p]

\* The members of a composite that have a value: the stored one where the record's
\* encoding accepts it, the declared fallback otherwise.
Records(p, s) ==  \* engine.rs:2333-2373
  LET shown == SelectSeq(PropTable[p].members, LAMBDA m : ~ is_valueless(m.code, s))
  IN  [i \in DOMAIN shown |->
         <<shown[i].code, IF s.props[shown[i].code] \in shown[i].accepts
                          THEN s.props[shown[i].code] ELSE shown[i].fallback>>]

\* A record wider than its declared width fails the whole read.
record_stream_property(p, s) ==
  IF \E r \in Range(Records(p, s)), m \in Range(PropTable[p].members) :
       m.code = r[1] /\ r[2] > m.max
  THEN Refuse(s, "generalError") ELSE Answer(s, "ok", Records(p, s))

\* engine.rs:1847-1852
enumerated_object_handles(s) == IF s.queueOn THEN s.queue ELSE Len(StoreSizes)

\* engine.rs:1854-1865
computed_property_reply(s) == Answer(s, "ok", <<enumerated_object_handles(s)>>)

GetDevicePropDesc(p, s) ==  \* engine.rs:1243-1262
  IF property_gate_reply(p, s) THEN Refuse(s, "noResponse")
  ELSE IF is_valueless(p, s) THEN Refuse(s, "propNotSupported")
  ELSE Answer(s, "ok", <<build_prop_desc(p, s)>>)

\* Variant in which a composite read leaves its members' transitions alone.
PolledAlone(p, s) == resolve_pending(s, {p})

\* Reading a composite polls its members too.
\* engine.rs:1281-1301
Polled(p, s) == resolve_pending(s, {p} \cup {m.code : m \in Range(PropTable[p].members)})

GetDevicePropValue(p, s) ==
  IF property_gate_reply(p, s) THEN Refuse(s, "noResponse")
  ELSE IF s.queueOn /\ PropTable[p].computed THEN Early(computed_property_reply(s))
  ELSE IF is_valueless(p, s) THEN Refuse(s, "propNotSupported")
  ELSE LET t == Polled(p, s)
       IN  IF PropTable[p].members # <<>> THEN record_stream_property(p, t)
           ELSE IF PropTable[p].computed THEN computed_property_reply(t)
           ELSE Answer(t, "ok", <<build_prop_desc(p, t)>>)

\* An unread object or a stream left open blocks the write that starts live view.
pending_queue_blocks_live_view_arming(s) == s.queueOn /\ s.queue > 0  \* engine.rs:1978-1983

ArmingBlocked(p, value, s) ==  \* engine.rs:1964-1976
  <<p, value>> = Arming /\ (pending_queue_blocks_live_view_arming(s) \/ s.stream)

refresh_detected_mode(s) == [s EXCEPT !.mode = detect_mode(s.props)]  \* engine.rs:1772-1781

\* Variant in which a silent refusal is looked up before the missing value.
SilentBeforeValueless(p, value, s) ==
  IF ~ PropTable[p].writable THEN Refuse(s, "accessDenied")
  ELSE IF is_write_silent_refusal(p, s) THEN Answer(s, "ok", <<>>)
  ELSE IF is_valueless(p, s) THEN Refuse(s, "propNotSupported")
  ELSE Answer(refresh_detected_mode([s EXCEPT !.props[p] = value]), "ok", <<>>)

set_prop(p, value, s) ==
  IF ~ PropTable[p].writable THEN Refuse(s, "accessDenied")
  ELSE IF is_valueless(p, s) THEN Refuse(s, "propNotSupported")
  ELSE IF value > PropTable[p].max THEN Refuse(s, "invalidParameter")
  ELSE IF ArmingBlocked(p, value, s) THEN Refuse(s, "armingBlocked")
  ELSE IF is_write_silent_refusal(p, s) THEN Answer(s, "ok", <<>>)
  ELSE Answer(refresh_detected_mode([s EXCEPT !.props[p] = normalized_property_write(p, value, s)]),
              "ok", <<>>)

\* One step up or down the values of the descriptor, without wrapping.
vendor_step(p, up, s) ==
  LET values == PropTable[p].enum
      hits == {i \in DOMAIN values : values[i] = s.props[p]}
      at == IF hits = {} THEN 1 ELSE Min(hits)
      next == IF up THEN Min({at + 1, Len(values)}) ELSE Max({at - 1, 1})
  IN  IF values = <<>> THEN s ELSE [s EXCEPT !.props[p] = values[next]]

PropertyStep(p, params, s) ==  \* engine.rs:2105-2120
  IF is_write_silent_refusal(p, s) THEN Answer(s, "ok", <<>>)
  ELSE IF is_valueless(p, s) THEN Refuse(s, "propNotSupported")
  ELSE Answer(vendor_step(p, params # <<>> /\ params[1] # 0, s), "ok", <<>>)

\* The size of an object, cut to the width the operation answers with.
object_size_op(params, s) ==
  IF params = <<>> THEN Refuse(s, "invalidParameter")
  ELSE IF params[1] \notin DOMAIN StoreSizes THEN Refuse(s, "invalidHandle")
  ELSE Answer(s, "ok", <<StoreSizes[params[1]] % SizeLimit>>)

\* Variant that answers without giving the stream up.
TerminateKeeps(s) == Answer(s, "ok", <<>>)

TerminateOpenCapture(s) == Answer([s EXCEPT !.stream = FALSE], "ok", <<>>)  \* engine.rs:1347-1354

InitiateOpenCapture(s) ==  \* engine.rs:1355-1365
  IF s.mode \in LiveModes THEN Answer([s EXCEPT !.stream = TRUE], "ok", <<>>)
  ELSE Refuse(s, "generalError")

dispatch_manifest_op(op, params, s) ==
  CASE OpTable[op].handler = "propertyStep" -> PropertyStep(OpTable[op].property, params, s)
    [] OpTable[op].handler = "objectSize" -> object_size_op(params, s)
    [] OpTable[op].handler = "none" -> Answer(s, "ok", <<>>)

Handle(op, params, s) ==  \* engine.rs:1346-1367
  CASE OpTable[op].handler = "getDesc" -> GetDevicePropDesc(params[1], s)
    [] OpTable[op].handler = "getValue" -> GetDevicePropValue(params[1], s)
    [] OpTable[op].handler = "setProp" -> set_prop(params[1], params[2], s)
    [] OpTable[op].handler = "terminate" -> TerminateOpenCapture(s)
    [] OpTable[op].handler = "initiate" -> InitiateOpenCapture(s)
    [] OTHER -> dispatch_manifest_op(op, params, s)

\* An effect or an event that needs a missing request parameter is left out.
Present(e, params) == e.param <= Len(params)  \* engine.rs:2000-2014

\* The effects in order, so that a later one on the same property wins.
RECURSIVE ArmAll(_, _, _)
ArmAll(effects, params, s) ==  \* engine.rs:2014-2023
  IF effects = <<>> THEN s
  ELSE LET e == Head(effects)
           value == IF e.param = 0 THEN e.value ELSE params[e.param]
       IN  ArmAll(Tail(effects), params, arm_effect(s, e.prop, typed(e.prop, value), e.settle))

apply_op_effects(op, params, s) ==  \* engine.rs:1989-2024
  ArmAll(SelectSeq(OpTable[op].effects, LAMBDA e : Present(e, params)), params, s)

apply_op_emits(op, params, s) ==
  [s EXCEPT !.events = @ \o SelectSeq(OpTable[op].emits, LAMBDA e : Present(e, params))]

\* Variant that asks for the disposition again once the effects are in place.
DecidesTwice(op, params, silent, s) ==
  LET t == IF silent THEN s ELSE apply_op_effects(op, params, s)
  IN  IF is_silent_refusal(op, t) THEN t ELSE apply_op_emits(op, params, t)

apply_successful_operation(op, params, silent, s) ==  \* engine.rs:1378-1396
  IF silent THEN s ELSE apply_op_emits(op, params, apply_op_effects(op, params, s))

\* silent is decided before anything its predicate reads can change.
dispatch_operation(op, params, s) ==  \* engine.rs:1080-1134
  LET silent == is_silent_refusal(op, s)
      error  == operation_availability_error(op, s)
  IN  IF operation_gate_reply(op, s) THEN Refuse(s, "noResponse")
      ELSE IF error # "none" THEN Refuse(s, error)
      ELSE IF silent THEN Answer(s, "ok", <<>>)
      ELSE LET answer == Handle(op, params, s)
           IN  IF answer.reply # "ok" \/ answer.early THEN answer
               ELSE [answer EXCEPT !.s = apply_successful_operation(op, params, silent, answer.s)]

device_info_bytes(s) ==
  [ops |-> {op \in Operations : operation_availability_error(op, s) = "none"},
   props |-> {p \in Properties : ~ is_valueless(p, s)}]

-----------------------------------------------------------------------------
\* Requests.

Nothing == [op |-> "none", effects |-> FALSE, emits |-> FALSE]

FreshCamera ==
  [props |-> [p \in Properties |-> PropTable[p].initial],
   pending |-> [p \in Properties |-> [value |-> Absent, remaining |-> 0]],
   events |-> <<>>, mode |-> <<>>, gate |-> FALSE, stream |-> FALSE,
   queueOn |-> FALSE, queue |-> 0, offered |-> 0]

FreshAux == [budget |-> Absent, used |-> 0, managed |-> 0, shrunk |-> FALSE]
FreshAp == [held |-> FALSE, latch |-> FALSE, refused |-> 0, armed |-> 0]

Init ==
  /\ cam = FreshCamera
  /\ aux = FreshAux
  /\ ap = FreshAp
  /\ last = [did |-> Nothing, armed |-> [p \in Properties |-> [settle |-> 0, reads |-> 0]]]

\* The reads a transition of p has had since it was armed, which a step from cam to s
\* that arms or replaces it starts anew.
Armed(p, s, read) ==
  IF p \in read
  THEN [last.armed[p] EXCEPT !.reads = Min({@ + 1, last.armed[p].settle})]
  ELSE IF s.pending[p].remaining > cam.pending[p].remaining \/ s.pending[p].value # cam.pending[p].value
  THEN [settle |-> s.pending[p].remaining, reads |-> 0]
  ELSE last.armed[p]

\* The parameters a client may send: property reads and writes name a property.
ParamsOf(op) ==
  CASE OpTable[op].handler \in {"getDesc", "getValue"} -> {<<p>> : p \in Properties}
    [] OpTable[op].handler = "setProp" -> Properties \X Values
    [] OpTable[op].handler \in {"terminate", "initiate"} -> {<<>>}
    [] OTHER -> {<<>>, <<0>>, <<1>>}

\* An answered read of a value counts for the property and for the members it shows.
ReadBy(op, params, answer) ==
  IF OpTable[op].handler = "getValue" /\ answer.reply \in {"ok", "generalError"}
     /\ ~ PropTable[params[1]].computed
  THEN {params[1]} \cup {m.code : m \in Range(PropTable[params[1]].members)}
  ELSE {}

handle_operation ==
  /\ \E op \in Operations :
       \E params \in ParamsOf(op) :
         \E answer \in {dispatch_operation(op, params, cam)} :
           \E s \in {answer.s}, read \in {ReadBy(op, params, answer)} :
             /\ Len(s.events) <= MaxEvents
             /\ cam' = s
             /\ last' = [did |-> IF OpTable[op].effects = <<>> \/ OpTable[op].emits = <<>> THEN Nothing
                                 ELSE [op |-> op,
                                       effects |-> s.props # cam.props \/ s.pending # cam.pending,
                                       emits |-> s.events # cam.events],
                         armed |-> [p \in Properties |-> Armed(p, s, read)]]
  /\ UNCHANGED <<aux, ap>>

\* The control service's property transition: prepared against the declared width,
\* then applied.
PropertyTransition ==
  /\ \E p \in Transitions, initial \in Values \cup {Absent}, terminal \in Values, settle \in {0, 2} :
       /\ PropTable[p].members = <<>>
       /\ initial <= PropTable[p].max /\ terminal <= PropTable[p].max
       /\ cam' = arm_effect([cam EXCEPT !.props[p] = IF initial = Absent THEN @ ELSE initial],
                            p, terminal, settle)
       /\ last' = [did |-> Nothing,
                   armed |-> [last.armed EXCEPT ![p] = [settle |-> settle, reads |-> 0]]]
  /\ UNCHANGED <<aux, ap>>

\* engine.rs:800-812
pending_standard_object_enqueue(count) == Min({count, MaxQueued - cam.offered})

\* The control service's enqueue: as many objects as are left, each announced.
EnqueueObjects ==
  /\ cam.queueOn
  /\ \E count \in 0..MaxQueued :
       LET affected == pending_standard_object_enqueue(count)
       IN  /\ Len(cam.events) + affected <= MaxEvents
           /\ cam' = [cam EXCEPT !.queue = @ + affected, !.offered = @ + affected,
                        !.events = @ \o [i \in 1..affected |-> [code |-> "added", param |-> 0]]]
  /\ last' = [last EXCEPT !.did = Nothing]
  /\ UNCHANGED <<aux, ap>>

advance_property_to_next_enum ==
  /\ \E p \in Properties :
       LET values == PropTable[p].enum
       IN  \E i \in DOMAIN values :
             /\ values[i] = cam.props[p]
             /\ cam' = arm_effect(cam, p, values[(i % Len(values)) + 1], 0)
             /\ last' = [did |-> Nothing,
                         armed |-> [last.armed EXCEPT ![p] = [settle |-> 0, reads |-> 0]]]
  /\ UNCHANGED <<aux, ap>>

\* The event socket drains every queued event; an awaiting step takes the first of a code.
DrainEvents ==
  /\ cam.events # <<>>
  /\ \/ cam' = [cam EXCEPT !.events = <<>>]
     \/ \E i \in DOMAIN cam.events :
          /\ \A j \in 1..(i - 1) : cam.events[j].code # cam.events[i].code
          /\ cam' = [cam EXCEPT !.events = RemoveAt(@, i)]
  /\ last' = [last EXCEPT !.did = Nothing]
  /\ UNCHANGED <<aux, ap>>

\* Objects waiting before the session opens, in a queue configured at start.
preseed_standard_object_queue ==
  /\ \/ ~ cam.queueOn /\ cam' = [cam EXCEPT !.queueOn = TRUE]
     \/ cam.queueOn /\ \E n \in 1..(MaxQueued - cam.offered) :
                          cam' = [cam EXCEPT !.queue = @ + n, !.offered = @ + n]
  /\ last' = [last EXCEPT !.did = Nothing]
  /\ UNCHANGED <<aux, ap>>

\* A stream left open by an earlier session.
preseed_stale_live_view_stream ==
  /\ cam' = [cam EXCEPT !.stream = TRUE]
  /\ last' = [last EXCEPT !.did = Nothing]
  /\ UNCHANGED <<aux, ap>>

\* What other parts of the engine change: the gate, and objects fetched off the queue.
Elsewhere ==
  /\ \/ cam' = [cam EXCEPT !.gate = ~ @]
     \/ cam.queue > 0 /\ cam' = [cam EXCEPT !.queue = @ - 1]
  /\ last' = [last EXCEPT !.did = Nothing]
  /\ UNCHANGED <<aux, ap>>

-----------------------------------------------------------------------------
\* Control-side state.

\* An overlay's budget cuts the count in use; a reset in the same overlay clears both.
ConfigureAux ==
  /\ \E budget \in Budgets, reset \in BOOLEAN :
       aux' = [budget |-> budget,
               used |-> IF reset THEN 0 ELSE Min({aux.used, budget}),
               managed |-> IF reset THEN 0 ELSE aux.managed,
               shrunk |-> ~ reset /\ (aux.shrunk \/ aux.used > budget)]
  /\ UNCHANGED <<cam, ap, last>>

ConfigureAp ==  \* engine.rs:514-519
  /\ \E held, latch \in BOOLEAN :
       ap' = [held |-> held, latch |-> latch, armed |-> IF latch THEN 1 ELSE 0, refused |-> 0]
  /\ UNCHANGED <<cam, aux, last>>

aux_orphan_leak ==
  /\ aux.budget # Absent /\ aux.used < aux.budget
  /\ aux' = [aux EXCEPT !.used = @ + 1]
  /\ UNCHANGED <<cam, ap, last>>

aux_managed_open ==
  /\ aux.budget # Absent /\ aux.used < aux.budget /\ aux.managed < MaxManaged
  /\ aux' = [aux EXCEPT !.used = @ + 1, !.managed = @ + 1]
  /\ UNCHANGED <<cam, ap, last>>

\* Variant that forgets the descriptor of the connection it closes.
CloseLeaks ==
  /\ aux.managed > 0
  /\ aux' = [aux EXCEPT !.used = Max({@ - 2, 0}), !.managed = @ - 1]
  /\ UNCHANGED <<cam, ap, last>>

aux_managed_close ==
  /\ aux.managed > 0
  /\ aux' = [aux EXCEPT !.used = Max({@ - 1, 0}), !.managed = @ - 1]
  /\ UNCHANGED <<cam, ap, last>>

\* The held refusal wins; the one-shot one is used up.
ap_should_refuse ==
  /\ ap.held \/ ap.latch
  /\ ap' = IF ap.held THEN ap ELSE [ap EXCEPT !.latch = FALSE, !.refused = @ + 1]
  /\ UNCHANGED <<cam, aux, last>>

\* The camera's, the descriptors' and the refusals' state share nothing: a behaviour
\* changes one of them.
Next ==
  \/ /\ aux = FreshAux /\ ap = FreshAp
     /\ \/ handle_operation \/ PropertyTransition \/ EnqueueObjects
        \/ advance_property_to_next_enum \/ DrainEvents \/ Elsewhere
        \/ preseed_standard_object_queue \/ preseed_stale_live_view_stream
  \/ /\ cam = FreshCamera /\ ap = FreshAp
     /\ ConfigureAux \/ aux_orphan_leak \/ aux_managed_open \/ aux_managed_close
  \/ /\ cam = FreshCamera /\ aux = FreshAux
     /\ ConfigureAp \/ ap_should_refuse

Spec == Init /\ [][Next]_vars

-----------------------------------------------------------------------------
\* Properties.

\* Values, transitions, events and counters stay within their types.
TypeOK ==
  /\ \A p \in Properties : cam.props[p] \in {Absent} \cup 0..PropTable[p].max
  /\ \A p \in Properties : cam.pending[p].remaining \in 0..2
  /\ Len(cam.events) <= MaxEvents /\ cam.queue \in 0..MaxQueued
  /\ aux.used \in Nat /\ aux.managed \in Nat

\* An operation is never half applied: its effects and its events come together or not
\* at all, also when an effect changes what its own silent refusal depends on
\* (dispatch_operation decides once, apply_successful_operation).
NeverHalfApplied ==
  LET o == last.did
  IN  o.op # "none" =>
        /\ o.emits => o.effects \/ OpTable[o.op].effects = <<>>
                      \/ \A i \in DOMAIN OpTable[o.op].effects :
                           LET e == OpTable[o.op].effects[i]
                           IN  e.param > 0 \/ (e.settle = 0 /\ cam.props[e.prop] = e.value)
                               \/ cam.pending[e.prop].value = e.value
        /\ o.effects /\ OpTable[o.op].handler = "none"
             /\ (\E i \in DOMAIN OpTable[o.op].emits : OpTable[o.op].emits[i].param = 0) => o.emits

\* A property without a value in the current scope is absent for every request: not
\* described, not read, not written, not listed and in no composite
\* (GetDevicePropDesc, GetDevicePropValue, set_prop, device_info_bytes,
\* record_stream_property).
AbsentIsAbsent ==
  \A p \in Properties :
    is_valueless(p, cam) /\ ~ PropTable[p].gated /\ ~ PropTable[p].computed =>
      /\ GetDevicePropDesc(p, cam).reply = "propNotSupported"
      /\ GetDevicePropValue(p, cam).reply = "propNotSupported"
      /\ PropTable[p].writable =>
           \A v \in Values : set_prop(p, v, cam).reply = "propNotSupported"
      /\ p \notin device_info_bytes(cam).props
      /\ \A c \in Properties : PropTable[c].members # <<>> =>
           \A r \in Range(Records(c, cam)) : r[1] # p

\* A deferred transition becomes visible with exactly the read it was scheduled for,
\* whether the property is read itself or through a composite (resolve_pending).
SettlesOnSchedule ==
  \A p \in {q \in Properties : ~ PropTable[q].computed} :
    cam.pending[p].remaining = last.armed[p].settle - last.armed[p].reads

\* A described value is the value read, when no transition is under way.
ReadsAgree ==
  \A p \in Properties :
    (cam.pending[p].remaining = 0 /\ PropTable[p].members = <<>> /\ ~ PropTable[p].computed) =>
      GetDevicePropDesc(p, cam).data = GetDevicePropValue(p, cam).data

\* A stream left open never blocks live view for good: ending the open capture lets the
\* arming write through unless an object is waiting or the property refuses writes
\* (TERMINATE_OPEN_CAPTURE, stale_stream_blocks_live_view_arming).
ArmingIsRecoverable ==
  set_prop(Arming[1], Arming[2], TerminateOpenCapture(cam).s).reply = "armingBlocked"
    => cam.queueOn /\ cam.queue > 0

\* The explained availability is the one dispatch acts on, once a mode is detected
\* ("Same outcome as the fast path", operation_available_explained).
ExplainedAgrees ==
  cam.mode # <<>> =>
    \A op \in Operations :
      operation_available_explained(op, cam.mode, cam) = evaluate_availability(op, cam.mode, cam)

\* The descriptors of managed connections are accounted for and within the budget, unless
\* the budget was lowered below what was in use; a one-shot refusal is used once.
AccountsAreKept ==
  /\ ~ aux.shrunk => aux.managed <= aux.used
  /\ aux.used > 0 => aux.used <= aux.budget
  /\ ap.refused <= ap.armed

\* What the property surface promises.
SurfaceIsHonest ==
  /\ NeverHalfApplied /\ AbsentIsAbsent /\ SettlesOnSchedule
  /\ ReadsAgree /\ ArmingIsRecoverable /\ ExplainedAgrees /\ AccountsAreKept
===============================================================================
