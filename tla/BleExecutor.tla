----------------------------- MODULE BleExecutor -----------------------------
(***************************************************************************)
(* The client's interpreter of establishment plans, over Bluetooth or raw  *)
(* USB: retries, tolerated failures, awaits with a budget, activities, and *)
(* the refinement of the rest of the plan once the firmware is known.  A   *)
(* top-level step is one action; what runs below it is computed by the     *)
(* operators named after the functions, which return the set of possible   *)
(* results because every wait may end in any way.                          *)
(*                                                                         *)
(* A result is [s, err, v, tail]: the context, the error, the value read   *)
(* and the refined tail (<<>> if there is none).  An error of class        *)
(* "dropped" says that the future was dropped: by the budget of the        *)
(* enclosing await number "level", or by the host if that is zero.         *)
(***************************************************************************)
EXTENDS Integers, Sequences, FiniteSets, TLC

CONSTANTS
  Calls,       \* calls of the entry points: entry, transport, plan and parameters
  Values,      \* numbers that a value read from the camera may hold
  MaxReplies   \* bound: waits of one top-level step

BleAssumption == Values \subseteq Nat /\ MaxReplies \in Nat

VARIABLES
  call,        \* the call that is running
  phase,       \* idle, running, releasing, done, failed, cancelled or refused
  next,        \* the next top-level step
  plan,        \* the steps and activities, as refined so far
  ctx          \* ExecCtx, with the reports and activity events sent so far

vars == <<call, phase, next, plan, ctx>>

\* A number that a value cannot be converted to or from.
Unfit == -1

\* A step of a plan.  The fields that its verb does not use keep these values.
Step ==
  [verb |-> "none", tolerant |-> FALSE, retries |-> 0, delay |-> FALSE, confirms |-> FALSE,
   gatt |-> "g", source |-> "read", slot |-> "none", fields |-> {},
   value |-> [from |-> "literal", slot |-> "none"], nonce |-> [from |-> "literal", slot |-> "none"],
   accept |-> "any", cond |-> [slot |-> "none", op |-> "eq", than |-> 0],
   fail |-> <<>>, when |-> [slot |-> "none", op |-> "eq", than |-> 0], evidence |-> <<>>,
   steps |-> <<>>, else |-> <<>>, kind |-> "other", limit |-> 1, floor |-> 0]

NoError == [class |-> "none", level |-> 0]

Done(s) == [s |-> s, err |-> NoError, v |-> Unfit, tail |-> <<>>]
Failed(s, class) == [Done(s) EXCEPT !.err = [class |-> class, level |-> 0]]
Dropped(s, level) == [Done(s) EXCEPT !.err = [class |-> "dropped", level |-> level]]
StepError(s) == {Failed(s, "other")}

\* Sequencing: f continues after a result without an error.
Then(R, f(_)) == UNION {IF r.err.class = "none" THEN f(r) ELSE {r} : r \in R}

Bind(s, slots, v) ==
  [s EXCEPT !.scope = [k \in slots |-> v] @@ s.scope, !.since = @ \cup slots]
Unbind(s, slots) ==
  [s EXCEPT !.scope = [k \in DOMAIN @ \ slots |-> @[k]], !.since = @ \ slots]

\* What the transport may do to a wait: it ends, the transport fails or reports a
\* timeout, the executor's own clock ends it, or an enclosing budget or the host drops it.
deadline(s) ==
  IF s.fuel = 0
  THEN {IF s.awaits > 0 THEN Dropped(s, s.awaits) ELSE Failed(s, "deadline")}
  ELSE LET t == [s EXCEPT !.fuel = @ - 1] IN
       {Done(t), Failed(t, "other"), Failed(t, "deadline")} \cup {Dropped(t, k) : k \in 0..s.awaits}

\* A pause on the host's clock has no deadline of its own.
sleep(s) == IF s.fuel = 0 THEN {Done(s)} ELSE deadline(s)

\* A verb of the other transport fails.
\* executor.rs:2398-2411
ble_transport(s) == IF call.transport = "ble" THEN {Done(s)} ELSE StepError(s)
\* executor.rs:2410-2423
usb_transport(s) == IF call.transport = "usb" THEN {Done(s)} ELSE StepError(s)

read(s) == Then(deadline(s), LAMBDA r : {[r EXCEPT !.v = v] : v \in Values \cup {Unfit}})

\* Numbers compare as numbers, and "in" tests the members of a list.
predicate_holds(actual, op, than) ==
  CASE op = "eq"  -> actual = than
    [] op = "ne"  -> actual # than
    [] op = "gt"  -> actual > than
    [] op = "gte" -> actual >= than
    [] op = "lt"  -> actual < than
    [] op = "lte" -> actual <= than
    [] op = "in"  -> actual \in than

predicate_matches(s, p) ==  \* executor.rs:2211-2216
  p.slot \in DOMAIN s.scope /\ predicate_holds(s.scope[p.slot], p.op, p.than)

\* executor.rs:2205-2210
fail_when_holds(s, st) == st.fail # <<>> /\ predicate_matches(s, st.fail[1])

\* The bytes of a value: a literal, a template over scope and parameters, a runtime
\* parameter, or a captured slot.  They may be missing or unfit.
resolve_value(s, value) ==
  CASE value.from = "literal"  -> TRUE
    [] value.from = "template" -> value.slot \in DOMAIN s.scope \cup DOMAIN call.params
    [] value.from = "runtime"  -> value.slot \in DOMAIN call.params /\ call.params[value.slot] # Unfit
    [] value.from = "captured" -> value.slot \in DOMAIN s.scope /\ s.scope[value.slot] # Unfit

\* The whole value is bound under one name; a field that does not fit is skipped.
apply_value_captures(s, st, v) ==
  LET whole == IF st.slot = "none" THEN s ELSE Bind(s, {st.slot}, v)
  IN IF v = Unfit THEN whole ELSE Bind(whole, st.fields, v)

\* A subscription is made once; it is remembered only when it was acknowledged.
ensure_subscribed(s, gatt) ==
  IF gatt \in s.subscribed THEN {Done(s)}
  ELSE Then(deadline(s), LAMBDA r : {[r EXCEPT !.s.subscribed = @ \cup {gatt}]})

-----------------------------------------------------------------------------
\* The verbs.
Plain(s) == Then(ble_transport(s), LAMBDA r : deadline(r.s))

BleRequestMtu(st, s) ==
  Then(Then(ble_transport(s), LAMBDA r : deadline(r.s)), LAMBDA r :
         {r} \cup (IF st.floor > 0 THEN StepError(r.s) ELSE {}))

\* A read is transformed, decoded and bound.
BleRead(st, s) ==
  Then(Then(ble_transport(s), LAMBDA r : read(r.s)), LAMBDA r :
         IF r.v = Unfit THEN StepError(r.s) ELSE {Done(Bind(r.s, {st.slot}, r.v))})

BlePeripheralName(st, s) == BleRead(st, s)

BleWrite(st, s) ==
  Then(ble_transport(s), LAMBDA r :
         IF resolve_value(r.s, st.value) THEN deadline(r.s) ELSE StepError(r.s))

\* executor.rs:1614-1625
BleSubscribe(st, s) == Then(ble_transport(s), LAMBDA r : ensure_subscribed(r.s, st.gatt))

\* A notification that is not the awaited one keeps the wait alive.
RECURSIVE AcceptNotification(_, _)
AcceptNotification(st, s) ==
  Then(read(s), LAMBDA r :
         CASE st.accept = "any" \/ (st.accept = "equals" /\ r.v = st.cond.than)
                -> {Done(apply_value_captures(r.s, st, r.v))}
           [] st.accept = "equals" -> AcceptNotification(st, r.s)
           [] st.accept = "matches" -> {Done(apply_value_captures(r.s, st, r.v))}
                                         \cup AcceptNotification(st, r.s)
           [] OTHER -> StepError(r.s))

run_notify(st, s) ==  \* executor.rs:1934-1948
  Then(Then(ble_transport(s), LAMBDA r : ensure_subscribed(r.s, st.gatt)),
       LAMBDA r : AcceptNotification(st, r.s))

RECURSIVE walk_steps(_, _, _)

\* Variant that leaves the evidence of an earlier probe in the scope.
KeepsOld(st, s) == [s EXCEPT !.since = @ \ {st.when.slot}]

\* The evidence of an earlier probe is forgotten.
ClearEvidence(st, s) == Unbind(s, {st.when.slot})

\* Whether an observation that fails the await is proved by its evidence: the result's
\* value is 1 if it is.
Confirmed(st, s, path) ==  \* executor.rs:2047-2080
  IF ~ fail_when_holds(s, st) THEN {[Done(s) EXCEPT !.v = 0]}
  ELSE IF st.evidence = <<>> THEN {[Done(s) EXCEPT !.v = 1]}
  ELSE Then(walk_steps(st.evidence, ClearEvidence(st, s), path \o <<-1>>), LAMBDA r :
              {[r EXCEPT !.v = IF predicate_matches(r.s, st.when) THEN 1 ELSE 0,
                         !.s.stale = @ \/ (predicate_matches(r.s, st.when)
                                           /\ st.when.slot \notin r.s.since)]})

Later(old, new) == IF new = <<>> THEN old ELSE new

\* The rounds of an await: observe, test, probe a rejection, run the nested steps, pause.
RECURSIVE Observe(_, _, _, _)
Observe(st, s, path, tail) ==
  Then(read(s), LAMBDA r :
    LET seen == apply_value_captures(r.s, st, r.v) IN
    IF predicate_matches(seen, st.cond) THEN {[Done(seen) EXCEPT !.tail = tail]}
    ELSE Then(Confirmed(st, seen, path), LAMBDA c :
           IF c.v = 1 THEN {Failed(c.s, "rejected")}
           ELSE Then(walk_steps(st.steps, c.s, path \o <<0>>), LAMBDA w :
                  Then(IF st.source = "read" THEN sleep(w.s) ELSE {Done(w.s)}, LAMBDA p :
                         Observe(st, p.s, path, Later(Later(tail, c.tail), w.tail))))))

\* Its budget drops what runs in it and ends the await with a deadline.
run_await_until(st, s, path) ==
  LET ready == Then(ble_transport(s), LAMBDA r :
                      IF st.source = "read" THEN {r} ELSE ensure_subscribed(r.s, st.gatt))
      within(r) == Observe(st, [r.s EXCEPT !.awaits = @ + 1], path, <<>>)
      back(r) == [r EXCEPT !.s.awaits = s.awaits]
  IN Then(ready, LAMBDA r :
       {IF q.err = [class |-> "dropped", level |-> s.awaits + 1]
        THEN Failed(back(q).s, "deadline") ELSE back(q) : q \in within(r)})

\* One window of the host's blob, chosen by the captured index.
run_write_chunk(st, s) ==
  LET known == DOMAIN s.scope \cup DOMAIN call.params
      index == IF st.cond.slot \in DOMAIN s.scope THEN s.scope[st.cond.slot]
               ELSE call.params[st.cond.slot]
  IN Then(ble_transport(s), LAMBDA r :
       IF {st.value.slot, st.cond.slot} \subseteq known /\ index # Unfit /\ index < st.limit
       THEN deadline(r.s) ELSE StepError(r.s))

primary_capture_name(st) ==  \* executor.rs:2425-2435
  IF st.verb \in {"read", "name", "notify", "await"} THEN st.slot ELSE "none"

\* The delegate runs as a nested step; what it bound gets another name.
Acquire(st, s, path) ==
  LET target == primary_capture_name(st.steps[1]) IN
  Then(walk_steps(st.steps, s, path \o <<0>>), LAMBDA r :
    IF target = "none" THEN StepError(r.s)
    ELSE IF target \in DOMAIN r.s.scope
    THEN {[r EXCEPT !.s = Bind(r.s, {st.slot}, r.s.scope[target])]}
    ELSE {r})

\* The firmware decides how the plan goes on: not otherwise, with a new tail, or not at
\* all (an empty entry).
AcquireFirmware(st, s) ==
  LET found == CASE st.source = "read" -> Then(ble_transport(s), LAMBDA r : read(r.s))
                 [] st.source = "advert" /\ "advertisement" \in DOMAIN s.scope
                      -> {[Done(s) EXCEPT !.v = s.scope["advertisement"]]}
                 [] OTHER -> StepError(s)
      changes(v) == call.entry = "establish" /\ v \in DOMAIN call.refine
  IN Then(found, LAMBDA r :
       IF r.v = Unfit THEN StepError(r.s)
       ELSE LET known == Bind(r.s, {"firmware"}, r.v) IN
            CASE ~ changes(r.v) -> {Done(known)}
              [] changes(r.v) /\ call.refine[r.v] = <<>> -> StepError(known)
              [] OTHER -> {[Done(known) EXCEPT !.tail = call.refine[r.v]]})

\* An indication of the camera: it answers the stage or the exchange fails.
Indication(s) == Then(deadline(s), LAMBDA r : {r} \cup StepError(r.s))  \* executor.rs:1782-1803

\* Variant that keeps an earlier session while it authenticates again.
KeepsSession(st, s) == [s EXCEPT !.proof = FALSE]

\* A failed exchange never leaves an earlier session.
FailClosed(st, s) == [s EXCEPT !.session = FALSE, !.proof = FALSE]  \* executor.rs:1736-1738

\* The four stages of the Nikon authentication.
NikonLssAuthenticate(st, s) ==
  Then(ble_transport(s), LAMBDA a :
    LET closed == FailClosed(st, a.s) IN
    IF ~ resolve_value(closed, st.value) \/ ~ resolve_value(closed, st.nonce) THEN StepError(closed)
    ELSE Then(ensure_subscribed(closed, st.gatt), LAMBDA b :
           Then(deadline(b.s), LAMBDA c : Then(Indication(c.s), LAMBDA d :
             Then(deadline(d.s), LAMBDA e : Then(Indication(e.s), LAMBDA f :
               {[f EXCEPT !.s.session = TRUE, !.s.proof = TRUE]}))))))

\* What the configuration does not hold is unbound.
bind_nikon_connection_configuration(s, st, wifi) ==
  LET bare == Unbind(s, st.fields) IN
  Bind(IF wifi THEN Bind(bare, st.fields, 1) ELSE bare, {st.slot}, 0)

NikonLssReadConnectionConfiguration(st, s) ==
  Then(ble_transport(s), LAMBDA r :
    IF ~ r.s.session THEN StepError(r.s)
    ELSE Then(deadline(r.s), LAMBDA q :
           {Done(bind_nikon_connection_configuration([q.s EXCEPT !.stale = @ \/ ~ q.s.proof], st, w))
              : w \in BOOLEAN} \cup StepError(q.s)))

\* A branch; where the step says so an unbound slot counts as false.
If(st, s, path) ==  \* executor.rs:1822-1836
  IF st.cond.slot \notin DOMAIN s.scope /\ ~ st.tolerant THEN StepError(s)
  ELSE IF predicate_matches(s, st.cond) THEN walk_steps(st.steps, s, path \o <<0>>)
  ELSE walk_steps(st.else, s, path \o <<-1>>)

UsbClaim(st, s) ==
  Then(usb_transport(s), LAMBDA r :
    IF st.slot \notin call.interfaces THEN StepError(r.s)
    ELSE Then(deadline(r.s), LAMBDA q : {[q EXCEPT !.s.claimed = TRUE]}))

UsbBulkOut(st, s) ==  \* executor.rs:1860-1869
  Then(usb_transport(s), LAMBDA r :
         IF resolve_value(r.s, st.value) THEN deadline(r.s) ELSE StepError(r.s))

UsbRead(st, s) ==
  Then(Then(usb_transport(s), LAMBDA r : read(r.s)), LAMBDA r :
         IF r.v = Unfit THEN StepError(r.s) ELSE {Done(Bind(r.s, {st.slot}, r.v))})

run_step_once(st, s, path) ==  \* executor.rs:1493-1502
  CASE st.verb \in {"connect", "disconnect", "discover"} -> Plain(s)
    [] st.verb = "delay"    -> sleep(s)
    [] st.verb = "mtu"      -> BleRequestMtu(st, s)
    [] st.verb = "read"     -> BleRead(st, s)
    [] st.verb = "name"     -> BlePeripheralName(st, s)
    [] st.verb = "write"    -> BleWrite(st, s)
    [] st.verb = "subscribe" -> BleSubscribe(st, s)
    [] st.verb = "notify"   -> run_notify(st, s)
    [] st.verb = "await"    -> run_await_until(st, s, path)
    [] st.verb = "chunk"    -> run_write_chunk(st, s)
    [] st.verb = "acquire"  -> Acquire(st, s, path)
    [] st.verb = "firmware" -> AcquireFirmware(st, s)
    [] st.verb = "authenticate"  -> NikonLssAuthenticate(st, s)
    [] st.verb = "configuration" -> NikonLssReadConnectionConfiguration(st, s)
    [] st.verb = "if"       -> If(st, s, path)
    [] st.verb = "claim"    -> UsbClaim(st, s)
    [] st.verb = "bulkOut"  -> UsbBulkOut(st, s)
    [] st.verb \in {"bulkIn", "interrupt"} -> UsbRead(st, s)

-----------------------------------------------------------------------------
\* Activity events.  Only establishments and their readiness gates have an observer.
Event(s, what) ==
  IF s.activity = "none" THEN s
  ELSE [s EXCEPT !.events = Append(@, [id |-> s.activity, what |-> what, retries |-> s.again])]

begin_activity(s, id) ==  \* executor.rs:887-896
  IF call.entry = "action" THEN s
  ELSE Event([s EXCEPT !.activity = id, !.again = 0], "started")

\* executor.rs:898-908
end_activity(s, what) == [Event(s, what) EXCEPT !.activity = "none", !.again = 0]

\* executor.rs:910-918
retry_activity(s) == IF s.activity = "none" THEN s ELSE Event([s EXCEPT !.again = @ + 1], "retry")

Report(s, path, outcome, attempts) ==  \* executor.rs:1250-1264
  [s EXCEPT !.reports = Append(@, [at |-> path, outcome |-> outcome, attempts |-> attempts])]

\* Variant without a guard.
Unguarded(s, path, attempts) == s

\* The guard reports the end of a step whose future is dropped.
StepTerminalGuard(s, path, attempts) == Report(s, path, "failed", attempts)

\* A step ended: it is counted, and a success may confirm the establishment.
Ended(st, r, path, outcome, attempts) ==
  LET told == Report(r.s, path, outcome, attempts)
      counted == [told EXCEPT !.steps = @ + 1]
  IN CASE outcome = "succeeded" ->
            [r EXCEPT !.s = [counted EXCEPT !.confirm = IF st.confirms THEN "satisfied" ELSE @]]
       [] outcome = "tolerated" -> Done([counted EXCEPT !.tolerated = Append(@, path)])
       [] OTHER -> [r EXCEPT !.s = told]

\* The outcome of a step that will not run again.
Settled(st, r, path, attempts) ==
  CASE r.err.class = "none" -> Ended(st, r, path, "succeeded", attempts)
    [] r.err.class = "dropped" -> [r EXCEPT !.s = StepTerminalGuard(r.s, path, attempts)]
    [] st.tolerant /\ st.verb # "if" -> Ended(st, r, path, "tolerated", attempts)
    [] OTHER -> Ended(st, r, path, "failed", attempts)

\* A retry repeats its steps after the kind of failure it names, while its predicate
\* holds.  The steps that it runs after a failure come first; if they fail, so does it.
\* The value of the result is the number of retries consumed.
RECURSIVE run_retry_control(_, _, _, _)
run_retry_control(st, s, path, consumed) ==  \* executor.rs:1383-1467
  LET with(r, n) == [r EXCEPT !.v = n]
      again(w) ==
        UNION {IF p.err.class = "none" THEN run_retry_control(st, p.s, path, consumed + 1)
               ELSE {with(p, consumed + 1)}
               : p \in IF st.delay THEN sleep(w) ELSE {Done(w)}}
      repaired(w) ==
        CASE st.cond.slot \notin DOMAIN w.scope -> {with(Failed(w, "other"), consumed)}
          [] st.cond.slot \in DOMAIN w.scope
             /\ (~ predicate_matches(w, st.cond) \/ consumed + 1 >= st.limit)
               -> {with(Failed(w, st.kind), consumed)}
          [] OTHER -> again(retry_activity(w))
      after(r) ==
        IF r.err.class # st.kind THEN {with(r, consumed)}
        ELSE UNION {IF w.err.class = "none" THEN repaired(w.s) ELSE {with(w, consumed)}
                    : w \in walk_steps(st.else, r.s, path \o <<-1>>)}
  IN UNION {after(r) : r \in walk_steps(st.steps, s, path \o <<0>>)}

\* The attempts of any other step.  The pause between them may fail unnoticed.
RECURSIVE Attempt(_, _, _, _)
Attempt(st, s, path, attempt) ==
  LET pause(w) == IF st.delay THEN sleep(w) ELSE {Done(w)}
      after(r) ==
        IF r.err.class \in {"none", "dropped"} \/ attempt >= st.retries
        THEN {Settled(st, r, path, attempt)}
        ELSE UNION {IF p.err.class = "dropped" THEN {Settled(st, p, path, attempt + 1)}
                    ELSE Attempt(st, p.s, path, attempt + 1)
                    : p \in pause(retry_activity(r.s))}
  IN UNION {after(r) : r \in run_step_once(st, s, path)}

\* One step: a start report, the attempts, and a terminal report.
run_step(st, s, path) ==
  LET begun == [Report(s, path, "started", 0) EXCEPT
                  !.confirm = IF st.confirms /\ @ = "undeclared" THEN "unsatisfied" ELSE @]
  IN IF st.verb = "retry"
     THEN {Settled(st, r, path, r.v) : r \in run_retry_control(st, begun, path, 0)}
     ELSE Attempt(st, begun, path, 0)

RECURSIVE WalkFrom(_, _, _, _, _)
WalkFrom(steps, s, path, i, tail) ==  \* executor.rs:1208-1227
  IF i > Len(steps) THEN {[Done(s) EXCEPT !.tail = tail]}
  ELSE Then(run_step(steps[i], s, Append(path, i)),
            LAMBDA r : WalkFrom(steps, r.s, path, i + 1, Later(tail, r.tail)))

walk_steps(steps, s, path) == WalkFrom(steps, s, path, 1, <<>>)

-----------------------------------------------------------------------------
\* The steps below a list of steps, to any depth.
RECURSIVE Below(_)
Below(steps) ==
  UNION {{steps[i]} \cup Below(steps[i].steps) \cup Below(steps[i].else) \cup Below(steps[i].evidence)
         : i \in DOMAIN steps}

step_declares_confirmation(steps) == \E st \in Below(steps) : st.confirms

declare_for_steps(confirm, steps) ==  \* executor.rs:387-393
  IF step_declares_confirmation(steps) /\ confirm = "undeclared" THEN "unsatisfied" ELSE confirm

\* The plan behind a handle: a connection's establishment, or the mechanism it names.
resolve_plan_ref(h) ==
  /\ h.formed /\ h.index /\ h.body
  /\ h.connection # "bare"
  /\ h.listed

resolve_establishment(c) == resolve_plan_ref(c.handle) /\ c.transport \in c.handle.mechanisms
BleAction(c) == c.handle.index /\ c.handle.listed /\ c.handle.action

\* The steps that an entry point walks, and the activities of that sequence.
StepsOf(c) == IF c.entry = "readiness" THEN c.plan.readiness ELSE c.plan.steps
SequenceOf(c) == IF c.entry = "readiness" THEN "readiness" ELSE "steps"  \* executor.rs:527-541

Fresh(c) ==  \* executor.rs:443-475
  [fuel |-> 0, awaits |-> 0, scope |-> c.scope, since |-> {}, subscribed |-> {},
   session |-> FALSE, proof |-> FALSE, claimed |-> FALSE, released |-> FALSE, stale |-> FALSE,
   steps |-> 0,
   confirm |-> IF c.entry = "establish" THEN declare_for_steps("undeclared", c.plan.steps)
               ELSE "undeclared",
   tolerated |-> <<>>, reports |-> <<>>, activity |-> "none", again |-> 0, events |-> <<>>]

Init ==  \* executor.rs:433-475
  /\ call \in Calls
  /\ phase = "idle"
  /\ next = 1
  /\ plan = [steps |-> StepsOf(call), activities |-> IF call.entry = "action" THEN <<>>
                                                     ELSE call.plan.activities]
  /\ ctx = Fresh(call)

run_establishment ==
  /\ phase = "idle"
  /\ phase' = IF IF call.entry = "action" THEN BleAction(call) ELSE resolve_establishment(call)
              THEN "running" ELSE "refused"
  /\ UNCHANGED <<call, next, plan, ctx>>

-----------------------------------------------------------------------------
\* Spans of activities.  A span holds the steps after step first, up to step last.
Covering(i) ==  \* executor.rs:1060-1072
  {k \in DOMAIN plan.activities :
     /\ plan.activities[k].sequence = SequenceOf(call)
     /\ plan.activities[k].first < i /\ i <= plan.activities[k].last}

First(S) == CHOOSE k \in S : \A j \in S : k <= j

\* The activity that goes on over the splice: the one in progress, if the new spans
\* begin with it.
Continuation(i, new) ==  \* executor.rs:1127-1150
  IF Covering(i) = {} THEN {}
  ELSE {n \in DOMAIN new : /\ new[n].sequence = SequenceOf(call) /\ new[n].first = 0
                           /\ new[n].id = plan.activities[First(Covering(i))].id}

\* The last step of a span that is kept when the plan is spliced behind step i.
KeptLast(a, i) ==  \* executor.rs:1152-1165
  IF a.sequence # SequenceOf(call) \/ a.last <= i THEN a.last ELSE i

\* Variant that takes the end of the new span as it is.
ResumedUnmoved(i, span) == span.last

\* The last step of the activity that goes on.
Resumed(i, span) == i + span.last

\* The spans after a splice behind step i: later ones go, the others end there or go on.
splice_refined_activities(i, new) ==
  LET goes == Continuation(i, new)
      cut == [k \in DOMAIN plan.activities |-> [plan.activities[k] EXCEPT
                !.last = IF goes # {} /\ k = First(Covering(i)) THEN Resumed(i, new[First(goes)])
                         ELSE KeptLast(plan.activities[k], i)]]
      kept == SelectSeq(cut, LAMBDA a : a.sequence # SequenceOf(call) \/ a.first < i)
      moved == [n \in DOMAIN new |-> [new[n] EXCEPT !.first = @ + i, !.last = @ + i]]
      rest == IF goes = {} THEN moved
              ELSE SubSeq(moved, 1, First(goes) - 1) \o SubSeq(moved, First(goes) + 1, Len(moved))
  IN kept \o rest

\* A step begins the activity that covers it, unless one is in progress.
Beginning ==  \* executor.rs:1073-1077
  IF Covering(next) # {} /\ ctx.activity = "none"
  THEN begin_activity(ctx, plan.activities[First(Covering(next))].id) ELSE ctx

Ending(s) ==  \* executor.rs:1103-1115
  IF s.activity # "none" /\ Covering(next) # {} /\ plan.activities[First(Covering(next))].last = next
  THEN end_activity(s, "succeeded") ELSE s

\* The step succeeded; what it refined replaces the rest of the plan.
Advance(r) ==  \* executor.rs:1081-1095
  /\ phase' = "running" /\ next' = next + 1
  /\ IF r.tail = <<>>
     THEN ctx' = [Ending(r.s) EXCEPT !.fuel = 0] /\ plan' = plan
     ELSE LET t == r.tail[1] IN
          /\ plan' = [steps |-> SubSeq(plan.steps, 1, next) \o t.steps,
                      activities |-> splice_refined_activities(next, t.activities)]
          /\ ctx' = [IF Continuation(next, t.activities) # {} THEN r.s
                     ELSE end_activity(r.s, "succeeded")
                     EXCEPT !.fuel = 0, !.confirm = declare_for_steps(@, t.steps)]

\* A failure ends the activity and the walk; a claimed USB interface is released.  A
\* walk that the host drops cancels its activity.
Abort(r) ==  \* executor.rs:1096-1102
  /\ phase' = CASE r.err.class = "dropped" -> "cancelled"
                [] r.s.claimed -> "releasing"
                [] OTHER -> "failed"
  /\ ctx' = [end_activity(r.s, IF r.err.class = "dropped" THEN "cancelled" ELSE "failed")
             EXCEPT !.fuel = 0]
  /\ UNCHANGED <<next, plan>>

\* The next top-level step.
walk_plan_with_activities ==
  /\ phase = "running" /\ next <= Len(plan.steps)
  /\ \E r \in run_step(plan.steps[next], [Beginning EXCEPT !.fuel = MaxReplies], <<next>>) :
       IF r.err.class = "none" THEN Advance(r) ELSE Abort(r)
  /\ UNCHANGED call

\* The release is tried once, within a deadline; what comes of it is not reported.
UsbRelease ==
  /\ phase = "releasing"
  /\ phase' \in {"failed", "cancelled"}
  /\ ctx' = [ctx EXCEPT !.released = phase' = "failed"]
  /\ UNCHANGED <<call, next, plan>>

\* The outcome is returned; an activity still open would be cancelled by its destructor.
outcome ==
  /\ phase = "running" /\ next > Len(plan.steps)
  /\ phase' = "done"
  /\ ctx' = end_activity(ctx, "cancelled")
  /\ UNCHANGED <<call, next, plan>>

Next == run_establishment \/ walk_plan_with_activities \/ UsbRelease \/ outcome

Spec == Init /\ [][Next]_vars

-----------------------------------------------------------------------------
\* The walk and its context have their types.
TypeOK ==
  /\ phase \in {"idle", "running", "releasing", "done", "failed", "cancelled", "refused"}
  /\ next \in 1..(Len(plan.steps) + 1)
  /\ ctx.confirm \in {"undeclared", "unsatisfied", "satisfied"}
  /\ ctx.awaits = 0

\* The reports are well bracketed: the report at i ends the step that started at Open(i).
Closes(i) ==
  LET r == ctx.reports
      depth(j) == Cardinality({k \in 1..j : r[k].outcome = "started"})
                    - Cardinality({k \in 1..j : r[k].outcome # "started"})
  IN \E k \in 1..(i - 1) : /\ r[k].outcome = "started" /\ r[k].at = r[i].at
                           /\ depth(k) = depth(i) + 1
                           /\ \A j \in k..(i - 1) : depth(j) > depth(i)

Ends(outcomes) == {i \in DOMAIN ctx.reports : ctx.reports[i].outcome \in outcomes}

\* Exactly one start and one terminal report fire for every step at every nesting level,
\* properly nested, also when a budget or the host drops the step half way.  The walk
\* counts the steps that succeeded or were tolerated and names the tolerated ones, and
\* the establishment is confirmed exactly by the success of a step that confirms it.
StepsAreReported ==
  /\ \A i \in Ends({"succeeded", "tolerated", "failed"}) : Closes(i)
  /\ 2 * Cardinality(Ends({"started"})) = Len(ctx.reports)
  /\ ctx.steps = Cardinality(Ends({"succeeded", "tolerated"}))
  /\ Len(ctx.tolerated) = Cardinality(Ends({"tolerated"}))
  /\ phase = "running" => \A i \in Ends({"failed"}) : Len(ctx.reports[i].at) > 1
  /\ ctx.confirm # "undeclared" => step_declares_confirmation(plan.steps)
                                     \/ step_declares_confirmation(call.plan.steps)

\* A rejection is proved by evidence of its own probe, and an encrypted configuration is
\* read only in a session that the latest authentication proved.
NothingStale == ~ ctx.stale /\ (ctx.session => ctx.proof)

\* Activities follow one another, across a refinement of the plan too: each starts once,
\* counts the retries reported in it, and ends once before the next starts.  A walk that
\* is done leaves all of them succeeded; the last one fails or is cancelled exactly with
\* the walk.  A USB interface is given back exactly when a walk that claimed it failed.
WalkEndsClean ==
  LET e == ctx.events
      over == {"succeeded", "failed", "cancelled"}
  IN /\ \A i \in DOMAIN e :
          IF e[i].what = "started" THEN (i = 1 \/ e[i - 1].what \in over) /\ e[i].retries = 0
          ELSE /\ i > 1 /\ e[i - 1].id = e[i].id /\ e[i - 1].what \notin over
               /\ e[i].retries = e[i - 1].retries + (IF e[i].what = "retry" THEN 1 ELSE 0)
     /\ \A i \in DOMAIN e : e[i].what \in {"failed", "cancelled"} =>
          i = Len(e) /\ phase \in {"failed", "cancelled", "releasing"}
     /\ phase \in {"done", "failed", "cancelled"} /\ e # <<>> => e[Len(e)].what \in over
     /\ ctx.released <=> phase = "failed" /\ ctx.claimed
=============================================================================
