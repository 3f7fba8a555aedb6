----------------------------- MODULE PtpExecutor -----------------------------
(***************************************************************************)
(* The client's interpreter of PTP plans: the steps of a mode entry or of  *)
(* an action, read from the manifest, are run against a camera that may    *)
(* answer anything at any time.  A top-level step is one action; what runs *)
(* below it is computed by the operators named after the functions of the  *)
(* interpreter.  They return the set of possible results, because every    *)
(* wait may end in any answer, in a failure or by a clock.                 *)
(*                                                                         *)
(* A result is [s, err, code, ok]: the walk's context, the error (class    *)
(* "none" if there is none), the response code and the payload.  Errors of *)
(* class "clock" and "budget" are not errors of the program: they say that *)
(* the future was dropped because the clock of an enclosing step or the    *)
(* budget of an enclosing await ran out, and nothing of it runs any more.  *)
(***************************************************************************)
EXTENDS Integers, Sequences, FiniteSets, TLC

CONSTANTS
  Calls,       \* calls of the entry points: entry, plan, seam and parameters
  Codes,       \* response codes other than OK
  Numbers,     \* numbers that a payload may hold
  MaxReplies,  \* bound: answers of the camera to one top-level step
  MaxIters,    \* MAX_FOREACH_ITERS and MAX_CHUNK_ITERS
  MaxParam     \* the largest value of an operation parameter

ExecutorAssumption ==
  /\ Numbers \subseteq Nat /\ MaxReplies \in Nat /\ MaxIters \in Nat /\ MaxParam \in Nat

VARIABLES
  call,        \* the call that is running
  phase,       \* idle, running, done, failed or refused
  next,        \* the next top-level step
  ctx          \* PtpCtx, with the reports and activity events sent so far

vars == <<call, phase, next, ctx>>

\* A step of a plan.  The fields that its verb does not use keep these values; an await
\* that polls no property has none, and If is IfElse without an else branch.
EntryStep ==
  [verb |-> "none", tolerant |-> FALSE, prop |-> "none", shape |-> "number", captures |-> <<>>,
   slot |-> "none", skips |-> FALSE, params |-> <<>>, repeat |-> 1, steps |-> <<>>,
   fallback |-> <<>>, else |-> <<>>, event |-> FALSE, until |-> [prop |-> "none", value |-> 0],
   codes |-> {}, decode |-> FALSE, limit |-> 1, delay |-> FALSE, over |-> "each",
   bind |-> "none", size |-> "none", equals |-> 0]

NoError == [class |-> "none", code |-> "none"]

Fresh(params) ==
  [fuel |-> 0, binds |-> params, params |-> params, obs |-> <<>>, coll |-> <<>>,
   steps |-> 0, attempts |-> -1, deferred |-> FALSE, reports |-> <<>>,
   activity |-> 0, events |-> <<>>, timed |-> FALSE, awaits |-> 0,
   absorbs |-> {}, missed |-> {}, blind |-> FALSE, hearing |-> EntryStep, heard |-> <<>>]

\* absorbs and missed are history: what the steps around this one absorb, and the
\* failures that nothing around them absorbs.  So are the step that is running and the
\* answers to steps that capture from them.
StepError(s, class, code) ==  \* ptp_executor.rs:674-698
  [s |-> [s EXCEPT !.missed = IF class \in {"clock", "budget"} \/ {class, code} \cap s.absorbs # {}
                              THEN @ ELSE @ \cup {class}],
   err |-> [class |-> class, code |-> code], code |-> code, ok |-> "none"]

Done(s) == [s |-> s, err |-> NoError, code |-> "none", ok |-> "none"]

Other(s) == {StepError(s, "other", "none")}

Dropped(r) == r.err.class \in {"clock", "budget"}

\* Sequencing: f continues after a result without an error.
Then(R, f(_)) == UNION {IF r.err.class = "none" THEN f(r) ELSE {r} : r \in R}

Set(f, k, v) == (k :> v) @@ f

\* transport_deadline: a wait ends well, by its clock, by an error of the transport, by
\* the clock of a step around it or by the budget of an await around it.
Wait(s) ==  \* ptp_executor.rs:2166-2195
  IF s.fuel = 0
  THEN {StepError(s, "deadline", "none")}
  ELSE LET t == [s EXCEPT !.fuel = @ - 1] IN
       {Done(t), StepError(t, "deadline", "none"), StepError(t, "transport", "none")}
         \cup (IF s.timed THEN {StepError(t, "clock", "none")} ELSE {})
         \cup (IF s.awaits > 0 THEN {StepError(t, "budget", "none")} ELSE {})

Hears(r, code, ok) ==
  [r EXCEPT !.code = code, !.ok = ok,
            !.s.heard = IF r.s.hearing.captures = <<>> THEN @
                        ELSE Append(@, [step |-> r.s.hearing, code |-> code, ok |-> ok])]

\* One operation: it fails as a wait does, breaks the protocol, is refused, or brings a
\* payload: a number, a diagnostic or bytes that cannot be decoded.
issue(s, payloads) ==  \* ptp_executor.rs:1641-1659
  Then(Wait(s), LAMBDA r :
         {Hears(r, "ok", p) : p \in payloads}
           \cup {Hears(r, c, [k |-> "none", n |-> 0]) : c \in Codes}
           \cup Other(r.s))

Scalars == {[k |-> "number", n |-> n] : n \in Numbers} \cup {[k |-> "bad", n |-> 0]}
Streams == Scalars \cup {[k |-> "diagnostic", n |-> n] : n \in Numbers}
Empty == {[k |-> "empty", n |-> 0]}

\* ptp_executor.rs:1924-1934
require_ok(r) == IF r.code = "ok" THEN {r} ELSE {StepError(r.s, "response", r.code)}

\* A refusal is noted for the step's report when the step tolerates it.
require_ok_or_tolerate(r, tolerant) ==
  IF r.code = "ok" THEN {r}
  ELSE IF tolerant THEN {[r EXCEPT !.s.deferred = TRUE]}
  ELSE {StepError(r.s, "response", r.code)}

\* Session steps need the frame seam, and never run where a daemon owns the session.
frame_transport(s) ==
  IF call.seam.ownership = "daemon" \/ ~ call.seam.frames THEN Other(s) ELSE {Done(s)}

-----------------------------------------------------------------------------
\* What a read binds.  A property is a number, a string, a stream of records, or has no
\* declared shape.
decode_property(s, st, r) ==  \* ptp_executor.rs:2085-2092
  IF st.shape # "number" THEN Other(s)
  ELSE IF r.ok.k = "bad" THEN {StepError(s, "decode", "none")}
  ELSE {[r EXCEPT !.s = [s EXCEPT !.obs = Set(@, st.prop, r.ok.n)]]}

\* The observed state follows a read; a record that is not declared is a diagnostic.
observe_property(s, st, r) ==
  IF st.shape # "stream" THEN decode_property(s, st, r)
  ELSE IF r.ok.k = "bad" THEN {StepError(s, "decode", "none")}
  ELSE {[r EXCEPT !.s = [s EXCEPT !.obs = Set(@, st.prop, r.ok.n),
                                  !.deferred = @ \/ r.ok.k = "diagnostic"]]}

\* An array of handles: a number n stands for the n values 1..n.
decode_u32_array(p) == [i \in 1..p.n |-> i]

\* Variant that keeps what an earlier attempt bound.
BindOnce(s, caps, value) ==
  [s EXCEPT !.binds = s.binds @@ [k \in {caps[i].bind : i \in DOMAIN caps} |-> value]]

Bind(s, caps, value) ==  \* ptp_executor.rs:2020-2030
  [s EXCEPT !.binds = [k \in {caps[i].bind : i \in DOMAIN caps} |-> value] @@ s.binds]

capture_property(s, st, r) ==
  LET caps == st.captures
      array(i) == caps[i].source = "array"
  IN IF \E i \in DOMAIN caps : array(i)
     THEN IF r.ok.k = "bad" THEN {StepError(s, "decode", "none")}
          ELSE IF \E i \in DOMAIN caps : ~ array(i) THEN Other(s)
          ELSE {[r EXCEPT !.s = [s EXCEPT !.coll =
                   [k \in {caps[i].bind : i \in DOMAIN caps} |-> decode_u32_array(r.ok)] @@ s.coll]]}
     ELSE IF st.shape = "stream"
     THEN IF caps # <<>> THEN Other(s) ELSE observe_property(s, st, r)
     ELSE IF caps = <<>> /\ st.shape = "blob" THEN {[r EXCEPT !.s = s]}
     ELSE IF st.shape = "string" /\ r.ok.k = "bad" THEN {StepError(s, "decode", "none")}
     ELSE Then(IF st.shape = "string" THEN {[r EXCEPT !.s = s]} ELSE decode_property(s, st, r),
               LAMBDA q : IF \E i \in DOMAIN caps : caps[i].source # "value" THEN Other(q.s)
                          ELSE {[q EXCEPT !.s = Bind(q.s, caps, r.ok.n)]})

\* A refused read binds its fallbacks if every capture declares one for the code.
bind_capture_fallbacks(st, code) ==  \* ptp_executor.rs:2032-2050
  st.captures # <<>> /\ \A i \in DOMAIN st.captures : code \in st.captures[i].fallback

\* Captures of an operation's payload.  On the typed seam a transaction id would be zero.
apply_captures(s, st, r) ==
  LET caps == st.captures
      unfit == {i \in DOMAIN caps : \/ caps[i].source = "value"
                                    \/ r.ok.k = "bad" /\ caps[i].source # "id"}
      first == CHOOSE i \in unfit : \A j \in unfit : i <= j
      scalars == {i \in DOMAIN caps : caps[i].source \in {"u32", "id"}}
      arrays == {i \in DOMAIN caps : caps[i].source = "array" /\ (unfit = {} \/ i < first)}
      listed == [s EXCEPT !.coll =
                   [k \in {caps[i].bind : i \in arrays} |-> decode_u32_array(r.ok)] @@ s.coll]
  IN IF unfit = {}
     THEN {[r EXCEPT !.s = [listed EXCEPT
             !.binds = [k \in {caps[i].bind : i \in scalars} |-> r.ok.n] @@ s.binds,
             !.blind = @ \/ (~ call.seam.frames /\ \E i \in scalars : caps[i].source = "id")]]}
     ELSE IF caps[first].source = "value" THEN Other(listed)
     ELSE {StepError(listed, "decode", "none")}

\* A parameter is a literal or a slot, shifted and masked, and has to fit.
Resolved(s, p) ==  \* ptp_executor.rs:2143-2164
  LET raw == s.binds[p.slot] \div 2^p.shift IN IF p.mask = 0 THEN raw ELSE raw % (p.mask + 1)

resolve_params(s, st) ==
  IF \A i \in DOMAIN st.params :
       LET p == st.params[i] IN
       p.slot # "none" =>
         p.slot \in DOMAIN s.binds /\ s.binds[p.slot] \in Nat /\ Resolved(s, p) <= MaxParam
  THEN {Done(s)} ELSE Other(s)

\* Whether a runtime value can be written to a property.
encode_runtime_property_value(shape, value) ==
  \/ value \in Nat /\ shape = "number" /\ value <= MaxParam
  \/ value \notin Nat /\ shape = "string"

-----------------------------------------------------------------------------
\* The verbs of a plan.
SetProp(st, s) ==
  IF st.shape # "number" THEN Other(s) ELSE Then(issue(s, Empty), require_ok)

\* A runtime value is written; a missing one is skipped where the step says so.
SetPropRuntime(st, s) ==  \* ptp_executor.rs:1101-1127
  IF st.slot \notin DOMAIN s.params
  THEN IF st.skips THEN {Done(s)} ELSE Other(s)
  ELSE IF ~ encode_runtime_property_value(st.shape, s.params[st.slot]) THEN Other(s)
  ELSE Then(issue(s, Empty), require_ok)

Payloads(st) == IF st.shape = "stream" THEN Streams ELSE Scalars

GetProp(st, s) ==  \* ptp_executor.rs:1128-1146
  Then(issue(s, Payloads(st)), LAMBDA r :
         IF r.code = "ok" THEN capture_property(r.s, st, r)
         ELSE IF bind_capture_fallbacks(st, r.code) THEN {[r EXCEPT !.s = Bind(r.s, st.captures, 0)]}
         ELSE {StepError(r.s, "response", r.code)})

ReadEcho(st, s) ==  \* ptp_executor.rs:1147-1169
  Then(Then(Then(issue(s, Payloads(st)), require_ok), LAMBDA r : capture_property(r.s, st, r)),
       LAMBDA r : Then(issue(r.s, Empty), require_ok))

RECURSIVE Repeated(_, _, _)
Repeated(st, s, n) ==  \* ptp_executor.rs:1170-1199
  Then(issue(s, Scalars), LAMBDA r :
         Then(IF r.code = "ok" THEN apply_captures(r.s, st, r)
              ELSE require_ok_or_tolerate(r, st.tolerant),
              LAMBDA q : IF n > 1 THEN Repeated(st, q.s, n - 1) ELSE {q}))

SendOp(st, s) ==  \* ptp_executor.rs:1170-1199
  Then(resolve_params(s, st), LAMBDA r : Repeated(st, r.s, st.repeat))

OpenChannel(st, s) == Then(frame_transport(s), LAMBDA r : Wait(r.s))  \* ptp_executor.rs:1200-1209

CloseSession(st, s) ==
  Then(frame_transport(s), LAMBDA a :
    Then(issue(a.s, Empty), LAMBDA b :
      Then(require_ok_or_tolerate(b, st.tolerant), LAMBDA c : Wait(c.s))))

ReopenSession(st, s) ==
  Then(CloseSession(st, s), LAMBDA r :
    Then(Wait(r.s), LAMBDA q :
      UNION {require_ok_or_tolerate([q EXCEPT !.code = c], st.tolerant) : c \in Codes \cup {"ok"}}))

RECURSIVE walk_steps(_, _, _)

\* The single wait for an event: what the transport brings has to be that event.
await_event(s) == Then(Wait(s), LAMBDA r : {r} \cup Other(r.s))

Holds(until, s) == until.prop \in DOMAIN s.obs /\ s.obs[until.prop] = until.value

\* The polling of an await: read, test, run the nested steps, sleep.
RECURSIVE Poll(_, _, _)
Poll(st, s, path) ==  \* ptp_executor.rs:1492-1543
  Then(IF st.prop = "none" THEN {Done(s)}
       ELSE Then(Then(issue(s, Payloads(st)), require_ok), LAMBDA r : observe_property(r.s, st, r)),
       LAMBDA r :
         IF Holds(st.until, r.s)
         THEN IF st.prop # "none" THEN capture_property(r.s, st, r)
              ELSE IF st.captures # <<>> THEN Other(r.s) ELSE {r}
         ELSE IF st.prop = "none" THEN Other(r.s)
         ELSE Then(Then(walk_steps(st.steps, r.s, path), LAMBDA q : Wait(q.s)),
                   LAMBDA q : Poll(st, q.s, path)))

\* The body of an await: an event, where it may be lost a poll after it, then the poll.
run_await_body(st, s, path) ==  \* ptp_executor.rs:1457-1491
  LET lost == call.seam.events = "bestEffort"
      heard == await_event([s EXCEPT !.absorbs = IF lost /\ st.prop # "none" THEN @ \cup {"deadline"} ELSE @])
      calm(r) == [r EXCEPT !.s.absorbs = s.absorbs]
      past(r) == IF ~ (lost /\ r.err.class = "deadline") THEN {calm(r)}
                 ELSE IF st.prop = "none" THEN Other(calm(r).s) ELSE {Done(calm(r).s)}
  IN Then(IF st.event
          THEN UNION {IF r.err.class = "none" THEN {calm(r)} ELSE past(r) : r \in heard}
          ELSE {Done(s)},
          LAMBDA r : Poll(st, r.s, path))

\* awaitUntil: the budget of the await ends it with a deadline.
AwaitUntil(st, s, path) ==
  UNION {IF r.err.class = "budget" /\ r.s.awaits = s.awaits + 1
         THEN {StepError([r.s EXCEPT !.awaits = s.awaits], "deadline", "none")}
         ELSE {[r EXCEPT !.s.awaits = s.awaits]}
         : r \in run_await_body(st, [s EXCEPT !.awaits = @ + 1], path)}

\* Variant that also repeats after a deadline.
SelectsAny(st, err) ==
  \/ err.class = "response" /\ err.code \in st.codes
  \/ err.class = "deadline"
  \/ err.class = "decode" /\ st.decode

\* Failures that a retry selects: listed responses, and decoding if it is listed.
selects(st, err) ==
  \/ err.class = "response" /\ err.code \in st.codes
  \/ err.class = "decode" /\ st.decode

retry_activity(s, ordinal, limit) ==  \* ptp_executor.rs:866-874
  IF s.activity = 0 THEN s
  ELSE [s EXCEPT !.events = Append(@, [id |-> s.activity, what |-> "retry", n |-> ordinal])]

\* Variant that counts the first attempt as a retry.
AttemptsMade(attempt) == attempt

control_attempts(attempt) == attempt - 1  \* ptp_executor.rs:1332, 1347

RECURSIVE Retry(_, _, _, _)
Retry(st, s, path, attempt) ==  \* ptp_executor.rs:1327-1362
  LET inside == [s EXCEPT !.absorbs = @ \cup st.codes \cup (IF st.decode THEN {"decode"} ELSE {})]
      ran(r) == [r EXCEPT !.s.absorbs = s.absorbs]
      counted(r) == [ran(r).s EXCEPT !.attempts = control_attempts(attempt)]
      after(r) ==
        IF r.err.class = "none" THEN {[ran(r) EXCEPT !.s = counted(r)]}
        ELSE IF Dropped(r) THEN {ran(r)}
        ELSE IF selects(st, r.err) /\ attempt < st.limit
        THEN LET told == retry_activity(ran(r).s, attempt + 1, st.limit)
             IN Then(IF st.delay THEN Wait(told) ELSE {Done(told)},
                     LAMBDA q : Retry(st, q.s, path, attempt + 1))
        ELSE IF selects(st, r.err) /\ st.fallback # <<>>
        THEN walk_steps(st.fallback, counted(r), Append(path, 0))
        ELSE {[ran(r) EXCEPT !.s = counted(r)]}
  IN UNION {after(r) : r \in walk_steps(st.steps, inside, path)}

\* The slots of a loop have their old values again.
restore(s, before, slots) ==  \* ptp_executor.rs:2594-2607
  [s EXCEPT !.binds = [k \in (DOMAIN @ \ slots) \cup (slots \cap DOMAIN before.binds)
                         |-> IF k \in slots THEN before.binds[k] ELSE @[k]]]

RECURSIVE Iterate(_, _, _, _)
Iterate(st, s, path, rounds) ==  \* ptp_executor.rs:1564-1578
  IF rounds = <<>> THEN {Done(s)}
  ELSE LET bound == [s EXCEPT !.binds = Head(rounds) @@ s.binds]
           body == {IF Dropped(r) THEN r ELSE [r EXCEPT !.s = restore(r.s, s, DOMAIN Head(rounds))]
                    : r \in walk_steps(st.steps, bound, path)}
       IN Then(body, LAMBDA r : Iterate(st, r.s, path, Tail(rounds)))

Windows(total, window) ==  \* ptp_executor.rs:1600-1637
  [i \in 1..((total + window - 1) \div window) |->
     [offset |-> (i - 1) * window,
      length |-> IF total - (i - 1) * window < window THEN total - (i - 1) * window ELSE window]]

Rounds(st, s) ==  \* ptp_executor.rs:1545-1563
  IF st.over = "each" THEN [i \in DOMAIN s.coll[st.slot] |-> (st.bind :> s.coll[st.slot][i])]
  ELSE Windows(s.binds[st.slot], s.binds[st.size])

\* A loop over a collection, or over the windows of a length.  A chunk loop stops at its
\* limit, after the windows before it.
run_loop(st, s, path) ==
  IF st.over = "each" /\ (st.slot \notin DOMAIN s.coll \/ Len(s.coll[st.slot]) > MaxIters)
  THEN Other(s)
  ELSE IF st.over = "chunk" /\ (\/ {st.slot, st.size} \ DOMAIN s.binds # {}
                                \/ s.binds[st.size] = 0)
  THEN Other(s)
  ELSE LET rounds == Rounds(st, s) IN
       IF Len(rounds) <= MaxIters THEN Iterate(st, s, path, rounds)
       ELSE Then(Iterate(st, s, path, SubSeq(rounds, 1, MaxIters)), LAMBDA r : Other(r.s))

\* A branch on a bound number; without an else branch nothing runs.
IfElse(st, s, path) ==  \* ptp_executor.rs:1364-1408
  IF st.slot \notin DOMAIN s.binds \/ s.binds[st.slot] \notin Nat THEN Other(s)
  ELSE walk_steps(IF s.binds[st.slot] = st.equals THEN st.steps ELSE st.else, s, path)

-----------------------------------------------------------------------------
run_step_once(st, s, path) ==  \* ptp_executor.rs:1077-1083
  CASE st.verb = "setProp" -> SetProp(st, s)
    [] st.verb = "setPropRuntime" -> SetPropRuntime(st, s)
    [] st.verb = "getProp" -> GetProp(st, s)
    [] st.verb = "readEcho" -> ReadEcho(st, s)
    [] st.verb = "sendOp" -> SendOp(st, s)
    [] st.verb = "openChannel" -> OpenChannel(st, s)
    [] st.verb = "closeSession" -> CloseSession(st, s)
    [] st.verb = "reopenSession" -> ReopenSession(st, s)
    [] st.verb = "awaitUntil" -> AwaitUntil(st, s, path)
    [] st.verb = "retry" -> Retry(st, s, path, 1)
    [] st.verb = "loop" -> run_loop(st, s, path)
    [] st.verb = "if" -> IfElse(st, s, path)

report_terminal(s, st, path, outcome) ==
  [s EXCEPT !.reports = Append(@, [at |-> path, verb |-> st.verb, outcome |-> outcome,
     attempts |-> IF st.verb = "retry" /\ s.attempts > 0 THEN s.attempts ELSE 0])]

Counts(s, outcome) ==  \* ptp_executor.rs:986-1029
  [s EXCEPT !.steps = IF outcome # "failed" THEN @ + 1 ELSE @, !.deferred = FALSE]

\* The end of a step: a refusal is tolerated where the step says so, and a noted one
\* makes the step tolerated.
Finish(st, s, path, r) ==
  LET own == ~ s.timed /\ st.verb # "awaitUntil"
      back == [r.s EXCEPT !.absorbs = s.absorbs, !.timed = s.timed, !.hearing = s.hearing]
      e == IF own /\ r.err.class = "clock" THEN StepError(back, "deadline", "none")
           ELSE [r EXCEPT !.s = back]
      outcome ==
        CASE e.err.class = "none" /\ ~ e.s.deferred -> "succeeded"
          [] e.err.class = "none" \/ (st.tolerant /\ e.err.class = "response") -> "tolerated"
          [] OTHER -> "failed"
      told == report_terminal(Counts(e.s, outcome), st, path, outcome)
  IN IF Dropped(e) THEN e
     ELSE [e EXCEPT !.s = [told EXCEPT !.attempts = -1],
                    !.err = IF outcome = "failed" THEN @ ELSE NoError]

\* One step: a start report, the step against its clock, and a terminal report.
run_step(st, s, path) ==
  LET begun == [s EXCEPT !.reports = Append(@, [at |-> path, verb |-> st.verb, outcome |-> "started", attempts |-> 0]),
                         !.attempts = -1, !.deferred = FALSE, !.hearing = st,
                         !.timed = @ \/ st.verb # "awaitUntil",
                         !.absorbs = @ \cup (IF st.tolerant THEN {"response"} ELSE {})
                                       \cup UNION {st.captures[i].fallback : i \in DOMAIN st.captures}]
  IN {Finish(st, s, path, r) : r \in run_step_once(st, begun, path)}

RECURSIVE WalkFrom(_, _, _, _)
WalkFrom(steps, s, path, i) ==  \* ptp_executor.rs:888-920
  IF i > Len(steps) THEN {Done(s)}
  ELSE Then(run_step(steps[i], s, Append(path, i)), LAMBDA r : WalkFrom(steps, r.s, path, i + 1))

walk_steps(steps, s, path) == WalkFrom(steps, s, path, 1)  \* ptp_executor.rs:888-920

-----------------------------------------------------------------------------
\* The steps below a step, to any depth.
RECURSIVE Below(_)
Below(steps) ==
  UNION {{steps[i]} \cup Below(steps[i].steps) \cup Below(steps[i].fallback) \cup Below(steps[i].else)
         : i \in DOMAIN steps}

preflight_transaction_id_captures(steps) ==
  \A st \in Below(steps) : \A j \in DOMAIN st.captures : st.captures[j].source # "id"

preflight_runtime_set_props(steps, params) ==
  \A st \in Below(steps) : st.verb = "setPropRuntime" =>
    IF st.slot \in DOMAIN params THEN encode_runtime_property_value(st.shape, params[st.slot])
    ELSE st.skips

\* What run_steps refuses before any I/O.
Accepts(c) ==  \* ptp_executor.rs:588-640
  /\ c.seam.known
  /\ ~ (c.seam.ownership = "daemon" /\ c.seam.frames)
  /\ ~ (c.seam.ownership = "initiator" /\ ~ c.seam.frames)
  /\ c.seam.frames \/ preflight_transaction_id_captures(c.plan.steps)
  /\ c.seam.frames => c.seam.framing # "none"
  /\ preflight_runtime_set_props(c.plan.steps, c.params)

\* The plans that the entry points find in the manifest.
ModeEntry(c) == c.entry = "mode" /\ c.plan.found /\ c.plan.kind = "ptp"
ReestablishmentExit(c) == c.entry = "exit" /\ c.plan.found /\ c.plan.kind = "reestablish" /\ c.seam.frames
resolve_initiator(c) == c.plan.role = "initiator" /\ c.plan.found
InitiatorAction(c) == c.entry = "action" /\ resolve_initiator(c) /\ c.plan.kind = "ptp"
SelectedObjectPreparation(c) == c.entry = "prepare" /\ c.plan.found

Init ==
  /\ call \in Calls
  /\ phase = "idle"
  /\ next = 1
  /\ ctx = Fresh(call.params)

run_steps ==
  /\ phase = "idle"
  /\ phase' = IF /\ \/ ModeEntry(call) \/ ReestablishmentExit(call)
                    \/ InitiatorAction(call) \/ SelectedObjectPreparation(call)
                 /\ Accepts(call)
              THEN "running" ELSE "refused"
  /\ UNCHANGED <<call, next, ctx>>

\* Activities of the plan: each spans top-level steps.
Event(s, what) == IF s.activity = 0 THEN s
                  ELSE [s EXCEPT !.events = Append(@, [id |-> s.activity, what |-> what, n |-> 0])]

finish_activity(s, what) == [Event(s, what) EXCEPT !.activity = 0]  \* ptp_executor.rs:854-864


\* A new activity first ends the one in progress.
start_activity(s, id) == Event([finish_activity(s, "succeeded") EXCEPT !.activity = id], "started")

Starting(s) ==  \* ptp_executor.rs:816-827
  LET ids == {i \in DOMAIN call.plan.activities : call.plan.activities[i].first = next}
  IN IF ids = {} THEN s ELSE start_activity(s, CHOOSE i \in ids : \A j \in ids : i <= j)

Ending(s) ==  \* ptp_executor.rs:829-839
  IF s.activity # 0 /\ call.plan.activities[s.activity].last = next
  THEN finish_activity(s, "succeeded") ELSE s

\* The next top-level step.  A failure ends the activity and the run.
WalkTop ==  \* ptp_executor.rs:888-920
  /\ phase = "running" /\ next <= Len(call.plan.steps)
  /\ \E r \in run_step(call.plan.steps[next], [Starting(ctx) EXCEPT !.fuel = MaxReplies], <<next>>) :
       IF r.err.class = "none"
       THEN phase' = "running" /\ next' = next + 1 /\ ctx' = [Ending(r.s) EXCEPT !.fuel = 0]
       ELSE /\ phase' = "failed" /\ next' = next
            /\ ctx' = [finish_activity(r.s, "failed") EXCEPT !.fuel = 0]
  /\ UNCHANGED call

\* The plan is done: the last activity succeeds and the outcome is returned.
outcome ==
  /\ phase = "running" /\ next > Len(call.plan.steps)
  /\ phase' = "done"
  /\ ctx' = finish_activity(ctx, "succeeded")
  /\ UNCHANGED <<call, next>>

Next == run_steps \/ WalkTop \/ outcome

Spec == Init /\ [][Next]_vars

-----------------------------------------------------------------------------
\* The run and its context have their types.
TypeOK ==
  /\ phase \in {"idle", "running", "done", "failed", "refused"}
  /\ next \in 1..(Len(call.plan.steps) + 1)
  /\ ctx.activity \in {0} \cup DOMAIN call.plan.activities
  /\ ~ ctx.timed /\ ctx.awaits = 0 /\ ctx.absorbs = {}

Count(what) == Cardinality({i \in DOMAIN ctx.reports : ctx.reports[i].outcome \in what})

\* Reports of one place, in order: a start, a terminal, a start, a terminal.
Paired(at) ==
  LET mine == SelectSeq(ctx.reports, LAMBDA p : p.at = at)
  IN /\ Len(mine) % 2 = 0
     /\ \A i \in DOMAIN mine : mine[i].outcome = "started" <=> i % 2 = 1

\* What a report says of a retry: the attempts after the first one, as they show in the
\* reports of its first step.  A fallback clears the count.
AttemptsAreReported ==
  \A j \in DOMAIN ctx.reports :
    LET me == ctx.reports[j]
        begin == CHOOSE i \in 1..j : /\ ctx.reports[i].at = me.at
                                     /\ \A k \in (i + 1)..(j - 1) : ctx.reports[k].at # me.at
        inside(at) == {k \in begin..j : ctx.reports[k].at = at /\ ctx.reports[k].outcome = "started"}
    IN me.verb = "retry" /\ me.outcome \in {"succeeded", "tolerated"} =>
         me.attempts = IF inside(me.at \o <<0, 1>>) # {} THEN 0
                       ELSE Cardinality(inside(Append(me.at, 1))) - 1

\* Whether the answer a gives slot k its value: a payload of the step that captures it, at
\* the end of its wait, or a refusal that all captures of a read have a value for.
Gives(a, k) ==
  LET caps == a.step.captures IN
  /\ \E i \in DOMAIN caps : caps[i].bind = k
  /\ \/ /\ a.code = "ok" /\ a.ok.k # "empty"
        /\ a.ok.k = "bad" => \A i \in DOMAIN caps : caps[i].source = "id"
        /\ a.step.verb = "awaitUntil" => a.ok.n = a.step.until.value
     \/ a.step.verb = "getProp" /\ bind_capture_fallbacks(a.step, a.code)

\* A slot holds what the last answer that was captured in it said, and a slot that nothing
\* was captured in holds the parameter of the call.
SlotsAreHeard(slots, given, Of(_)) ==
  \A k \in DOMAIN slots :
    LET giving == {i \in DOMAIN ctx.heard : Gives(ctx.heard[i], k)}
    IN IF giving = {} THEN k \in DOMAIN given /\ slots[k] = given[k]
       ELSE slots[k] = Of(ctx.heard[CHOOSE i \in giving : \A j \in giving : j <= i].ok)


\* The activities of a run follow one another: each starts once, may report retries, and
\* ends once, before the next one starts.  A run that is over leaves none open, and only
\* the last one may have failed, exactly if the run failed in it.
ActivitiesEnd ==
  LET e == ctx.events IN
  /\ \A i \in DOMAIN e :
       IF e[i].what = "started" THEN i = 1 \/ e[i - 1].what \in {"succeeded", "failed"}
       ELSE i > 1 /\ e[i - 1].id = e[i].id /\ e[i - 1].what \in {"started", "retry"}
  /\ \A i \in DOMAIN e : e[i].what = "failed" => i = Len(e) /\ phase = "failed"
  /\ phase \in {"done", "failed"} /\ e # <<>> => e[Len(e)].what \in {"succeeded", "failed"}
=============================================================================
