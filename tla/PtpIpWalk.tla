----------------------------- MODULE PtpIpWalk -----------------------------
(***************************************************************************)
(* The reference walker of PTP/IP step plans over the simulator's engine   *)
(* (crates/camera-sim/src/ptpip.rs): mode entries and actions, with        *)
(* tolerance, retries, loops and awaits.                                   *)
(*                                                                         *)
(* The engine is seen through Engine::on_operation: each request is        *)
(* answered by one of the replies the scenario allows for its operation.   *)
(* A function of the source becomes the set of its possible results        *)
(* [ok, code, c], "code" being the response code an error carries.         *)
(***************************************************************************)
EXTENDS Integers, Sequences, SequencesExt, FiniteSets

CONSTANTS Scenarios,       \* [plan, answers, params, session, volatile, events]
          Slots,           \* binding, collection and runtime slots
          Props,           \* property codes
          MaxAwaitIters,   \* MAX_AWAIT_ITERS
          MaxForEachIters, \* MAX_FOREACH_ITERS
          MaxChunkIters,   \* MAX_CHUNK_ITERS
          MaxWord          \* u32::MAX

VARIABLES scn, at, ctx, verdict

vars == <<scn, at, ctx, verdict>>

Unbound == -1  \* ptpip.rs:1032-1041

Good(c) == [ok |-> TRUE, code |-> "none", c |-> c]  \* ptpip.rs:83-95
Bad(c, code) == [ok |-> FALSE, code |-> code, c |-> c]  \* ptpip.rs:97-104

\* f on every result that went well; the failures stay.
Then(results, f(_)) == UNION {IF r.ok THEN f(r.c) ELSE {r} : r \in results}

---------------------------------------------------------------------------
(* Requests.                                                               *)

\* ptpip.rs:1088-1095
response_code(reply) == IF reply.kind \in {"response", "data", "stream"} THEN reply.code ELSE "none"

\* One transaction: [reply, c]; a transport failure is remembered, and what follows it counted.
issue_op(c, op) ==  \* ptpip.rs:859-870
  {[reply |-> reply,
    c |-> [c EXCEPT !.tid = @ + 1,
                    !.lastCode = response_code(reply),
                    !.late     = @ \/ c.dead,
                    !.dead     = @ \/ reply.kind \in {"silence", "close"},
                    !.streams  = IF reply.kind = "stream" /\ reply.code = "ok" THEN @ + 1 ELSE @,
                    !.session  = IF op = "closeSession" /\ response_code(reply) = "ok" THEN FALSE
                                 ELSE IF op = "openSession" /\ response_code(reply) = "ok" THEN TRUE ELSE @]]
     : reply \in c.answers[op]}

\* Tolerance covers whatever went wrong.
TolerateAll(reply, tolerant) == response_code(reply) = "ok" \/ tolerant

\* Tolerance covers a coded answer only; silence and a dropped socket stay fatal.
check_ok(reply, tolerant) ==
  response_code(reply) # "none" /\ (response_code(reply) = "ok" \/ tolerant)

simple_op(c, op, tolerant) ==  \* ptpip.rs:852-857
  {IF check_ok(x.reply, tolerant) THEN Good(x.c) ELSE Bad(x.c, "none") : x \in issue_op(c, op)}

set_prop_value(c, prop, tolerant) == simple_op(c, "set", tolerant)

\* runtime_string_value / a numeric runtime value: text of the wrong shape never reaches the camera.
set_prop(c, step) ==
  CASE step.value = "literal" -> set_prop_value(c, step.prop, step.tolerant)
    [] step.value = "runtime" ->
         IF c.params[step.slot] = Unbound THEN {IF step.skip THEN Good(c) ELSE Bad(c, "none")}
         ELSE IF step.malformed THEN {Bad(c, "none")} ELSE set_prop_value(c, step.prop, step.tolerant)

Decoded(x) == x.reply.kind = "data" /\ x.reply.code = "ok"  \* ptpip.rs:772-773
DecodeFailed(c) == [c EXCEPT !.lastClass = "decode"]  \* ptpip.rs:830-842

\* poll_prop / poll_collection: [some, ok, val, c].
Poll(c, tolerant) ==
  {IF Decoded(x)
   THEN IF x.reply.decodes THEN [ok |-> TRUE, some |-> TRUE, val |-> x.reply.val, c |-> x.c]
        ELSE [ok |-> FALSE, some |-> FALSE, val |-> <<>>, c |-> DecodeFailed(x.c)]
   ELSE [ok |-> tolerant /\ response_code(x.reply) # "none", some |-> FALSE, val |-> <<>>, c |-> x.c]
     : x \in issue_op(c, "get")}

Observe(c, prop, val) == [c EXCEPT !.observed[prop] = Len(val)]  \* ptpip.rs:313
\* ptpip.rs:936-944
capture_prop_value(c, slot, val) == IF slot = "none" THEN c ELSE [c EXCEPT !.bindings[slot] = Len(val)]

get_prop(c, step) ==
  UNION {CASE p.some /\ step.collection -> {Good([p.c EXCEPT !.collections[step.bind] = p.val])}
           [] p.some /\ ~step.collection -> {Good(capture_prop_value(Observe(p.c, step.prop, p.val), step.bind, p.val))}
           [] p.ok /\ ~p.some /\ ~step.collection /\ p.c.lastCode \in step.fallback ->
                {Good(capture_prop_value(p.c, step.bind, <<>>))}
           [] p.ok /\ ~p.some /\ (step.collection \/ p.c.lastCode \notin step.fallback) ->
                {IF step.tolerant THEN Good(p.c) ELSE Bad(p.c, "none")}
           [] ~p.ok -> {Bad(p.c, "none")}
           : p \in Poll(c, step.tolerant \/ (~step.collection /\ step.fallback # {}))}

read_echo(c, step) ==  \* ptpip.rs:317-325
  UNION {IF ~p.ok THEN {Bad(p.c, "none")}
         ELSE IF ~p.some THEN {Good(p.c)}
         ELSE simple_op(capture_prop_value(Observe(p.c, step.prop, p.val), step.bind, p.val), "set", step.tolerant)
           : p \in Poll(c, step.tolerant)}

---------------------------------------------------------------------------
(* sendOp: parameters, captures, stream completion.                        *)

transform_runtime_value(v, shift) == v \div 2^shift  \* ptpip.rs:1263-1274

\* resolve_params: bindings shadow the caller's slots; a value must fit a word.
resolve_params(c, params) ==
  \A i \in DOMAIN params :
    LET p == params[i]
        v == IF c.bindings[p.slot] # Unbound THEN c.bindings[p.slot] ELSE c.params[p.slot]
    IN  v # Unbound /\ transform_runtime_value(v, p.shift) <= MaxWord

\* apply_captures: scalars are bound together after the last one decoded, collections at once.
CaptureFails(cap, x) ==
  CASE cap.source = "transactionId" -> FALSE
    [] cap.source \in {"array", "word"} -> x.reply.kind = "response" \/ ~x.reply.decodes
    [] cap.source = "objectSize" -> x.reply.kind # "data" \/ ~x.reply.decodes

apply_captures(x, captures) ==
  LET failing == {i \in DOMAIN captures : CaptureFails(captures[i], x)}
      upto    == IF failing = {} THEN Len(captures) ELSE (CHOOSE i \in failing : \A j \in failing : i <= j) - 1
      arrays  == FoldLeft(LAMBDA c, cap : IF cap.source = "array" THEN [c EXCEPT !.collections[cap.bind] = x.reply.val] ELSE c,
                          x.c, SubSeq(captures, 1, upto))
      bound   == FoldLeft(LAMBDA c, cap : IF cap.source = "array" THEN c
                                          ELSE [c EXCEPT !.bindings[cap.bind] =
                                                  IF cap.source = "transactionId" THEN x.c.tid ELSE Len(x.reply.val)],
                          arrays, captures)
  IN  IF failing = {} THEN Good(bound) ELSE Bad(DecodeFailed(arrays), "none")

\* ptpip.rs:362-364
complete_stream(c, reply) == IF reply.kind = "stream" THEN [c EXCEPT !.completed = @ + 1] ELSE c

\* The step fails and leaves its stream uncompleted.
\* ptpip.rs:347-353
Abandon(c, reply) == Bad(IF reply.kind = "stream" THEN [c EXCEPT !.abandoned = @ + 1] ELSE c, "none")

\* A stream is read to its end unless a collection capture reads it itself.
consume_stream(x, captures) ==
  x.reply.kind = "stream" /\ (\A i \in DOMAIN captures : captures[i].source # "array") => x.reply.whole

\* The stream is completed only when the captures went well.
CompletesCaptured(x, step) ==
  IF ~consume_stream(x, step.captures) THEN Abandon(x.c, x.reply)
  ELSE LET captured == apply_captures(x, step.captures)
       IN  IF captured.ok THEN Good(complete_stream(captured.c, x.reply))
           ELSE IF step.tolerant THEN Good(captured.c) ELSE Abandon(captured.c, x.reply)

AfterOk(x, step) ==  \* ptpip.rs:339-366
  IF ~consume_stream(x, step.captures) THEN Abandon(x.c, x.reply)
  ELSE LET captured == apply_captures(x, step.captures)
       IN  IF captured.ok \/ step.tolerant THEN Good(complete_stream(captured.c, x.reply))
           ELSE Abandon(captured.c, x.reply)

send_op(c, step) ==
  IF ~resolve_params(c, step.params) THEN {Bad(c, "none")}
  ELSE {IF ~check_ok(x.reply, step.tolerant) THEN Bad(x.c, "none")
        ELSE IF response_code(x.reply) = "ok" THEN AfterOk(x, step) ELSE Good(x.c)
          : x \in issue_op(c, step.op)}

---------------------------------------------------------------------------
(* Sessions and channels.                                                  *)

\* A volatile command listener does not survive a live-view transport close.
reopen_session(c, tolerant) ==
  IF c.volatile /\ c.live THEN {Bad(c, "none")}
  ELSE Then(simple_op(c, "closeSession", tolerant), LAMBDA d : simple_op(d, "openSession", tolerant))

open_channel(c) == {IF c.ready THEN Good(c) ELSE Bad(c, "none")}  \* ptpip.rs:367-374

---------------------------------------------------------------------------
(* The walk.                                                               *)

RECURSIVE walk_steps(_, _), Repeat(_, _, _), run_step(_, _), AwaitRounds(_, _, _, _), Attempts(_, _, _),
          ForEach(_, _, _), Windows(_, _, _, _, _)

walk_steps(c, steps) ==  \* ptpip.rs:224-230
  IF steps = <<>> THEN {Good(c)}
  ELSE Then(Repeat(c, Head(steps), Head(steps).repeat),
            LAMBDA d : walk_steps([d EXCEPT !.ran = @ + 1], Tail(steps)))

\* Each repetition starts with no answer and no failure class; an error takes the last coded answer.
Repeat(c, step, n) ==  \* ptpip.rs:231-244
  IF n = 0 THEN {Good(c)}
  ELSE UNION {IF r.ok THEN Repeat(r.c, step, n - 1)
              ELSE {IF r.code = "none" /\ r.c.lastCode # "ok" THEN Bad(r.c, r.c.lastCode) ELSE r}
                : r \in run_step([c EXCEPT !.lastCode = "none", !.lastClass = "none"], step)}

run_step(c, step) ==
  CASE step.verb = "set"     -> set_prop(c, step)
    [] step.verb = "get"     -> get_prop(c, step)
    [] step.verb = "echo"    -> read_echo(c, step)
    [] step.verb = "send"    -> send_op(c, step)
    [] step.verb = "channel" -> open_channel(c)
    [] step.verb = "reopen"  -> reopen_session(c, step.tolerant)
    [] step.verb = "close"   -> simple_op(c, "closeSession", step.tolerant)
    [] step.verb = "retry"   -> Attempts(c, step, 1)
    [] step.verb = "await"   ->
         IF step.event = "none" THEN AwaitRounds(c, step, 1, TRUE)
         ELSE IF step.event \notin c.events
              THEN {IF step.tolerant THEN Good([c EXCEPT !.awaits = Append(@, 0)]) ELSE Bad(c, "none")}
              ELSE AwaitRounds([c EXCEPT !.events = @ \ {step.event}], step, 1, step.thenPoll)
    [] step.verb = "forEach" ->
         IF c.collections[step.over] = <<-1>> THEN {Bad(c, "none")}
         ELSE LET items == c.collections[step.over]
              IN  IF Len(items) > MaxForEachIters /\ ~step.tolerant THEN {Bad(c, "none")}
                  ELSE ForEach(c, step, SubSeq(items, 1, IF Len(items) > MaxForEachIters THEN MaxForEachIters ELSE Len(items)))
    [] step.verb = "chunk" ->
         IF c.bindings[step.total] = Unbound THEN {Bad(c, "none")}
         ELSE Windows(c, step, c.bindings[step.total], 0, 0)
    [] step.verb = "if" ->
         IF c.bindings[step.slot] = Unbound THEN {Bad(c, "none")}
         ELSE walk_steps(c, IF c.bindings[step.slot] = step.equals THEN step.body ELSE step.other)
    [] step.verb = "none" -> {Bad(c, "none")}

\* run_await_until: poll strictly, test, act, again; a single evaluation when there is nothing to poll.
AwaitRounds(c, step, n, polls) ==
  IF ~polls
  THEN {IF c.observed[step.prop] >= step.until \/ step.tolerant THEN Good([c EXCEPT !.awaits = Append(@, 1)]) ELSE Bad(c, "none")}
  ELSE IF n > MaxAwaitIters
  THEN {IF step.tolerant THEN Good([c EXCEPT !.awaits = Append(@, MaxAwaitIters)]) ELSE Bad(c, "none")}
  ELSE UNION {IF ~p.ok THEN {Bad(p.c, "none")}
              ELSE LET seen == Observe(p.c, step.prop, p.val)
                   IN  IF seen.observed[step.prop] >= step.until THEN {Good([seen EXCEPT !.awaits = Append(@, n)])}
                       ELSE Then(walk_steps(seen, step.body), LAMBDA d : AwaitRounds(d, step, n + 1, polls))
                : p \in Poll(c, FALSE)}

\* run_step_retry: the failures that are selected run the body again, the last one the fallback.
Attempts(c, step, n) ==
  UNION {IF r.ok THEN {r}
         ELSE LET code   == IF r.code # "none" THEN r.code ELSE IF r.c.lastCode # "ok" THEN r.c.lastCode ELSE "none"
                  coded  == code \in step.codes
                  decode == r.c.lastClass = "decode" /\ step.decode
              IN  IF ~coded /\ ~decode THEN {Bad(r.c, code)}
                  ELSE IF n < step.attempts THEN Attempts([r.c EXCEPT !.delays = @ + 1], step, n + 1)
                  ELSE IF step.other # <<>>
                       THEN {IF ~f.ok /\ step.tolerant /\ f.code # "none" THEN Good(f.c) ELSE f : f \in walk_steps([r.c EXCEPT !.excused = @ + 1], step.other)}
                  ELSE {IF step.tolerant /\ coded THEN Good([r.c EXCEPT !.excused = @ + 1]) ELSE Bad(r.c, code)}
           : r \in walk_steps(c, step.body)}

\* Only a body that went well gives the slot back.
RestoreOnSuccess(r, slot, prev) == IF r.ok THEN [r EXCEPT !.c.bindings[slot] = prev] ELSE r

\* restore: the slot a loop bound gets its earlier value back, on a failure too.
restore(r, slot, prev) == [r EXCEPT !.c.bindings[slot] = prev]  \* ptpip.rs:1029-1041

ForEach(c, step, items) ==
  IF items = <<>> THEN {Good([c EXCEPT !.loops = @ + 1])}
  ELSE Then({restore(r, step.bind, c.bindings[step.bind])
               : r \in walk_steps([c EXCEPT !.bindings[step.bind] = Head(items)], step.body)},
            LAMBDA d : ForEach(d, step, Tail(items)))

Windows(c, step, total, offset, n) ==
  LET length == IF total - offset < step.size THEN total - offset ELSE step.size
  IN  IF offset >= total THEN {Good([c EXCEPT !.loops = @ + 1])}
      ELSE IF n >= MaxChunkIters THEN {IF step.tolerant THEN Good([c EXCEPT !.loops = @ + 1]) ELSE Bad(c, "none")}
      ELSE Then({restore(restore(r, step.bind, c.bindings[step.bind]), step.length, c.bindings[step.length])
                   : r \in walk_steps([c EXCEPT !.bindings[step.bind] = offset, !.bindings[step.length] = length], step.body)},
                LAMBDA d : Windows(d, step, total, offset + length, n + 1))

---------------------------------------------------------------------------

\* walk_ptpip_in: the session is opened unless it already is.
OpenSession ==
  /\ at = 0
  /\ \E r \in IF ctx.session THEN {Good(ctx)} ELSE simple_op(ctx, "openSession", FALSE) :
       /\ ctx' = r.c
       /\ at' = 1
       /\ verdict' = IF r.ok THEN "walking" ELSE "failed"
  /\ UNCHANGED scn

WalkStep ==
  /\ verdict = "walking"
  /\ at \in 1..Len(scn.plan)
  /\ \E r \in walk_steps(ctx, <<scn.plan[at]>>) :
       /\ ctx' = r.c
       /\ verdict' = IF r.ok THEN "walking" ELSE "failed"
  /\ at' = at + 1
  /\ UNCHANGED scn

Finish ==
  /\ verdict = "walking"
  /\ at = Len(scn.plan) + 1
  /\ verdict' = "done"
  /\ UNCHANGED <<scn, at, ctx>>

Init ==  \* ptpip.rs:136-152
  /\ scn \in Scenarios
  /\ at = 0
  /\ verdict = "opening"
  /\ ctx = [answers |-> scn.answers, params |-> scn.params, bindings |-> [s \in Slots |-> Unbound],
            collections |-> [s \in Slots |-> <<-1>>], observed |-> [p \in Props |-> 0], tid |-> 1, ran |-> 0,
            awaits |-> <<>>, loops |-> 0, delays |-> 0, lastCode |-> "none", lastClass |-> "none",
            session |-> scn.session, volatile |-> scn.volatile, live |-> scn.live, ready |-> scn.ready,
            events |-> scn.events, dead |-> FALSE, late |-> FALSE, streams |-> 0, completed |-> 0, abandoned |-> 0, excused |-> 0]

Next == OpenSession \/ WalkStep \/ Finish

Spec == Init /\ [][Next]_vars

---------------------------------------------------------------------------

TypeOK ==
  /\ at \in 0..(Len(scn.plan) + 1)
  /\ verdict \in {"opening", "walking", "failed", "done"}
  /\ ctx.bindings \in [Slots -> Int]
  /\ ctx.lastCode \in {"none", "ok", "busy", "refused"}
  /\ ctx.lastClass \in {"none", "decode"}

\* check_ok, poll_prop, run_step_retry: silence or a dropped socket ends the
\* walk; no tolerance, retry or fallback sends another request after it.
SilenceIsFatal == ctx.dead => ~ctx.late /\ verdict = "failed"

\* restore: the slots a loop binds have, between top-level steps, the value
\* they had before the loop, whether its body succeeded or failed.
LoopSlotsAreRestored ==
  \A s \in scn.loopOnly : ctx.bindings[s] = Unbound

\* complete_stream: a stream answered OK is completed once by the step that
\* read it, tolerated capture failures included; only a failed step leaves
\* one uncompleted, and the walk then ends or a retry reads it again.
StreamsAreCompleted ==
  /\ ctx.streams = ctx.completed + ctx.abandoned
  /\ verdict \in {"walking", "done"} => ctx.abandoned <= ctx.delays + ctx.excused

\* What a plan may rely on, whatever the camera answers.
PlanIsWalked == SilenceIsFatal /\ LoopSlotsAreRestored /\ StreamsAreCompleted

=============================================================================
