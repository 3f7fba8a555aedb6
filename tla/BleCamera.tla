----------------------------- MODULE BleCamera -----------------------------
(***************************************************************************)
(* The in-memory GATT camera, the reference walker of establishment plans  *)
(* (crates/camera-sim/src/ble.rs), and the link through which BLE writes   *)
(* arm the PTP/IP init handshake (link.rs).  The walker borrows the        *)
(* responder for a whole plan; PTP/IP initiators read the link meanwhile,  *)
(* in two separate reads.                                                  *)
(*                                                                         *)
(* Bytes on the wire are sequences of numbers.  A captured value is the    *)
(* pair of its bytes and the encoding it was printed with: printing one    *)
(* back with another encoding garbles it.                                  *)
(***************************************************************************)
EXTENDS Integers, Sequences, SequencesExt, FiniteSets

CONSTANTS Scenarios,   \* [plan, responder, scope, encodings, params]: what is walked and against what
          Uuids,       \* characteristics
          Keys,        \* scope keys
          HostNames,   \* friendly names initiators present
          MaxIters,    \* MAX_AWAIT_ITERS
          MaxInits,    \* bound: init requests
          Nothing      \* None

VARIABLES scn,    \* the scenario
          at,     \* next top-level step of the plan
          ctx,    \* WalkCtx, with the responder and the link it writes to
          init    \* the PTP/IP init requests: the pending one and the answered ones

vars == <<scn, at, ctx, init>>  \* ble.rs:598-612

Garbled == <<99>>  \* ble.rs:1302-1304

\* The records of the four-stage authentication.
Stage1 == 101  \* nikon_lss.rs:142-151
Stage2 == 102
Stage3 == 103
Stage4 == 104  \* nikon_lss.rs:181-199

---------------------------------------------------------------------------
(* BleResponder.  Each operation takes the context and gives [ok, kind,    *)
(* value, c].                                                              *)

Okay(c, v) == [ok |-> TRUE, kind |-> "none", value |-> v, c |-> c]  \* ble.rs:728-735
Fails(c, k) == [ok |-> FALSE, kind |-> k, value |-> Nothing, c |-> c]

Heard(c, e) == [c EXCEPT !.log = Append(@, e)]  \* ble.rs:31-42

\* ble.rs:317-321
connect(c) == Okay(Heard([c EXCEPT !.r.connected = TRUE, !.r.discovered = FALSE], <<"connect">>), Nothing)

await_disconnect(c) ==  \* ble.rs:329-341
  IF ~c.r.connected \/ ~c.r.peer THEN Fails(c, "other")
  ELSE Okay(Heard([c EXCEPT !.r.peer = FALSE, !.r.connected = FALSE, !.r.discovered = FALSE], <<"disconnect">>), Nothing)

request_mtu(c, requested) ==  \* ble.rs:343-356
  IF ~c.r.connected \/ c.r.mtuFails THEN Fails(c, "other")
  ELSE LET negotiated == IF requested < c.r.mtuCap THEN requested ELSE c.r.mtuCap
       IN  Okay(Heard(c, <<"mtu", requested, negotiated>>), negotiated)

discover_services(c) ==  \* ble.rs:358-365
  IF ~c.r.connected THEN Fails(c, "other")
  ELSE Okay(Heard([c EXCEPT !.r.discovered = TRUE], <<"discover">>), Nothing)

peripheral_name(c) ==  \* ble.rs:307-315
  IF ~c.r.connected THEN Fails(c, "other")
  ELSE LET heard == Heard(c, <<"peripheral name">>)
       IN  IF c.r.name = Nothing THEN Fails(heard, "other") ELSE Okay(heard, c.r.name)

require_char(c, u) == c.r.connected /\ c.r.discovered /\ u \in c.r.catalog  \* ble.rs:367-378

read(c, u) ==
  IF ~require_char(c, u) THEN Fails(c, "other")
  ELSE LET heard == Heard(c, <<"read", u>>)
           seq   == c.r.reads[u]
       IN  IF seq = <<>> THEN Fails(heard, "other")
           ELSE Okay(IF Len(seq) > 1 THEN [heard EXCEPT !.r.reads[u] = Tail(@)] ELSE heard, Head(seq))

\* link.rs: note_prep_write, launch_ap, note_device_name.
Linked(link, u, value) ==
  CASE u = "arm"    -> [link EXCEPT !.prep = TRUE]
    [] u = "launch" -> [link EXCEPT !.armed = link.prep]
    [] u = "name"   -> [link EXCEPT !.name = value]
    [] OTHER        -> link

preflight_write(c, u, value) ==
  /\ require_char(c, u)
  /\ c.r.script # <<>> => Head(c.r.script) = [kind |-> "write", uuid |-> u, value |-> value]

write(c, u, value) ==
  IF ~preflight_write(c, u, value) THEN Fails(c, "other")
  ELSE Okay([Heard(c, <<"write", u, value>>) EXCEPT
               !.r.script = IF @ # <<>> THEN Tail(@) ELSE @,
               !.link     = Linked(@, u, value)], Nothing)

\* A notification entry: buffered from the start, or caused by the n-th fenced write to a characteristic.
\* ble.rs:518-526
Eligible(c, entry) == entry.after # <<>> => c.r.fenced[entry.after[1]] >= entry.after[2]

\* The fence drops only what was buffered from the start.
KeepsOlderReplies(c, u, value, n) ==
  IF ~preflight_write(c, u, value) \/ ~require_char(c, n) THEN Fails(c, "other")
  ELSE LET kept   == SelectSeq(c.r.notify[n], LAMBDA e : e.after # <<>>)
           fenced == [c EXCEPT !.r.notify[n] = kept, !.r.fenced[u] = @ + 1,
                               !.fence[n] = c.r.fenced]
       IN  write(Heard(fenced, <<"fence", n>>), u, value)

write_with_notification_fence(c, u, value, n) ==
  IF ~preflight_write(c, u, value) \/ ~require_char(c, n) THEN Fails(c, "other")
  ELSE LET kept   == SelectSeq(c.r.notify[n], LAMBDA e : e.after # <<>> /\ ~Eligible(c, e))
           fenced == [c EXCEPT !.r.notify[n] = kept, !.r.fenced[u] = @ + 1,
                               !.fence[n] = c.r.fenced]
       IN  write(Heard(fenced, <<"fence", n>>), u, value)

\* ble.rs:492-499
subscribe(c, u) == IF require_char(c, u) THEN Okay(Heard(c, <<"subscribe", u>>), Nothing) ELSE Fails(c, "other")

take_notification(c, u) ==
  IF c.r.script # <<>>
  THEN IF Head(c.r.script).kind = "indication" /\ Head(c.r.script).uuid = u
       THEN Okay([c EXCEPT !.r.script = Tail(@)], Head(c.r.script).value)
       ELSE Fails(c, "empty")
  ELSE IF c.r.notify[u] = <<>> \/ ~Eligible(c, Head(c.r.notify[u])) THEN Fails(c, "empty")
  ELSE Okay([c EXCEPT !.r.notify[u] = Tail(@),
                      !.took = Append(@, [uuid |-> u, after |-> Head(c.r.notify[u]).after, fence |-> c.fence[u]])],
            Head(c.r.notify[u]).payload)

---------------------------------------------------------------------------
(* Scope, values, predicates.                                              *)

\* eval::decode_bytes: integers and text need bytes, raw bytes do not.
decode_bytes(bytes, enc) == bytes # <<>> \/ enc = "bytes"  \* eval.rs:285-319

\* ble.rs:776-779
Capture(c, key, bytes, enc) == [c EXCEPT !.scope[key] = [bytes |-> bytes, printed |-> enc], !.encodings[key] = enc]
\* ble.rs:1317-1328
Forget(c, key) == [c EXCEPT !.scope[key] = Nothing, !.encodings[key] = Nothing]

\* eval::scope_string_to_bytes: a value printed one way and parsed another is not the wire's.
scope_string_to_bytes(v, enc) == IF enc = v.printed THEN v.bytes ELSE Garbled

predicate_holds(c, p) ==
  LET n == Head(c.scope[p.field].bytes \o <<0>>)
  IN  CASE p.op = "eq"  -> n = p.value
        [] p.op = "ne"  -> n # p.value
        [] p.op = "gte" -> n >= p.value

Holds(c, p) == c.scope[p.field] # Nothing /\ predicate_holds(c, p)  \* ble.rs:1103-1110

\* resolve_value: the bytes, or Nothing when a slot is unbound.
resolve_value(c, v) ==
  CASE v.kind = "literal"  -> v.bytes
    [] v.kind = "runtime"  -> c.params[v.slot]
    [] v.kind = "captured" -> IF c.scope[v.slot] = Nothing THEN Nothing
                              ELSE scope_string_to_bytes(c.scope[v.slot], c.encodings[v.slot])
    [] v.kind = "template" ->
         LET part(s) == IF c.scope[s] # Nothing THEN c.scope[s].bytes ELSE c.params[s]
         IN  IF \E i \in DOMAIN v.slots : part(v.slots[i]) = Nothing THEN Nothing
             ELSE FlattenSeq([i \in DOMAIN v.slots |-> part(v.slots[i])])

ensure_subscribed(c, u, mode) ==  \* ble.rs:1008-1016
  IF <<u, mode>> \in c.subscriptions THEN Okay(c, Nothing)
  ELSE LET s == subscribe(c, u)
       IN  IF s.ok THEN Okay([s.c EXCEPT !.subscriptions = @ \cup {<<u, mode>>}], Nothing) ELSE s

\* apply_value_captures: the whole value, then the windows that fit.
apply_value_captures(c, bytes, capture_as, captures) ==
  LET whole == IF capture_as = Nothing THEN c ELSE Capture(c, capture_as, bytes, "bytes")
  IN  FoldLeft(LAMBDA d, cap : IF cap.at >= Len(bytes) THEN d
                               ELSE Capture(d, cap.name, <<bytes[cap.at + 1]>>, cap.encoding),
               whole, captures)

---------------------------------------------------------------------------
(* The walker.                                                             *)

primary_capture_name(step) ==  \* ble.rs:714-726
  IF step.verb \in {"read", "peripheralName", "notify", "await"} THEN step.captureAs ELSE Nothing

RECURSIVE step_declares_confirmation(_)
step_declares_confirmation(step) ==
  \/ step.confirms
  \/ \E i \in DOMAIN step.body : step_declares_confirmation(step.body[i])
  \/ \E i \in DOMAIN step.other : step_declares_confirmation(step.other[i])

\* bind_nikon_connection_configuration: the older credentials go first.
bind_nikon_connection_configuration(c, flags, wifi) ==
  LET cleared == Forget(c, "ssid")
      flagged == Capture(cleared, "flags", <<flags>>, "u8")
  IN  IF wifi = Nothing THEN flagged ELSE Capture(flagged, "ssid", wifi, "utf8")

\* run_write_chunk: the captured index selects a window of the blob, or the last one.
encode_chunk(blob, idx, sentinel) ==
  LET full == (Len(blob) - 1) \div 2
  IN  IF idx = sentinel THEN <<idx>> \o SubSeq(blob, 2 * full + 1, Len(blob))
      ELSE IF idx < full THEN <<idx>> \o SubSeq(blob, 2 * idx + 1, 2 * idx + 2) ELSE Nothing

run_write_chunk(c, step) ==
  LET blob  == c.params[step.source]
      index == c.scope[step.index]
  IN  IF blob = Nothing \/ index = Nothing THEN Fails(c, "other")
      ELSE LET frame == encode_chunk(blob, Head(index.bytes), step.sentinel)
           IN  IF frame = Nothing THEN Fails(c, "other") ELSE write(c, step.gatt, frame)

\* One observation of an await's source.
ObserveSource(c, step, seed) ==
  IF step.source = "read" \/ seed THEN read(c, step.gatt)
  ELSE LET t == take_notification(c, step.gatt)
       IN  IF t.ok THEN t ELSE Fails(t.c, "deadline")

RECURSIVE walk_steps(_, _), run_step(_, _), AwaitRounds(_, _, _, _), Attempts(_, _, _)

\* Any step that ran confirms the establishment, a tolerated failure too.
ToleratedConfirms(c, steps) ==
  IF steps = <<>> THEN Okay(c, Nothing)
  ELSE LET step == Head(steps)
           res  == run_step(c, step)
       IN  IF res.ok \/ (step.tolerant /\ step.verb # "if")
           THEN walk_steps([res.c EXCEPT !.ran = @ + 1,
                                         !.confirm = IF step.confirms THEN "satisfied" ELSE @,
                                         !.tolerated = IF res.ok THEN @ ELSE @ + 1,
                                         !.proved  = @ \/ (res.ok /\ step.confirms)], Tail(steps))
           ELSE res

walk_steps(c, steps) ==
  IF steps = <<>> THEN Okay(c, Nothing)
  ELSE LET step == Head(steps)
           res  == run_step(c, step)
       IN  IF res.ok
           THEN walk_steps([res.c EXCEPT !.ran = @ + 1,
                                         !.confirm = IF step.confirms THEN "satisfied" ELSE @,
                                         !.proved  = @ \/ step.confirms], Tail(steps))
           ELSE IF step.tolerant /\ step.verb # "if"
                THEN walk_steps([res.c EXCEPT !.ran = @ + 1, !.tolerated = @ + 1], Tail(steps))
                ELSE res

\* run_await_until: observe, test, reject, act, again.
AwaitRounds(c, step, seed, n) ==
  IF n = 0 THEN Fails(c, "deadline")
  ELSE LET seen == ObserveSource(c, step, seed)
       IN  IF ~seen.ok THEN seen
           ELSE LET d == apply_value_captures(seen.c, seen.value, step.captureAs, step.captures)
                IN  IF Holds(d, step.until) THEN Okay(d, Nothing)
                    ELSE LET rejected == step.failWhen # Nothing /\ Holds(d, step.failWhen)
                             proof == IF rejected /\ step.evidence # Nothing
                                      THEN walk_steps(Forget(d, step.evidence.when.field), step.evidence.steps)
                                      ELSE Okay(d, Nothing)
                         IN  IF ~proof.ok THEN proof
                             ELSE IF rejected /\ (step.evidence = Nothing \/ Holds(proof.c, step.evidence.when))
                                  THEN Fails(proof.c, "rejected")
                                  ELSE LET acted == walk_steps(proof.c, step.body)
                                       IN  IF acted.ok THEN AwaitRounds(acted.c, step, FALSE, n - 1) ELSE acted

run_await_until(c, step) ==
  LET s == IF step.source = "notify" THEN ensure_subscribed(c, step.gatt, step.mode) ELSE Okay(c, Nothing)
  IN  IF s.ok THEN AwaitRounds(s.c, step, step.source = "notify" /\ step.seedRead, MaxIters) ELSE s

\* Step::Retry: the failure handler decides, from scope, whether the body runs again.
Attempts(c, step, n) ==
  LET body == walk_steps(c, step.body)
  IN  IF body.ok \/ body.kind # step.whenFailure THEN body
      ELSE LET handled == walk_steps(body.c, step.other)
           IN  IF ~handled.ok THEN handled
               ELSE IF handled.c.scope[step.retryWhen.field] = Nothing THEN Fails(handled.c, "other")
               ELSE IF Holds(handled.c, step.retryWhen) /\ n + 1 < step.maxAttempts
                    THEN Attempts(handled.c, step, n + 1)
                    ELSE Fails(handled.c, body.kind)

\* Step::NikonLssAuthenticate: two fenced writes, each answered by an indication.
authenticate(c, step) ==
  LET id    == resolve_value(c, step.client)
      fresh == [c EXCEPT !.lss = FALSE]
      sub   == ensure_subscribed(fresh, step.gatt, "indicate")
      one   == write_with_notification_fence(sub.c, step.gatt, <<Stage1>>, step.gatt)
      two   == take_notification(one.c, step.gatt)
      three == write_with_notification_fence(two.c, step.gatt, <<Stage3>>, step.gatt)
      four  == take_notification(three.c, step.gatt)
  IN  CASE id = Nothing \/ ~sub.ok -> Fails(fresh, "other")
        [] id # Nothing /\ sub.ok /\ ~one.ok -> one
        [] id # Nothing /\ sub.ok /\ one.ok /\ (~two.ok \/ two.value # <<Stage2>>) -> Fails(two.c, "other")
        [] id # Nothing /\ sub.ok /\ one.ok /\ two.ok /\ two.value = <<Stage2>> ->
             IF ~three.ok THEN three
             ELSE IF four.ok /\ four.value = <<Stage4>> THEN Okay([four.c EXCEPT !.lss = TRUE], Nothing)
                  ELSE Fails(four.c, "other")

\* The alias keeps whatever encoding its name had.
AliasKeepsEncoding(c, target, name) ==
  IF c.scope[target] = Nothing THEN c ELSE [c EXCEPT !.scope[name] = c.scope[target]]

\* Step::Acquire: the slot the delegate captured into, under another name, encoding included.
Aliased(c, target, name) ==  \* ble.rs:859-866
  IF c.scope[target] = Nothing THEN c
  ELSE [c EXCEPT !.scope[name] = c.scope[target],
                 !.encodings[name] = IF c.encodings[target] # Nothing THEN c.encodings[target] ELSE @]

Pass(res, c) == IF res.ok THEN Okay(c, Nothing) ELSE res  \* ble.rs:765-769

\* Step::NikonLssReadConnectionConfiguration: only an authenticated session decodes it.
ReadConfiguration(c, step) ==  \* ble.rs:935-949
  IF ~c.lss THEN Fails(c, "other")
  ELSE LET res == read(c, step.gatt)
       IN  IF res.ok /\ res.value = <<>> THEN Fails(res.c, "other")
           ELSE Pass(res, bind_nikon_connection_configuration(res.c, IF res.ok THEN Head(res.value) ELSE 0,
                            IF res.ok /\ Len(res.value) > 1 THEN Tail(res.value) ELSE Nothing))

\* Step::If: an unbound field is an error unless the step is tolerant.
Branch(c, step) ==  \* ble.rs:950-965
  IF c.scope[step.when.field] = Nothing /\ ~step.tolerant THEN Fails(c, "other")
  ELSE walk_steps(c, IF Holds(c, step.when) THEN step.body ELSE step.other)

run_step(c, step) ==
  CASE step.verb = "connect"    -> connect(c)
    [] step.verb = "delay"      -> Okay(c, Nothing)
    [] step.verb = "disconnect" -> await_disconnect(c)
    [] step.verb = "mtu" ->
         LET res == request_mtu(c, step.requested)
         IN  IF res.ok /\ step.minimum # Nothing /\ res.value < step.minimum THEN Fails(res.c, "other") ELSE res
    [] step.verb = "discover" -> discover_services(c)
    [] step.verb \in {"read", "firmware"} ->
         LET res == read(c, step.gatt)
         IN  IF res.ok /\ ~decode_bytes(res.value, step.encoding) THEN Fails(res.c, "other")
             ELSE Pass(res, Capture(res.c, IF step.verb = "firmware" THEN "firmware" ELSE step.captureAs,
                                    res.value, step.encoding))
    [] step.verb = "peripheralName" ->
         LET res == peripheral_name(c)
         IN  IF res.ok /\ res.value = <<>> THEN Fails(res.c, "other")
             ELSE Pass(res, Capture(res.c, step.captureAs, res.value, "utf8"))
    [] step.verb = "write" ->
         LET bytes == resolve_value(c, step.value)
         IN  IF bytes = Nothing THEN Fails(c, "other")
             ELSE IF step.fence # Nothing THEN write_with_notification_fence(c, step.gatt, bytes, step.fence)
             ELSE write(c, step.gatt, bytes)
    [] step.verb = "subscribe" -> ensure_subscribed(c, step.gatt, step.mode)
    [] step.verb = "notify" ->
         LET sub == ensure_subscribed(c, step.gatt, step.mode)
             got == take_notification(sub.c, step.gatt)
         IN  IF ~sub.ok THEN sub
             ELSE IF ~got.ok \/ (step.equals # Nothing /\ got.value # step.equals) THEN Fails(got.c, "other")
             ELSE Okay(apply_value_captures(got.c, got.value, step.captureAs, step.captures), Nothing)
    [] step.verb = "await" -> run_await_until(c, step)
    [] step.verb = "chunk" -> run_write_chunk(c, step)
    [] step.verb = "acquire" ->
         LET res == walk_steps(c, step.body)
             target == primary_capture_name(Head(step.body))
         IN  IF ~res.ok THEN res
             ELSE IF target = Nothing THEN Fails(res.c, "other")
             ELSE Okay(Aliased(res.c, target, step.name), Nothing)
    [] step.verb = "authenticate" -> authenticate(c, step)
    [] step.verb = "configuration" -> ReadConfiguration(c, step)
    [] step.verb = "if" -> Branch(c, step)
    [] step.verb = "retry" -> Attempts(c, step, 0)
    [] step.verb = "usb" -> Fails(c, "other")

---------------------------------------------------------------------------

\* walk_establishment, one top-level step; the walk stops at a failure.
WalkStep ==
  /\ at \in 1..Len(scn.plan)
  /\ LET res == walk_steps(ctx, <<scn.plan[at]>>)
     IN  /\ ctx' = res.c
         /\ at' = IF res.ok THEN at + 1 ELSE 0
  /\ UNCHANGED <<scn, init>>

\* The service, on InitCommandRequest: Engine::accepts_init under one lock ...
CheckArmed(name, dialect) ==
  /\ init.pending = Nothing /\ init.count < MaxInits
  /\ init' = [init EXCEPT !.count = @ + 1,
                          !.pending = IF dialect = "app82" /\ ~ctx.link.armed THEN Nothing
                                      ELSE [name |-> name, dialect |-> dialect, armedAt |-> ctx.log]]
  /\ UNCHANGED <<scn, at, ctx>>

\* ... and the registered device name under another.
CheckName ==
  /\ init.pending # Nothing
  /\ init' = [init EXCEPT !.pending = Nothing,
                          !.answered = IF ctx.link.name \in {Nothing, init.pending.name}
                                       THEN @ \cup {[request |-> init.pending, namedAt |-> ctx.log]}
                                       ELSE @]
  /\ UNCHANGED <<scn, at, ctx>>

Init ==  \* ble.rs:627-644
  /\ scn \in Scenarios
  /\ at = 1
  /\ ctx = [r |-> scn.responder, link |-> [prep |-> FALSE, armed |-> TRUE, name |-> Nothing],
            scope |-> scn.scope, encodings |-> scn.encodings, params |-> scn.params, subscriptions |-> {},
            lss |-> FALSE, ran |-> 0, tolerated |-> 0, log |-> <<>>, took |-> <<>>,
            fence |-> [u \in Uuids |-> <<>>], proved |-> FALSE,
            confirm |-> IF \E i \in DOMAIN scn.plan : step_declares_confirmation(scn.plan[i])
                        THEN "unsatisfied" ELSE "not declared"]
  /\ init = [pending |-> Nothing, count |-> 0, answered |-> {}]

Next ==
  \/ WalkStep
  \/ \E name \in HostNames, dialect \in {"app82", "legacyApp82"} : CheckArmed(name, dialect)
  \/ CheckName

Spec == Init /\ [][Next]_vars

---------------------------------------------------------------------------

\* The records keep their shape, and a captured key has an encoding unless
\* it was seeded without one.
TypeOK ==
  /\ at \in 0..(Len(scn.plan) + 1)
  /\ ctx.confirm \in {"satisfied", "unsatisfied", "not declared"}
  /\ \A k \in Keys : ctx.scope[k] = Nothing => ctx.encodings[k] = Nothing \/ scn.encodings[k] # Nothing
  /\ init.count \in 0..MaxInits

\* take_notification after a fenced write (write_with_notification_fence):
\* what the walker consumes was caused by a write made at or after the last
\* fence of its characteristic, never buffered before it.
NotificationIsCausal ==
  \A i \in DOMAIN ctx.took :
    LET t == ctx.took[i]
    IN  t.fence # <<>> => t.after # <<>> /\ t.fence[t.after[1]] < t.after[2]

\* The log position of the last write to u, 0 if none.
LastWrite(log, u) ==
  LET at_ == {i \in DOMAIN log : log[i][1] = "write" /\ log[i][2] = u}
  IN  IF at_ = {} THEN 0 ELSE CHOOSE i \in at_ : \A j \in at_ : j <= i

\* link.rs and the service's init gate: an app82 initiator is answered only
\* if, when it was let in, the last AP launch had a prep write before it, and
\* every answered initiator presents the name registered last.
InitIsGated ==
  \A a \in init.answered :
    LET armed == a.request.armedAt
        named == a.namedAt
    IN  /\ a.request.dialect = "app82" /\ LastWrite(armed, "launch") > 0 =>
             \E i \in 1..LastWrite(armed, "launch") : armed[i][1] = "write" /\ armed[i][2] = "arm"
        /\ LastWrite(named, "name") > 0 => named[LastWrite(named, "name")][3] = a.request.name

\* EstablishmentWalkSummary: the establishment is confirmed exactly when a
\* confirming step succeeded; a tolerated failure proves nothing.
VerdictIsEarned == (ctx.confirm = "satisfied") <=> ctx.proved

\* A value captured in the walk and written back is the camera's own bytes
\* (the encodings map follows the scope, through acquire too).
WriteBackIsExact ==
  \A i \in DOMAIN ctx.log : ctx.log[i][1] = "write" => ctx.log[i][3] # Garbled

\* What the reference walker may never get wrong.
WalkIsTrue == NotificationIsCausal /\ InitIsGated /\ VerdictIsEarned /\ WriteBackIsExact

=============================================================================
