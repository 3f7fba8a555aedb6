------------------------------ MODULE PlanCheck ------------------------------
(***************************************************************************)
(* What a manifest must pass before it is loaded (camera-config/src/lib.rs)*)
(* against what a host then does with it.  A manifest is read once; if the *)
(* checks accept it, a host enters modes, runs actions and follows edges   *)
(* to other connections.  The walk of a plan is the client interpreter's,  *)
(* seen from the plan's side: a stack of step lists, with every answer the *)
(* camera may give to a step.  PtpExecutor models the interpreter itself.  *)
(*                                                                         *)
(* A failure of class "contract" is one that the plan alone decides: no    *)
(* answer of a camera and no value of a host causes it.  Some of them the  *)
(* checks exclude, and some (Overlooked) they do not look for.             *)
(***************************************************************************)
EXTENDS Integers, FiniteSets, SequencesExt

CONSTANTS
  Manifests,   \* the manifests that may be read
  MaxJobs      \* bound: plans that the host starts

PlanAssumption == MaxJobs \in Nat /\ \A m \in Manifests : DOMAIN m.connections # {}

VARIABLES
  manifest,    \* the manifest
  verdict,     \* unread, accepted or refused
  at,          \* the connection the host is on, and its mode if it knows one
  job,         \* the plan that is being run, the values given and the slots that hold a number
  stack,       \* the step lists being walked, innermost first
  coll,        \* the collections that are bound
  err,         \* the failure that is being handled, if any
  last         \* history: what the last top-level step did that opened no channel

vars == <<manifest, verdict, at, job, stack, coll, err, last>>

\* A step; the fields its action does not use keep these values.
Step ==
  [does |-> {}, tolerant |-> FALSE, literal |-> TRUE, repeat |-> 1, captures |-> <<>>,
   slot |-> {}, skips |-> FALSE, ptype |-> "u16", stream |-> FALSE, fits |-> TRUE, op |-> "other",
   role |-> "event", source |-> "poll", steps |-> <<>>, else |-> <<>>, fallback |-> {}, codes |-> {},
   decode |-> FALSE, max |-> 1, collection |-> {}, reads |-> {}, binds |-> {}]

Conn(m, c) == m.connections[c]  \* camera-config/lib.rs:388

-----------------------------------------------------------------------------
\* The checks.

is_well_formed(st) == Cardinality(st.does) = 1  \* model.rs:2028-2040

is_sequence_gate_matchable(st) ==  \* model.rs:2354-2363
  st.does \cap {"setProp", "getProp"} # {} \/ ("sendOp" \in st.does /\ st.literal)

\* Every step of a plan, at any depth.
RECURSIVE Below(_)
Below(steps) ==  \* camera-config/lib.rs:1066-1104
  Range(steps) \cup UNION {Below(s) : s \in UNION {{st.steps, st.else} \cup st.fallback : st \in Range(steps)}}

contains_ptp_loop(steps) == \E st \in Below(steps) : "loop" \in st.does

\* The captures of an await read the value it polled.
AwaitCaptures(st) ==
  ("awaitUntil" \in st.does /\ st.captures # <<>>) =>
    /\ st.source \in {"poll", "eventThenPoll"}
    /\ \A c \in Range(st.captures) : c.source = "propValue"

\* camera-config/lib.rs:2049-2074
FallbackCodes(codes) == codes # <<>> /\ Range(codes) \cap {"ok", "bad"} = {} /\ IsInjective(codes)

\* camera-config/lib.rs:2097-2099
Arrays(st) == {i \in DOMAIN st.captures : st.captures[i].source = "ptpU32Array"}
ArrayBinds(st) == {st.captures[i].bind : i \in Arrays(st)}  \* camera-config/lib.rs:2126-2127

CaptureIsValid(c, st, ownership) ==
  /\ c.fallback # {} => "getProp" \in st.does /\ c.source = "propValue" /\ ~st.tolerant
  /\ \A codes \in c.fallback : FallbackCodes(codes)
  /\ c.source = "transactionId" =>
       /\ ownership # "daemonAttached" /\ "sendOp" \in st.does
       /\ st.repeat = 1 /\ ~st.tolerant /\ c.bind # ""
  /\ c.source = "ptpU32Array" =>
       st.does \cap {"getProp", "sendOp"} # {} /\ ~st.tolerant /\ c.bind # ""

CapturesAreValid(st, ownership) ==  \* camera-config/lib.rs:2116-2125
  /\ AwaitCaptures(st)
  /\ \A c \in Range(st.captures) : CaptureIsValid(c, st, ownership)
  /\ Cardinality(ArrayBinds(st)) = Cardinality(Arrays(st))

RetryIsValid(st) ==
  /\ st.steps # <<>> /\ <<>> \notin st.fallback
  /\ st.codes # {} \/ st.decode
  /\ st.max > 0
  /\ ~contains_ptp_loop(st.steps) /\ \A f \in st.fallback : ~contains_ptp_loop(f)
  /\ "bad" \notin st.codes

\* The collections bound for certain after these steps: none if the steps are refused,
\* else the one set of them.
RECURSIVE with_collections(_, _, _)

\* Variant that keeps what either of two ways through the plan binds.
Either(one, other) == {a \cup b : a \in one, b \in other}

\* What both ways through the plan bind; none if one of them is refused.
Both(one, other) == {a \cap b : a \in one, b \in other}

RetryBinds(st, ownership, before) ==  \* camera-config/lib.rs:2171-2189
  IF st.fallback = {} THEN with_collections(st.steps, ownership, before)
  ELSE Both(with_collections(st.steps, ownership, before),
            UNION {with_collections(f, ownership, before) : f \in st.fallback})

\* Variant that lets a tolerant retry bind collections.
AfterAnyRetry(st, ownership, before) ==
  IF RetryIsValid(st) THEN RetryBinds(st, ownership, before) ELSE {}

AfterRetry(st, ownership, before) ==
  IF RetryIsValid(st) THEN {a \in RetryBinds(st, ownership, before) : st.tolerant => a = before} ELSE {}

AfterLoop(st, ownership, before) ==
  IF st.collection \subseteq before /\ with_collections(st.steps, ownership, before) # {}
  THEN {before} ELSE {}

AfterIf(st, ownership, before) ==  \* camera-config/lib.rs:2228-2243
  Both(with_collections(st.steps, ownership, before), with_collections(st.else, ownership, before))

AfterStep(st, ownership, before) ==  \* camera-config/lib.rs:2197-2205
  CASE "retry" \in st.does -> AfterRetry(st, ownership, before)
    [] "loop" \in st.does -> AfterLoop(st, ownership, before)
    [] "if" \in st.does -> AfterIf(st, ownership, before)
    [] "awaitUntil" \in st.does ->
         IF with_collections(st.steps, ownership, before) # {} THEN {before} ELSE {}
    [] OTHER -> {before \cup ArrayBinds(st)}

with_collections(steps, ownership, coll0) ==  \* camera-config/lib.rs:1994-2007
  FoldLeft(LAMBDA sets, st : UNION {IF is_well_formed(st) /\ CapturesAreValid(st, ownership)
                                    THEN AfterStep(st, ownership, c) ELSE {} : c \in sets},
           {coll0}, steps)

\* camera-config/lib.rs:1985-1992
require_valid_ptp_steps(steps, ownership) == with_collections(steps, ownership, {}) # {}

require_valid_event_awaits(steps, delivery) ==
  \A st \in Below(steps) : "awaitUntil" \in st.does =>
    /\ delivery = "none" => st.source = "poll"
    /\ delivery = "bestEffort" => st.source # "event"

Numeric == {"u8", "u16", "u32", "u64", "i16", "i32"}  \* camera-config/lib.rs:1540-1543
\* camera-config/lib.rs:1538-1552
Compatible(kind, ptype) == IF kind = "string" THEN ptype = "str" ELSE ptype \in Numeric

require_valid_action_runtime_values(steps, params) ==
  \A st \in Below(steps) : \A s \in st.slot :
    /\ s \in DOMAIN params
    /\ st.skips => ~params[s].required
    /\ "setProp" \in st.does /\ Compatible(params[s].kind, st.ptype)

require_no_runtime_set_props(steps) == \A st \in Below(steps) : st.slot = {}

Opens(st) == "openChannel" \in st.does  \* camera-config/lib.rs:2256

\* Variant that looks no further than whether some strict wire step came before.
AnyPrefix(steps, i) ==
  \E j \in 1..(i - 1) : ~steps[j].tolerant /\ is_sequence_gate_matchable(steps[j])

\* The last step before this one that opens no channel is a strict wire step.
EnforceablePrefix(steps, i) ==
  LET before == {j \in 1..(i - 1) : ~Opens(steps[j])}
  IN  before # {} /\ LET st == steps[Max(before)] IN ~st.tolerant /\ is_sequence_gate_matchable(st)

require_valid_open_channels(steps, bindings, top) ==
  /\ \A st \in Range(steps) : \A inner \in {st.steps, st.else} \cup st.fallback :
       \A s \in Below(inner) : ~Opens(s)
  /\ \A i \in DOMAIN steps : Opens(steps[i]) =>
       top /\ steps[i].role \in DOMAIN bindings \ {"command"} /\ EnforceablePrefix(steps, i)

require_valid_executor_activities(activities, count) ==
  /\ \A i, j \in DOMAIN activities : activities[i].id = activities[j].id => i = j
  /\ \A i \in DOMAIN activities :
       LET a == activities[i]
       IN  /\ a.named /\ a.version > 0 /\ a.ms > 0 /\ a.bind = "span"
           /\ a.first = (IF i = 1 THEN 0 ELSE activities[i - 1].end)
           /\ a.end > a.first
  /\ activities # <<>> => Last(activities).end = count

\* What a host waits for outside any plan: each named once.
require_valid_host_activities(activities) ==
  /\ \A i, j \in DOMAIN activities : activities[i].id = activities[j].id => i = j
  /\ \A i \in DOMAIN activities :
       LET a == activities[i]
       IN  /\ a.named /\ a.version > 0 /\ a.ms > 0
           /\ a.bind \in {"checkpoint", "networkExact", "retained"} /\ a.name # ""
           /\ a.bind = "retained" => a.name = "command"
           /\ \A j \in DOMAIN activities \ {i} : <<activities[j].bind, activities[j].name>> # <<a.bind, a.name>>

\* One meaning per activity and version, over the whole manifest.
Contract(a) == <<a.meta, a.ms, a.bind, a.name>>  \* camera-config/lib.rs:1786-1795
require_consistent_activity_metadata(all) ==
  \A a, b \in all : (a.id = b.id /\ a.version = b.version) => Contract(a) = Contract(b)

require_valid_socket_bindings(m, c) ==
  \A role \in DOMAIN Conn(m, c).bindings : \A code \in Conn(m, c).bindings[role].after :
    /\ role # "command" /\ Conn(m, c).bindings[role].port # Conn(m, c).bindings["command"].port
    /\ code \in DOMAIN m.operations
    /\ m.operations[code] = {} \/ c \in m.operations[code]

require_valid_connection_transitions(m, c) ==
  LET edges == Conn(m, c).enables
  IN  /\ \A i \in DOMAIN edges :
           /\ edges[i].to \in DOMAIN m.connections
           /\ edges[i].mechanism # {} \/ (edges[i].instruction /\ ~edges[i].params)
           /\ edges[i].mechanism # {} => Conn(m, edges[i].to).establishment = edges[i].mechanism
           /\ edges[i].mode \subseteq Conn(m, edges[i].to).modes
      /\ \A i, j \in DOMAIN edges :
           <<edges[i].to, edges[i].mode>> = <<edges[j].to, edges[j].mode>> => i = j

\* camera-protocol-ffi/lib.rs:3216-3217
Entry(c, from, to) == SelectInSeq(c.entries, LAMBDA e : e.to = to /\ e.from = from)

\* A plan that leaves the connection needs a way back in.
ColdEntry(c, e) ==  \* camera-config/lib.rs:481-506
  e.kind = "reestablish" =>
    LET cold == Entry(c, {}, e.to)
    IN  c.establishment # {} /\ cold # 0 /\ c.entries[cold].kind = "ptp"

EntryIsValid(c, e) ==
  /\ e.kind = "instruction" => e.activities = <<>>
  /\ e.kind # "instruction" =>
       /\ require_valid_ptp_steps(e.steps, c.ownership)
       /\ require_no_runtime_set_props(e.steps)
       /\ require_valid_open_channels(e.steps, c.bindings, e.kind = "ptp")
       /\ require_valid_executor_activities(e.activities, Len(e.steps))
       /\ require_valid_event_awaits(e.steps, c.delivery)
  /\ ColdEntry(c, e)

ActionIsValid(c, a) ==
  /\ require_valid_ptp_steps(a.steps, c.ownership)
  /\ require_valid_action_runtime_values(a.steps, a.params)
  /\ require_valid_open_channels(a.steps, c.bindings, TRUE)
  /\ require_valid_executor_activities(a.activities, Len(a.steps))
  /\ require_valid_event_awaits(a.steps, c.delivery)

Activities(c) ==  \* camera-config/lib.rs:402-419
  Range(c.activities) \cup UNION {Range(e.activities) : e \in Range(c.entries) \cup Range(c.actions)}

require_valid_mode_entries(m) ==
  /\ \A id \in DOMAIN m.connections :
       /\ require_valid_host_activities(Conn(m, id).activities)
       /\ require_valid_socket_bindings(m, id)
       /\ require_valid_connection_transitions(m, id)
       /\ \A e \in Range(Conn(m, id).entries) : EntryIsValid(Conn(m, id), e)
       /\ \A a \in Range(Conn(m, id).actions) : ActionIsValid(Conn(m, id), a)
  /\ require_consistent_activity_metadata(
       UNION {Activities(Conn(m, id)) : id \in DOMAIN m.connections})

require_supported_schema(m) == m.schema = "camera-config/v1"  \* camera-config/lib.rs:540-549

-----------------------------------------------------------------------------
\* The host.

Idle == [kind |-> "none", plan |-> [steps |-> <<>>], given |-> {}, slots |-> {}]
Frame(steps, way, left) == [steps |-> steps, way |-> way, left |-> left, i |-> 1, saved |-> {}]
Here == Conn(manifest, at.conn)
Free == verdict = "accepted" /\ job.kind = "none" /\ at.jobs < MaxJobs

Init ==
  /\ manifest \in Manifests
  /\ verdict = "unread"
  /\ at = [conn |-> CHOOSE c \in DOMAIN manifest.connections : TRUE, mode |-> {}, jobs |-> 0]
  /\ job = Idle /\ stack = <<>> /\ coll = {} /\ err = {} /\ last = "nothing"

Read ==
  /\ verdict = "unread"
  /\ verdict' = IF require_supported_schema(manifest) /\ require_valid_mode_entries(manifest)
                THEN "accepted" ELSE "refused"
  /\ UNCHANGED <<manifest, at, job, stack, coll, err, last>>

Width == {"u8", "u16", "u32", "i16", "i32"}  \* camera-protocol-ffi/lib.rs:3808-3817
Encodable(kind, ptype) == IF kind = "string" THEN ptype = "str" ELSE ptype \in Width

\* A write that needs a value that was not given, and one whose value its property cannot take.
Missing(plan, given) == \E st \in Below(plan.steps) : \E s \in st.slot \ given : ~st.skips
Unencodable(plan, given) ==
  \E st \in Below(plan.steps) : \E s \in st.slot \cap given : ~Encodable(plan.params[s].kind, st.ptype)

\* A value may also be out of the range of its property.
preflight_runtime_set_props(plan, given) ==
  IF Unencodable(plan, given) THEN {"contract"}
  ELSE IF Missing(plan, given) THEN {"other"}
  ELSE {"fits"} \cup (IF \E st \in Below(plan.steps) : st.slot \cap given # {} THEN {"other"} ELSE {})

Start(kind, plan, given) ==
  /\ job' = [kind |-> kind, plan |-> plan, given |-> given,
             slots |-> {s \in given : plan.params[s].kind # "string"}]
  /\ \E verdict1 \in preflight_runtime_set_props(plan, given) :
       /\ stack' = IF verdict1 = "fits" THEN <<Frame(plan.steps, "top", 1)>> ELSE <<>>
       /\ err' = {verdict1} \ {"fits"}
  /\ coll' = {} /\ last' = "nothing"

\* A host asks for the way from its mode, and failing that for the way in.
mode_entry ==
  /\ Free
  /\ \E to \in {e.to : e \in Range(Here.entries)}, from \in {{}, at.mode} :
       LET i == Entry(Here, from, to)
       IN  /\ i # 0
           /\ at' = [at EXCEPT !.jobs = @ + 1,
                               !.mode = IF Here.entries[i].kind = "instruction" THEN {to} ELSE @]
           /\ IF Here.entries[i].kind = "instruction" THEN UNCHANGED <<job, stack, coll, err, last>>
              ELSE Start(Here.entries[i].kind, Here.entries[i], {})
  /\ UNCHANGED <<manifest, verdict>>

\* The values a host gives an action hold what the action requires.
Action ==
  /\ Free
  /\ \E a \in Range(Here.actions) : \E given \in SUBSET DOMAIN a.params :
       /\ \A s \in DOMAIN a.params : a.params[s].required => s \in given
       /\ Start("action", a, given)
  /\ at' = [at EXCEPT !.jobs = @ + 1]
  /\ UNCHANGED <<manifest, verdict>>

\* The edge to another connection; one that leads nowhere is the plan's fault.
Follow ==
  /\ Free
  /\ \E e \in Range(Here.enables) :
       IF e.to \in DOMAIN manifest.connections /\ e.mode \subseteq Conn(manifest, e.to).modes
       THEN at' = [conn |-> e.to, mode |-> e.mode, jobs |-> at.jobs + 1] /\ UNCHANGED err
       ELSE err' = {"contract"} /\ UNCHANGED at
  /\ UNCHANGED <<manifest, verdict, job, stack, coll, last>>

\* The plan ended: a mode is entered, or the connection is left for its cold entry.
Finish ==
  /\ verdict = "accepted" /\ err = {}
  /\ job.kind # "none" /\ stack[1].i > Len(stack[1].steps) /\ Len(stack) = 1
  /\ LET cold == IF job.kind = "reestablish" THEN Entry(Here, {}, job.plan.to) ELSE 0
     IN  \/ /\ job.kind = "reestablish"
            /\ IF cold = 0 THEN err' = {"contract"} /\ UNCHANGED <<at, job, stack, coll, last>>
               ELSE Start("ptp", Here.entries[cold], {}) /\ at' = [at EXCEPT !.mode = {}]
         \/ /\ job.kind # "reestablish"
            /\ at' = [at EXCEPT !.mode = IF job.kind = "ptp" THEN {job.plan.to} ELSE @]
            /\ job' = Idle /\ stack' = <<>> /\ coll' = {} /\ last' = "nothing" /\ UNCHANGED err
  /\ UNCHANGED <<manifest, verdict>>

-----------------------------------------------------------------------------
\* The walk.

Walking == verdict = "accepted" /\ err = {} /\ stack # <<>> /\ stack[1].i <= Len(stack[1].steps)
Current == stack[1].steps[stack[1].i]

Advance(st, what) ==
  /\ stack' = [stack EXCEPT ![1].i = @ + 1]
  /\ last' = IF Len(stack) > 1 \/ Opens(st) THEN last ELSE what
Fail(class) == err' = {class} /\ UNCHANGED <<stack, coll, last>>

Wires == {"setProp", "getProp", "readEcho", "sendOp", "reopenSession", "closeSession"}

\* The captures of a refused read that all have a fallback for the answer.
bind_capture_fallbacks(st, answer) ==  \* ptp_executor.rs:2032-2050
  st.captures # <<>> /\ \A c \in Range(st.captures) : \E codes \in c.fallback : answer \in Range(codes)

\* The session and its channels are the host's only where the initiator owns the session.
frame_transport(st) ==  \* ptp_executor.rs:1902-1922
  st.does \cap {"openChannel", "closeSession", "reopenSession"} # {} => Here.ownership # "daemonAttached"

\* What a step needs before it asks the camera: a session that is its own, a property that
\* holds its literal, numbers in the slots that it reads.
Unready(st) ==  \* ptp_executor.rs:1084-1089
  \/ ~frame_transport(st)
  \/ "setProp" \in st.does /\ st.slot = {} /\ (st.ptype \notin Width \/ ~st.fits)
  \/ ~(st.reads \subseteq job.slots)

\* What a step cannot make of an answer, whatever it holds.
capture_property(st) ==
  CASE Arrays(st) # {} -> Arrays(st) = DOMAIN st.captures
    [] Arrays(st) = {} /\ st.stream -> st.captures = <<>>
    [] OTHER -> /\ \A c \in Range(st.captures) : c.source = "propValue"
                /\ st.captures # <<>> => st.ptype \in Width \cup {"str"}

apply_captures(st) ==
  \A c \in Range(st.captures) :
    c.source # "propValue" /\ (c.source = "objectInfo" => st.op = "getObjectInfo")

Unfit(st) ==  \* ptp_executor.rs:1221-1228
  \/ st.does \cap {"getProp", "readEcho"} # {} /\ ~capture_property(st)
  \/ "sendOp" \in st.does /\ ~apply_captures(st)
  \/ st.does \cap {"closeSession", "reopenSession"} # {} /\ ~Here.sentinel

\* The slots after the captures of a step: a text is no number.
Captured(st) ==  \* ptp_executor.rs:2024-2029
  LET binds == {c.bind : c \in Range(st.captures)} \ ArrayBinds(st)
  IN  IF "sendOp" \notin st.does /\ st.ptype = "str" THEN job.slots \ binds ELSE job.slots \cup binds

\* A step that talks to the camera, and its answer.
Wire ==
  /\ Walking /\ Current.does \subseteq Wires
  /\ Current.slot \subseteq job.given
  /\ \/ Unready(Current) /\ Fail("contract") /\ UNCHANGED job
     \/ /\ ~Unready(Current)
        /\ \E answer \in {"ok", "busy", "denied", "decode", "other"} :
             \/ answer = "ok" /\ Unfit(Current) /\ Fail("contract") /\ UNCHANGED job
             \/ /\ answer = "ok" /\ ~Unfit(Current)
                /\ coll' = coll \cup ArrayBinds(Current) /\ job' = [job EXCEPT !.slots = Captured(Current)]
                /\ Advance(Current, "wire") /\ UNCHANGED err
             \/ /\ "getProp" \in Current.does /\ bind_capture_fallbacks(Current, answer)
                /\ job' = [job EXCEPT !.slots = @ \cup {c.bind : c \in Range(Current.captures)}]
                /\ Advance(Current, "wire") /\ UNCHANGED <<coll, err>>
             \/ /\ answer # "ok" /\ ~("getProp" \in Current.does /\ bind_capture_fallbacks(Current, answer))
                /\ Fail(answer) /\ UNCHANGED job
  /\ UNCHANGED <<manifest, verdict, at>>

\* A write of a value that the host did not give is left out.
Unwritten ==  \* ptp_executor.rs:1101-1116
  /\ Walking
  /\ ~(Current.slot \subseteq job.given)
  /\ IF Current.skips THEN Advance(Current, "skipped") /\ UNCHANGED <<coll, err>> ELSE Fail("other")
  /\ UNCHANGED <<manifest, verdict, at, job>>

\* A channel opens only on a bound role that something in this connection can make available.
CanOpen(role) ==
  /\ role \in DOMAIN Here.bindings \ {"command"} /\ Len(stack) = 1
  /\ \A code \in Here.bindings[role].after :
       code \in DOMAIN manifest.operations
         /\ (manifest.operations[code] = {} \/ at.conn \in manifest.operations[code])

OpenChannel ==  \* ptp_executor.rs:1201-1210
  /\ Walking /\ Opens(Current)
  /\ LET can == CanOpen(Current.role) /\ frame_transport(Current)
     IN  \/ can /\ Advance(Current, "opened") /\ UNCHANGED <<coll, err>>
         \/ Fail(IF can THEN "other" ELSE "contract")
  /\ UNCHANGED <<manifest, verdict, at, job>>

Push(steps, way, left) ==
  stack' = <<Frame(steps, way, left)>> \o stack /\ UNCHANGED <<coll, err, last>>

\* Retry and condition: their steps are walked next.
Enter ==  \* ptp_executor.rs:1304-1411
  /\ Walking
  /\ \/ "retry" \in Current.does /\ Push(Current.steps, "body", Current.max)
     \/ /\ "if" \in Current.does
        /\ IF Unready(Current) THEN Fail("contract")
           ELSE \E way \in {Current.steps, Current.else} : Push(way, "branch", 1)
  /\ UNCHANGED <<manifest, verdict, at, job>>

\* A loop over a bound collection or over windows of a bound length, neither of them too
\* long; what it binds is bound in its body.
run_loop ==
  /\ Walking /\ "loop" \in Current.does
  /\ \/ /\ ~(Current.collection \subseteq coll) \/ Unready(Current)
        /\ Fail("contract") /\ UNCHANGED job
     \/ /\ Current.collection \subseteq coll /\ ~Unready(Current)
        /\ \/ \E rounds \in 1..2 :
               /\ stack' = <<[Frame(Current.steps, "round", rounds) EXCEPT !.saved = job.slots]>> \o stack
               /\ job' = [job EXCEPT !.slots = @ \cup Current.binds] /\ UNCHANGED <<coll, err, last>>
           \/ Advance(Current, "compound") /\ UNCHANGED <<job, coll, err>>
           \/ Fail("other") /\ UNCHANGED job
  /\ UNCHANGED <<manifest, verdict, at>>

\* What the slots of a loop held before it.
restore(frame, binds) ==
  IF frame.way = "round" THEN (job.slots \ binds) \cup (frame.saved \cap binds) ELSE job.slots

\* The value that an await polls is a number or a stream of records.
observe_property(st) == st.stream \/ st.ptype \in Width

\* An await without the events it waits for cannot end well, whatever the camera does.
run_await_body ==  \* ptp_executor.rs:1457-1543
  /\ Walking /\ "awaitUntil" \in Current.does
  /\ LET silent == \/ Here.delivery = "none" /\ Current.source # "poll"
                   \/ Here.delivery = "bestEffort" /\ Current.source = "event"
         polls == Current.source # "event"
     IN  \/ silent /\ Fail("contract") /\ UNCHANGED job
         \/ /\ ~silent /\ polls /\ ~observe_property(Current)
            /\ Fail("contract") /\ UNCHANGED job
         \/ /\ ~silent /\ (polls => observe_property(Current))
            /\ IF polls => capture_property(Current)
               THEN /\ Advance(Current, "compound") /\ UNCHANGED <<coll, err>>
                    /\ job' = [job EXCEPT !.slots = Captured(Current)]
               ELSE Fail("contract") /\ UNCHANGED job
         \/ \E class \in {"busy", "decode", "other"} : ~silent /\ Fail(class) /\ UNCHANGED job
         \/ /\ ~silent /\ polls /\ observe_property(Current)
            /\ Push(Current.steps, "each", 1) /\ UNCHANGED job
  /\ UNCHANGED <<manifest, verdict, at>>

\* The inner steps are done: another round, or on with the step that holds them.
Leave ==
  /\ verdict = "accepted" /\ err = {}
  /\ Len(stack) > 1 /\ stack[1].i > Len(stack[1].steps)
  /\ LET outer == Tail(stack)
         again == stack[1].way = "round" /\ stack[1].left > 1
     IN  /\ stack' = IF again THEN [stack EXCEPT ![1].i = 1, ![1].left = @ - 1]
                     ELSE [outer EXCEPT ![1].i = @ + 1]
         /\ job' = IF again THEN job
                   ELSE [job EXCEPT !.slots = restore(stack[1], outer[1].steps[outer[1].i].binds)]
         /\ last' = IF Len(outer) > 1 \/ again THEN last ELSE "compound"
  /\ UNCHANGED <<manifest, verdict, at, coll, err>>

Responses == {"busy", "denied"}  \* ptp_executor.rs:1016
step_tolerant(st) == st.tolerant /\ "if" \notin st.does
\* ptp_executor.rs:1313-1325
selects(st, class) == (class \in Responses /\ class \in st.codes) \/ (class = "decode" /\ st.decode)

\* A failure: tolerated by the step, tried again by the retry around it, or passed on.
Unwind ==
  /\ verdict = "accepted" /\ stack # <<>>
  /\ \E class \in err :
       \/ /\ class \in Responses /\ step_tolerant(Current)
          /\ Advance(Current, "tolerated") /\ err' = {} /\ UNCHANGED job
       \/ /\ ~(class \in Responses /\ step_tolerant(Current)) /\ Len(stack) = 1
          /\ stack' = <<>> /\ job' = Idle /\ err' = {} /\ last' = "nothing"
       \/ /\ ~(class \in Responses /\ step_tolerant(Current)) /\ Len(stack) > 1
          /\ LET outer  == Tail(stack)
                 owner  == outer[1].steps[outer[1].i]
                 retried == stack[1].way = "body" /\ selects(owner, class)
             IN  /\ \/ /\ retried /\ stack[1].left > 1 /\ err' = {}
                       /\ stack' = [stack EXCEPT ![1].i = 1, ![1].left = @ - 1]
                    \/ /\ retried /\ stack[1].left = 1 /\ owner.fallback # {} /\ err' = {}
                       /\ \E f \in owner.fallback : stack' = <<Frame(f, "fallback", 1)>> \o outer
                    \/ /\ ~retried \/ (stack[1].left = 1 /\ owner.fallback = {})
                       /\ stack' = outer /\ err' = {IF class = "contract" THEN "other" ELSE class}
                 /\ job' = [job EXCEPT !.slots = restore(stack[1], owner.binds)]
          /\ UNCHANGED last
  /\ coll' = IF stack' = <<>> THEN {} ELSE coll
  /\ UNCHANGED <<manifest, verdict, at>>

\* A plan refused before its first step.
Refused ==  \* ptp_executor.rs:641
  /\ verdict = "accepted" /\ stack = <<>> /\ job.kind # "none" /\ err # {}
  /\ job' = Idle /\ err' = {}
  /\ UNCHANGED <<manifest, verdict, at, stack, coll, last>>

Next ==
  \/ Read \/ mode_entry \/ Action \/ Follow \/ Finish \/ Refused
  \/ Wire \/ Unwritten \/ OpenChannel \/ Enter \/ run_loop \/ run_await_body \/ Leave \/ Unwind

Spec == Init /\ [][Next]_vars

-----------------------------------------------------------------------------
TypeOK ==
  /\ manifest \in Manifests /\ verdict \in {"unread", "accepted", "refused"}
  /\ at.conn \in DOMAIN manifest.connections /\ at.jobs \in 0..MaxJobs
  /\ job.kind \in {"none", "ptp", "reestablish", "action"}
  /\ \A i \in DOMAIN stack : stack[i].i \in 1..(Len(stack[i].steps) + 1) /\ stack[i].left > 0
  /\ err \subseteq {"busy", "denied", "decode", "other", "contract"}

Outer == stack[Len(stack)]

\* What the checks do not look for: a step of a session or channel on a connection whose
\* session a daemon owns, a literal its property cannot hold, a slot that no step binds to a
\* number, captures that do not fit the step or the type of its property, a poll of a
\* property without a number, the frame of an unknown sentinel, and a number for a
\* property of type u64, which has no encoder.
Overlooked(st) ==
  \/ Unready(st) \/ Unfit(st)
  \/ "awaitUntil" \in st.does /\ ~(observe_property(st) /\ capture_property(st))

\* An accepted plan fails for a reason that the plan alone decides only where the checks do
\* not look: never at a collection that is not bound, at an event that cannot come, at a
\* channel or an edge that leads nowhere, at a missing way back in or at a value of
\* another kind than its property.
NothingLeadsNowhere ==
  err = {"contract"} =>
    \/ stack # <<>> /\ stack[1].i <= Len(stack[1].steps) /\ Overlooked(Current)
    \/ stack = <<>> /\ \E st \in Below(job.plan.steps) : st.slot # {} /\ st.ptype = "u64"

\* What the check calls definitely bound is bound, whichever branches, attempts and fallbacks
\* the walk took and whatever it tolerated on the way.
BoundIsBound ==
  stack # <<>> =>
    \A sure \in with_collections(SubSeq(Outer.steps, 1, Outer.i - 1), Here.ownership, {}) : sure \subseteq coll

\* A channel is opened right after a step that the camera saw, so that a simulator can tell
\* when it may come; a write that was left out for want of its value is the exception.
ChannelsFollowTheWire == (Walking /\ Opens(Current)) => last \in {"wire", "skipped"}

\* A plan with activities never runs a step outside of exactly one of them.
StepsHaveOneActivity ==
  (Walking /\ job.plan.activities # <<>>) =>
    Cardinality({i \in DOMAIN job.plan.activities :
      job.plan.activities[i].first < Outer.i /\ Outer.i <= job.plan.activities[i].end}) = 1

\* A manifest that the load checks accept can be run, as far as they look.
AcceptedPlansRun ==
  verdict = "accepted" =>
    NothingLeadsNowhere /\ BoundIsBound /\ ChannelsFollowTheWire /\ StepsHaveOneActivity
=============================================================================
