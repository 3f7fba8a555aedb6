-------------------------- MODULE InitiatorSession --------------------------
(***************************************************************************)
(* The initiator's session runner: a plan of mode entries, actions and     *)
(* re-establishing switches is checked against the manifest before the     *)
(* camera is touched, then run step by step against one camera session     *)
(* after another, and what happened is published as a report that is never *)
(* overwritten.  A step of the plan is one action; the outcome of a call   *)
(* into the plan interpreter or the transport is any that they can return. *)
(* A crash may come between any two steps and while the report is written. *)
(***************************************************************************)
EXTENDS Integers, Sequences, FiniteSets, TLC

CONSTANTS
  Plans,       \* session plans as parsed from YAML: sequences of steps
  Edges,       \* mode_entry: [from, to, kind]; "none" is the cold source
  Actions,     \* the manifest's actions, a function of the verb
  Outcomes     \* outcomes of a run of a plan: [steps, scope, colls, outs]

VARIABLES
  plan,        \* the plan
  phase,       \* parse, start, running, closing, staging, publishing, copying or syncing;
               \* then refused, succeeded, failed, error or crashed
  at,          \* number of steps attempted
  run,         \* the locals of run_session_plan, with a history of the camera
  report,      \* SessionReport
  fs           \* the report's files: the staging file, the final path and what rename and link do

vars == <<plan, phase, at, run, report, fs>>

(****************************** Expectations *******************************)

\* -1 is an absent stepsRun or outputCount; an absent expectation expects nothing.
NoExpectation == [steps |-> -1, scope |-> <<>>, colls |-> <<>>, count |-> -1, outs |-> <<>>]

SessionStep ==
  [kind |-> "action", id |-> "s", from |-> "none", to |-> "none", action |-> "none", params |-> <<>>,
   bytes |-> -1, expect |-> NoExpectation, source |-> NoExpectation, exit |-> NoExpectation,
   names |-> FALSE]

ExpectationsOf(step) ==
  IF step.kind = "switch" THEN {step.source, step.exit, step.expect} ELSE {step.expect}

\* validate_expectation_shape: no index twice, none outside outputCount.
validate_expectation_shape(step) ==
  \A e \in ExpectationsOf(step) :
    /\ \A i, j \in DOMAIN e.outs : e.outs[i].index = e.outs[j].index => i = j
    /\ e.count # -1 => \A i \in DOMAIN e.outs : e.outs[i].index < e.count

\* Some key that is expected is missing or has another value.
Differs(expected, actual) ==  \* session.rs:1744-1769
  \E k \in DOMAIN expected : k \notin DOMAIN actual \/ actual[k] # expected[k]

compare_expectation(e, o) ==
  \/ e.steps # -1 /\ e.steps # o.steps
  \/ Differs(e.scope, o.scope) \/ Differs(e.colls, o.colls)
  \/ e.count # -1 /\ e.count # Len(o.outs)
  \/ \E i \in DOMAIN e.outs :
        \/ e.outs[i].index >= Len(o.outs)
        \/ e.outs[i].bytes # -1 /\ e.outs[i].bytes # o.outs[e.outs[i].index + 1]

(*************************** Static preparation ****************************)

\* SessionPlan::from_yaml
from_yaml(p) ==
  /\ p.schema /\ p.steps # <<>>
  /\ \A i, j \in DOMAIN p.steps : p.steps[i].id = p.steps[j].id => i = j
  /\ \A i \in DOMAIN p.steps : p.steps[i].id # "unsafe" /\ validate_expectation_shape(p.steps[i])

validate_ptp_entry(from, to) == [from |-> from, to |-> to, kind |-> "ptp"] \in Edges

resolve_reestablishment_checkpoint(from, to) == [from |-> from, to |-> to, kind |-> "reestablish"] \in Edges

\* Parameters: all declared, the required ones present, each of its type (a u32 in range).
\* Values are "u32", "u64" or "string", the smallest type that holds them.
prepare_action_request(a, params) ==
  /\ DOMAIN params \subseteq DOMAIN a.params
  /\ \A n \in DOMAIN a.params :
       IF n \notin DOMAIN params THEN ~a.params[n].required
       ELSE \/ params[n] = a.params[n].type
            \/ params[n] = "u32" /\ a.params[n].type = "u64"

\* A whole-object read: one unrepeated operation whose runtime parameters are bound u32s.
StreamingFits(a, params) ==
  /\ a.single
  /\ \A slot \in a.slots : slot \in DOMAIN params /\ params[slot] = "u32"

\* prepare_session_plan, one step: the mode that the plan has retained decides.
Prepares(step, mode) ==  \* session.rs:321-470
  CASE step.kind = "entry" -> step.from = mode /\ validate_ptp_entry(step.from, step.to)
    [] step.kind = "switch" ->
         /\ IF mode = "none" THEN validate_ptp_entry("none", step.from)
            ELSE step.from = mode /\ ~step.names
         /\ resolve_reestablishment_checkpoint(step.from, step.to)
         /\ validate_ptp_entry("none", step.to)
    [] step.kind = "action" ->
         /\ step.action \in DOMAIN Actions
         /\ LET a == Actions[step.action] IN
            /\ a.mode \in {"none", mode} /\ a.bound
            /\ prepare_action_request(a, step.params)
            /\ (a.streaming => StreamingFits(a, step.params))
            /\ (step.bytes # -1 => a.streaming)

AnyMode(steps, i) == "photo"

\* The tracked mode before a step: the target of the last entry or switch.
tracked_mode(steps, i) ==  \* session.rs:319-398
  LET moves == {j \in 1..i - 1 : steps[j].kind # "action"}
  IN IF moves = {} THEN "none" ELSE steps[CHOOSE j \in moves : \A k \in moves : k <= j].to

prepare_session_plan(steps) == \A i \in DOMAIN steps : Prepares(steps[i], tracked_mode(steps, i))

\* validate_session_artifact_paths: the plan, the trace and the observation are different
\* files outside the output directory ("out" is inside it, "-" is standard output).
validate_session_artifact_paths(p) ==
  /\ "out" \notin {p.path, p.observation, p.trace}
  /\ p.path # p.observation /\ (p.trace # "-" => p.trace \notin {p.path, p.observation})

(******************************* Running ***********************************)

\* The values of scope are numbers, -1 for text, with the session they were read in.
\* opened, mode and viewing are a history of the camera: whether the session is open, the
\* mode it was brought to and whether it sends live view; wrong is set when a step runs in
\* another mode than its action requires, stale when a value of an earlier session is used.
Fresh ==  \* session.rs:956-961
  [index |-> 0, scope |-> <<>>, live |-> FALSE, opened |-> FALSE, mode |-> "none",
   viewing |-> FALSE, wrong |-> FALSE, stale |-> FALSE, cleanups |-> 0]

\* A step's report.  done is how far a switch came: 0 to 4 for nothing, source, exit,
\* checkpoint and target.
StepReport(step, status, index) ==
  [id |-> step.id, status |-> status, index |-> index, payloads |-> 0, cleanup |-> "none",
   done |-> 0, after |-> 0]

Verdict(mismatch) == IF mismatch THEN "failed" ELSE "succeeded"  \* session.rs:1000-1006

\* The outcome of a stream of b bytes.
\* session.rs:1341-1352
Streamed(b) == [steps |-> 1, scope |-> <<>>, colls |-> <<>>, outs |-> <<b>>]

\* entry_runtime_values: the retained values override the global ones and must be numbers.
entry_runtime_values(scope) == \A k \in DOMAIN scope : scope[k].v # -1

\* session.rs:1280-1293
merge_retained_scope(scope, o, index) == [k \in DOMAIN o.scope |-> [v |-> o.scope[k], of |-> index]] @@ scope

\* open_command_session, when no session has been opened yet.
OpenIfNew(r) ==  \* session.rs:972-975
  IF r.index # 0 THEN {[ok |-> TRUE, r |-> r]}
  ELSE {[ok |-> FALSE, r |-> r], [ok |-> TRUE, r |-> [r EXCEPT !.index = 1, !.opened = TRUE]]}

\* session.rs:984-986
Uses(r) == [r EXCEPT !.stale = @ \/ \E k \in DOMAIN r.scope : r.scope[k].of # r.index]

\* A mode entry that succeeded.
Entered(r, to, o) ==  \* session.rs:988-991
  [r EXCEPT !.mode = to, !.scope = merge_retained_scope(r.scope, o, r.index)]

EntryOutcomes(step, r) ==
  LET failure == [r |-> r, report |-> StepReport(step, "failed", r.index)]
      entered(o) == [r |-> Entered(Uses(r), step.to, o),
                     report |-> StepReport(step, Verdict(compare_expectation(step.expect, o)), r.index)]
  IN IF entry_runtime_values(r.scope)
     THEN {[failure EXCEPT !.r = [Uses(r) EXCEPT !.mode = "unknown"]]} \cup {entered(o) : o \in Outcomes}
     ELSE {failure}

\* find_stop_cleanup: the stop action among the actions that follow directly.
find_stop_cleanup(steps, i) ==  \* session.rs:1833-1845
  \E j \in i + 1..Len(steps) :
    /\ steps[j].action = "stopLiveView" /\ \A k \in i + 1..j : steps[k].kind = "action"

AlwaysCleansUp(live, steps, i) == find_stop_cleanup(steps, i)

should_run_stop_cleanup(live, steps, i) ==  \* session.rs:1823-1831
  live /\ steps[i].action # "stopLiveView" /\ find_stop_cleanup(steps, i)

\* The cleanup of a failed action is recorded on its report.
Cleanup(step, i, r, failure) ==
  IF should_run_stop_cleanup(r.live, plan.steps, i)
  THEN {[r |-> [r EXCEPT !.viewing = IF c = "succeeded" THEN FALSE ELSE @, !.cleanups = @ + 1],
         report |-> [failure EXCEPT !.cleanup = c]] : c \in {"succeeded", "failed"}}
  ELSE {[r |-> r, report |-> failure]}

Started(verb, live) ==  \* session.rs:1065-1074
  CASE verb = "startLiveView" -> TRUE [] verb = "stopLiveView" -> FALSE [] OTHER -> live

\* execute_action: a stream is committed as one payload or leaves none; an ordinary action
\* keeps the payloads that its sink has written, whatever came of it.
ActionExecutions(a) ==
  IF a.streaming
  THEN {[ok |-> FALSE, payloads |-> 0, o |-> Streamed(0)]}
         \cup {[ok |-> TRUE, payloads |-> 1, o |-> Streamed(b)] : b \in 0..1}
  ELSE {[ok |-> FALSE, payloads |-> n, o |-> Streamed(0)] : n \in 0..1}
         \cup {[ok |-> TRUE, payloads |-> Len(o.outs), o |-> o] : o \in Outcomes}

\* One action, recorded in the trace; a trace that cannot be written fails the step before
\* its outcome is looked at.
ActionOutcomes(step, i, r) ==
  LET a == Actions[step.action]
      ran == [r EXCEPT !.wrong = @ \/ a.mode \notin {"none", r.mode}]
      failure(n) == [StepReport(step, "failed", r.index) EXCEPT !.payloads = n]
      camera(x) == IF x.ok THEN [ran EXCEPT !.viewing = Started(step.action, @)] ELSE ran
      traced(x) ==
        IF ~x.ok THEN Cleanup(step, i, ran, failure(x.payloads))
        ELSE {[r |-> [camera(x) EXCEPT !.live = Started(step.action, @)],
               report |-> [StepReport(step, Verdict(compare_expectation(step.expect, x.o)), r.index)
                             EXCEPT !.payloads = x.payloads]]}
      untraced(x) == {[r |-> camera(x), report |-> failure(IF x.ok THEN 0 ELSE x.payloads)]}
  IN UNION {traced(x) \cup untraced(x) : x \in ActionExecutions(a)}

\* run_switch_step: the failures on the way, each reported with what was completed.
SwitchFailure(step, r, before, done, after) ==
  [r |-> r, report |-> [StepReport(step, "failed", before) EXCEPT !.done = done, !.after = after]]

KeepScope(r) == r

ClearScope(r) == [r EXCEPT !.scope = <<>>]

\* The session was left by the exit plan; the camera changes its network and comes back.
Handoff(r) ==  \* session.rs:1533-1549
  [ClearScope(r) EXCEPT !.opened = FALSE, !.mode = "none", !.viewing = FALSE]

\* session.rs:1551-1566
Reopened(r) == [r EXCEPT !.opened = TRUE, !.live = FALSE, !.index = @ + 1]

\* A cold source is entered first; a retained one is not entered again.
SourceOutcomes(step, r) ==  \* session.rs:1412-1459
  IF tracked_mode(plan.steps, at + 1) # "none" THEN {[ok |-> TRUE, r |-> r, o |-> CHOOSE o \in Outcomes : TRUE]}
  ELSE IF ~entry_runtime_values(r.scope) THEN {[ok |-> FALSE, r |-> r, o |-> CHOOSE o \in Outcomes : TRUE]}
  ELSE {[ok |-> FALSE, r |-> [Uses(r) EXCEPT !.mode = "unknown"], o |-> CHOOSE o \in Outcomes : TRUE]}
         \cup {[ok |-> TRUE, r |-> Entered(Uses(r), step.from, o), o |-> o] : o \in Outcomes}

\* The replacement session is entered with the global parameters alone, and the outcomes
\* are compared with what was expected of them: s, x and o of source, exit and target.
TargetOutcomes(step, r, cold, s) ==
  {SwitchFailure(step, [r EXCEPT !.mode = "unknown"], r.index - 1, 3, r.index)}
    \cup {[r |-> Entered(r, step.to, o),
           report |-> [StepReport(step, Verdict(\/ cold /\ compare_expectation(step.source, s)
                                                \/ compare_expectation(step.exit, x)
                                                \/ compare_expectation(step.expect, o)), r.index - 1)
                         EXCEPT !.done = 4, !.after = r.index]] : o, x \in Outcomes}

\* From the confirmed live view to the handoff: the step may fail at the frame, at the exit
\* plan, at the checkpoint's record and at the endpoint, which must go and come back.
SwitchOutcomes(step, r0) ==
  LET cold == tracked_mode(plan.steps, at + 1) = "none"
      failure(r, done) == {SwitchFailure(step, r, r0.index, done, 0)}
      source == IF cold THEN 1 ELSE 0
      exits(r) ==
        failure([r EXCEPT !.mode = "unknown"], source)
          \cup failure([r EXCEPT !.opened = FALSE, !.mode = "none"], 2)
          \cup failure(Handoff(r), 3)
      from(s) ==
        failure(s.r, source)
          \cup (IF entry_runtime_values(s.r.scope)
                THEN exits(Uses(s.r)) \cup TargetOutcomes(step, Reopened(Handoff(Uses(s.r))), cold, s.o)
                ELSE {})
  IN UNION {IF s.ok THEN from(s) ELSE failure(s.r, 0) : s \in SourceOutcomes(step, r0)}

StepOutcomes(step, i) ==
  UNION {IF ~o.ok THEN {[r |-> o.r, report |-> StepReport(step, "failed", o.r.index)]}
         ELSE CASE step.kind = "entry"  -> EntryOutcomes(step, o.r)
                [] step.kind = "action" -> ActionOutcomes(step, i, o.r)
                [] step.kind = "switch" -> SwitchOutcomes(step, o.r)
         : o \in OpenIfNew(run)}

Init ==  \* session.rs:935-961
  /\ plan \in Plans
  /\ phase = "parse"
  /\ at = 0
  /\ run = Fresh
  /\ report = [status |-> "none", steps |-> <<>>, error |-> FALSE, warning |-> FALSE]
  /\ fs = [staging |-> "none", final |-> "none", rename |-> "none", others |-> FALSE]

\* The plan is read, prepared and its paths are checked before anything is created.
Prepare ==  \* session.rs:314-318
  /\ phase = "parse"
  /\ phase' = IF from_yaml(plan) /\ prepare_session_plan(plan.steps) /\ validate_session_artifact_paths(plan)
              THEN "start" ELSE "refused"
  /\ UNCHANGED <<plan, at, run, report, fs>>

\* The directories are created, none of which may exist.
Start ==
  /\ phase = "start"
  /\ \/ phase' = "refused" /\ UNCHANGED report
     \/ phase' = "running" /\ report' = [report EXCEPT !.status = "succeeded"]
  /\ UNCHANGED <<plan, at, run, fs>>

\* The first failure ends the run.
RunStep ==
  /\ phase = "running" /\ at < Len(plan.steps)
  /\ at' = at + 1
  /\ \E o \in StepOutcomes(plan.steps[at + 1], at + 1) :
       LET failed == o.report.status = "failed" IN
       /\ run' = o.r
       /\ report' = [report EXCEPT !.steps = Append(@, o.report),
                                   !.status = IF failed THEN "failed" ELSE @, !.error = failed]
       /\ phase' = IF failed THEN "closing" ELSE "running"
  /\ UNCHANGED <<plan, fs>>

\* close_session_if_open; a failure is only a warning.
CloseSession ==
  /\ \/ phase = "closing"
     \/ phase = "running" /\ at = Len(plan.steps)
  /\ \E warned \in IF run.opened THEN BOOLEAN ELSE {FALSE} : report' = [report EXCEPT !.warning = warned]
  /\ run' = [run EXCEPT !.opened = FALSE]
  /\ phase' = "staging"
  /\ UNCHANGED <<plan, at, fs>>

(****************************** Publication ********************************)

Ends(result) == phase' = result /\ UNCHANGED <<plan, at, run, report>>  \* session.rs:1222-1230

\* write_new_report_file
WriteStaging ==
  /\ phase = "staging"
  /\ \/ fs' = [fs EXCEPT !.staging = "whole"] /\ Ends("publishing")
     \/ \E left \in {"none", "partial"} : fs' = [fs EXCEPT !.staging = left] /\ Ends("error")

Overwrites(how) ==
  [fs EXCEPT !.final = "whole", !.staging = IF how = "rename" THEN "none" ELSE @, !.rename = how]

\* rename_noreplace, or a hard link where it is unsupported: they create the final path or
\* find it taken.
Publish(how) == IF fs.final # "none" THEN fs ELSE
  [fs EXCEPT !.final = "whole", !.staging = IF how = "rename" THEN "none" ELSE @, !.rename = how]

RenameOrLink ==
  /\ phase = "publishing"
  /\ \/ \E how \in {"rename", "link"} : fs' = Publish(how) /\ Ends(IF fs.final = "none" THEN "syncing" ELSE "error")
     \/ fs' = fs /\ Ends("error")

\* Neither is supported: the final path is opened as a new file and copied to.
create_new_synced_copy ==  \* session.rs:1912-1920
  /\ phase = "publishing"
  /\ IF fs.final # "none" THEN fs' = fs /\ Ends("error")
     ELSE fs' = [fs EXCEPT !.final = "partial", !.rename = "copy"] /\ Ends("copying")

Copied ==
  /\ phase = "copying"
  /\ \/ fs' = [fs EXCEPT !.final = "whole"] /\ Ends("syncing")
     \/ \E left \in {"none", "partial"} : fs' = [fs EXCEPT !.final = left] /\ Ends("error")

\* sync_parent, then the staging file goes if it can; a failed run ends as a failure.
SyncParent ==
  /\ phase = "syncing"
  /\ \/ fs' = fs /\ Ends("error")
     \/ \E left \in {fs.staging, "none"} :
          fs' = [fs EXCEPT !.staging = left] /\ Ends(IF report.status = "failed" THEN "failed" ELSE "succeeded")

\* Another process takes the final path.
Taken ==
  /\ phase \in {"running", "closing", "staging", "publishing"} /\ fs.final = "none"
  /\ fs' = [fs EXCEPT !.final = "other", !.others = TRUE]
  /\ UNCHANGED <<plan, phase, at, run, report>>

Crash ==
  /\ phase \in {"running", "closing", "staging", "publishing", "copying", "syncing"}
  /\ \E s \in IF phase = "staging" THEN {"none", "partial"} ELSE {fs.staging} : fs' = [fs EXCEPT !.staging = s]
  /\ Ends("crashed")

Next ==
  Prepare \/ Start \/ RunStep \/ CloseSession \/ WriteStaging \/ RenameOrLink
    \/ create_new_synced_copy \/ Copied \/ SyncParent \/ Taken \/ Crash

Spec == Init /\ [][Next]_vars

TypeOK ==
  /\ at \in 0..Len(plan.steps) /\ Len(report.steps) = at
  /\ run.index \in Nat /\ run.live \in BOOLEAN /\ run.opened \in BOOLEAN
  /\ fs.staging \in {"none", "partial", "whole"} /\ fs.final \in {"none", "partial", "whole", "other"}

\* The report lists the attempted steps in the order of the plan; only the last one may
\* have failed, and then the run has failed and has an error.
ReportIsPrefix ==
  /\ \A i \in 1..at : report.steps[i].id = plan.steps[i].id /\ (report.steps[i].status = "failed" => i = at)
  /\ (at > 0 => (report.steps[at].status = "failed") = (report.status = "failed" /\ report.error))

\* What was read in one camera session is never used in another: the handoff of a switch
\* clears the retained scope before the replacement session is entered.
ScopeIsOfSession == ~run.stale /\ (run.opened => \A k \in DOMAIN run.scope : run.scope[k].of = run.index)

\* Preparation is enough: no action ever runs in a mode other than the one it requires,
\* although the modes are checked before any of them has been entered.
ModesAreRight == ~run.wrong

\* Live view is stopped for the plan at most once, after a failed action of a session in
\* which it was started, and nothing of the plan runs afterwards.
CleanupIsLast ==
  /\ run.cleanups <= 1
  /\ \A i \in 1..at : report.steps[i].cleanup # "none" =>
       /\ i = at /\ report.steps[i].status = "failed"
       /\ \E j \in 1..i - 1 : plan.steps[j].action = "startLiveView" /\ report.steps[j].index = report.steps[i].index

\* A switch names the session it replaced and, if it came that far, the next one; the other
\* steps run in the session that the last switch left.
IndexesFollow ==
  \A i \in 1..at - 1 :
    report.steps[i + 1].index = IF plan.steps[i].kind = "switch" THEN report.steps[i].after ELSE report.steps[i].index

\* run_session_plan accounts for what it did to the camera.
SessionIsAccounted == ReportIsPrefix /\ ScopeIsOfSession /\ ModesAreRight /\ CleanupIsLast /\ IndexesFollow

\* The report's path is never replaced: what another process put there stays.  A report
\* that is there is whole, except while it is copied where neither a rename nor a link is
\* possible, or after a crash or a failure then.  A run that ends well has published it
\* and has closed its session.
ReportIsPublished ==
  /\ (fs.others => fs.final = "other")
  /\ (fs.final = "partial" => fs.rename = "copy" /\ phase \in {"copying", "error", "crashed"})
  /\ (phase \in {"succeeded", "failed"} => fs.final = "whole" /\ ~run.opened)
=============================================================================
