--------------------------- MODULE InitiatorProbe ---------------------------
(***************************************************************************)
(* The runtime probe of the initiator (tools/camera-initiator/src/probe.rs)*)
(* : a validated plan reads the camera's inventory, runs explicit steps,   *)
(* changes properties reversibly, fetches one object three times and       *)
(* publishes a report into a new directory.                                *)
(*                                                                         *)
(* An operation is answered with a code and perhaps data, or fails (time   *)
(* out, transport error); a data-out operation may take effect on the      *)
(* camera whatever becomes of its answer.  `cam' is the value the plan's   *)
(* reversible writes change; an OK answer reads it truly.  -1 stands for   *)
(* "no payload", -2 for an empty one.                                      *)
(***************************************************************************)
EXTENDS Integers, Sequences, FiniteSets

CONSTANTS Plans,      \* plans tried, valid and not
          Codes,      \* response codes; "ok" is the standard OK
          Values,     \* payloads of the probed property
          Properties, \* advertised property lists (sequences)
          Handles,    \* object handles of the camera's catalog
          Contents    \* bodies a whole-object read may deliver: [size, hash]

VARIABLES plan, stage, idx,   \* the plan and where in it the run is
          cam,                \* the camera's value of the probed property
          run,                \* locals: baseline read, primary outcome, attempts, matches
          report,             \* the report under construction
          files,              \* names in the output directory
          hist                \* history: the value at the start, set and restore attempts

vars == <<plan, stage, idx, cam, run, report, files, hist>>

None == -1
Empty == -2

---------------------------------------------------------------------------
(* Validation.                                                             *)

validate_operation(o) ==
  /\ o.accepted # {}
  /\ o.max \in 1..10
  /\ o.max = 1 => o.retry = {}
  /\ o.retry \cap o.accepted = {}
  /\ o.phase = "in" \/ o.output = "discard"

require_operation(P, name, output) ==  \* probe.rs:221-235
  /\ name \in DOMAIN P.ops
  /\ P.ops[name].phase = "in" /\ P.ops[name].output = output

require_bindings(P, name, expected) == P.ops[name].binds = expected

\* The shapes an invocation may have in each use.
validate_invocation(P, inv, usage) ==
  /\ inv.op \in DOMAIN P.ops
  /\ LET o == P.ops[inv.op]
     IN  /\ o.binds = inv.args
         /\ CASE usage = "explicit" -> (o.phase = "out") = (inv.payload # None)
              [] usage = "read"     -> o.phase = "in" /\ o.output = "memory" /\ inv.payload = None /\ inv.out = ""
              [] usage = "set"      -> o.phase = "out" /\ o.output = "discard" /\ inv.payload # None
              [] usage = "restore"  -> o.phase = "out" /\ o.output = "discard" /\ inv.payload = None
         /\ o.phase # "in" => inv.expect = None
         /\ (o.output = "file") = (inv.out # "")

validate(P) ==
  /\ DOMAIN P.ops # {}
  /\ \A name \in DOMAIN P.ops : validate_operation(P.ops[name])
  /\ \A name \in {P.info, P.desc, P.value, P.catalog, P.objectInfo} : require_operation(P, name, "memory")
  /\ require_operation(P, P.read, "stream")
  /\ require_bindings(P, P.info, {}) /\ require_bindings(P, P.catalog, {})
  /\ \A name \in {P.desc, P.value} : require_bindings(P, name, {"propertyCode"})
  /\ \A name \in {P.objectInfo, P.read} : require_bindings(P, name, {"objectHandle"})
  /\ \A name \in DOMAIN P.ops : P.ops[name].output = "stream" => name = P.read
  /\ P.ops[P.read].accepted = {"ok"}
  /\ P.repetitions = 3
  /\ \A i, j \in 1..Len(P.explicit) : P.explicit[i].name = P.explicit[j].name => i = j
  /\ \A i \in 1..Len(P.explicit) : validate_invocation(P, P.explicit[i], "explicit")
  /\ \A i \in 1..Len(P.writes) :
       LET w == P.writes[i]
       IN  /\ \A r \in {w.baseline, w.verify, w.verifyRestored} : validate_invocation(P, r, "read")
           /\ validate_invocation(P, w.set, "set") /\ validate_invocation(P, w.restore, "restore")

---------------------------------------------------------------------------
(* One operation.                                                          *)

\* probe.rs:582-590
Failed(c) == [ok |-> FALSE, code |-> "none", saw |-> FALSE, payload |-> None, cam |-> c]

\* run_operation_attempt: the camera's answer, and what the operation did to it.
run_operation_attempt(o, payload, c) ==
  LET effects == IF o.phase = "out" THEN {c, payload} ELSE {c}
  IN  {Failed(e) : e \in effects}
        \cup {[ok |-> TRUE, code |-> code, saw |-> FALSE, payload |-> None, cam |-> e] :
                code \in Codes, e \in effects}
        \cup UNION {{[ok |-> TRUE, code |-> code, saw |-> TRUE, payload |-> p, cam |-> e] :
                       p \in IF code = "ok" THEN {c} ELSE {c, Empty}} : code \in Codes, e \in effects}

\* run_operation_with_policy: retry only answers without a data phase, then judge the answer.
RECURSIVE run_operation_with_policy(_, _, _, _, _)
run_operation_with_policy(o, payload, c, attempt, allow) ==
  UNION { IF ~a.ok THEN {a}
          ELSE IF a.code \in o.retry
               THEN IF a.saw \/ attempt = o.max THEN {Failed(a.cam)}
                    ELSE run_operation_with_policy(o, payload, a.cam, attempt + 1, allow)
          ELSE IF \/ allow /\ a.code # "ok" /\ a.payload \notin {None, Empty}
                  \/ a.code \notin o.accepted
                  \/ o.phase = "in" /\ ~a.saw /\ ~(allow /\ a.code # "ok")
                  \/ o.phase # "in" /\ a.saw
               THEN {Failed(a.cam)}
          ELSE {[a EXCEPT !.payload = IF o.output = "discard" THEN None ELSE @]}
        : a \in run_operation_attempt(o, payload, c) }

run_operation(name, payload) == run_operation_with_policy(plan.ops[name], payload, cam, 1, FALSE)

run_inventory_operation(name) == run_operation_with_policy(plan.ops[name], None, cam, 1, TRUE)

\* run_invocation: the operation, the payload it expects, and its output file (created new).
run_invocation(inv, override) ==
  LET payload == IF override # None THEN override ELSE inv.payload
  IN  { IF ~r.ok THEN r
        ELSE IF inv.expect # None /\ r.payload # inv.expect THEN Failed(r.cam)
        ELSE IF plan.ops[inv.op].output = "file" /\ inv.out \in files THEN Failed(r.cam)
        ELSE r
      : r \in run_operation(inv.op, payload) }

---------------------------------------------------------------------------
(* The run.                                                                *)

Fresh == [baseline |-> None, primary |-> "none", attempt |-> 0, matched |-> {}, listed |-> <<>>]

NoReport == [advertised |-> <<>>, properties |-> <<>>, explicit |-> <<>>, writes |-> 0, bodies |-> <<>>]

Goto(s, i) == stage' = s /\ idx' = i

Stop == Goto("failed", 0)  \* probe.rs:623-625

\* Where the run goes after the inventory, the steps and the writes.
\* probe.rs:706-707
AfterProperties == IF plan.explicit = <<>> THEN <<"writes", 1>> ELSE <<"explicit", 1>>

Begin ==  \* probe.rs:596-613
  /\ stage = "start"
  /\ IF validate(plan) /\ plan.compressed /\ ~plan.directoryExists
     THEN Goto("info", 0) ELSE Stop
  /\ UNCHANGED <<plan, cam, run, report, files, hist>>

\* A list is rejected when it repeats itself.
ensure_no_duplicates(s) == Cardinality({s[i] : i \in 1..Len(s)}) = Len(s)  \* probe.rs:1407-1413

DeviceInfo ==
  /\ stage = "info"
  /\ \E r \in run_operation(plan.info, None), list \in Properties, decodes \in BOOLEAN :
       /\ cam' = r.cam
       /\ IF r.ok /\ decodes /\ ensure_no_duplicates(list)
          THEN /\ report' = [report EXCEPT !.advertised = list]
               /\ IF list = <<>> THEN Goto(AfterProperties[1], AfterProperties[2]) ELSE Goto("desc", 1)
          ELSE Stop /\ UNCHANGED report
  /\ UNCHANGED <<plan, run, files, hist>>

\* A descriptor is read, its header checked against the code asked for.
Descriptor ==
  /\ stage = "desc"
  /\ \E r \in run_inventory_operation(plan.desc), matches \in BOOLEAN :
       /\ cam' = r.cam
       /\ IF r.ok /\ (r.code # "ok" \/ matches) THEN Goto("value", idx) ELSE Stop
       /\ run' = [run EXCEPT !.primary = IF r.ok THEN r.code ELSE "none"]
  /\ UNCHANGED <<plan, report, files, hist>>

CurrentValue ==
  /\ stage = "value"
  /\ \E r \in run_inventory_operation(plan.value) :
       /\ cam' = r.cam
       /\ IF ~r.ok THEN Stop /\ UNCHANGED report
          ELSE /\ report' = [report EXCEPT !.properties = Append(@, report.advertised[idx])]
               /\ IF idx < Len(report.advertised) THEN Goto("desc", idx + 1)
                  ELSE Goto(AfterProperties[1], AfterProperties[2])
  /\ run' = [run EXCEPT !.primary = "none"]
  /\ UNCHANGED <<plan, files, hist>>

ExplicitStep ==
  /\ stage = "explicit"
  /\ LET inv == plan.explicit[idx]
     IN  \E r \in run_invocation(inv, None) :
           /\ cam' = r.cam
           /\ IF ~r.ok THEN Stop /\ UNCHANGED <<report, files>>
              ELSE /\ report' = [report EXCEPT !.explicit = Append(@, inv.name)]
                   /\ files' = IF plan.ops[inv.op].output = "file" THEN files \cup {inv.out} ELSE files
                   /\ IF idx < Len(plan.explicit) THEN Goto("explicit", idx + 1) ELSE Goto("writes", 1)
  /\ UNCHANGED <<plan, run, hist>>

---------------------------------------------------------------------------
(* run_reversible_write.                                                   *)

\* The baseline is read and must fit the in-memory ceiling.
Baseline ==
  /\ stage = "writes"
  /\ idx <= Len(plan.writes)
  /\ \E r \in run_invocation(plan.writes[idx].baseline, None), fits \in BOOLEAN :
       /\ cam' = r.cam
       /\ IF r.ok /\ fits THEN Goto("set", idx) ELSE Stop
       /\ run' = [run EXCEPT !.baseline = IF r.ok /\ fits THEN r.payload ELSE None]
       /\ hist' = [hist EXCEPT !.baseline = IF r.ok /\ fits THEN cam ELSE @]
  /\ UNCHANGED <<plan, report, files>>

NoMoreWrites ==  \* probe.rs:721-726
  /\ stage = "writes"
  /\ idx > Len(plan.writes)
  /\ Goto("catalog", 0)
  /\ UNCHANGED <<plan, cam, run, report, files, hist>>

\* A failed set is reported at once.
SkipsCleanup(ok) == IF ok THEN "verify" ELSE "failed"

\* Cleanup is unconditional after the set attempt begins.
AfterSet(ok) == IF ok THEN "verify" ELSE "restore"

SetValue ==
  /\ stage = "set"
  /\ \E r \in run_invocation(plan.writes[idx].set, None) :
       /\ cam' = r.cam
       /\ run' = [run EXCEPT !.primary = IF r.ok THEN "ok" ELSE "failed"]
       /\ Goto(AfterSet(r.ok), idx)
  /\ hist' = [hist EXCEPT !.set = @ + 1]
  /\ UNCHANGED <<plan, report, files>>

VerifySet ==
  /\ stage = "verify"
  /\ \E r \in run_invocation(plan.writes[idx].verify, None) :
       /\ cam' = r.cam
       /\ run' = [run EXCEPT !.primary = IF r.ok /\ r.payload = plan.writes[idx].set.payload
                                         THEN "ok" ELSE "failed"]
  /\ Goto("restore", idx)
  /\ UNCHANGED <<plan, report, files, hist>>

Restore ==
  /\ stage = "restore"
  /\ \E r \in run_invocation(plan.writes[idx].restore, run.baseline) :
       /\ cam' = r.cam
       /\ IF r.ok THEN Goto("verifyRestored", idx) ELSE Stop
  /\ hist' = [hist EXCEPT !.restore = @ + 1]
  /\ UNCHANGED <<plan, run, report, files>>

\* Both halves must have succeeded for the write to be reported as restored.
VerifyRestored ==
  /\ stage = "verifyRestored"
  /\ \E r \in run_invocation(plan.writes[idx].verifyRestored, None) :
       /\ cam' = r.cam
       /\ IF r.ok /\ r.payload = run.baseline /\ run.primary = "ok"
          THEN /\ report' = [report EXCEPT !.writes = @ + 1]
               /\ Goto("writes", idx + 1)
          ELSE Stop /\ UNCHANGED report
  /\ run' = Fresh
  /\ UNCHANGED <<plan, files, hist>>

---------------------------------------------------------------------------
(* run_object_probe.                                                       *)

Catalog ==
  /\ stage = "catalog"
  /\ \E r \in run_operation(plan.catalog, None), decodes \in BOOLEAN, list \in Handles :
       /\ cam' = r.cam
       /\ IF r.ok /\ decodes /\ ensure_no_duplicates(list)
          THEN Goto("objectInfo", 1) ELSE Stop
       /\ run' = [run EXCEPT !.listed = list]
  /\ UNCHANGED <<plan, report, files, hist>>

ObjectInfo ==
  /\ stage = "objectInfo"
  /\ idx <= Len(run.listed)
  /\ \E r \in run_operation(plan.objectInfo, None), decodes \in BOOLEAN, selects \in BOOLEAN :
       /\ cam' = r.cam
       /\ IF r.ok /\ decodes THEN Goto("objectInfo", idx + 1) ELSE Stop
       /\ run' = [run EXCEPT !.matched = IF selects THEN @ \cup {run.listed[idx]} ELSE @]
  /\ UNCHANGED <<plan, report, files, hist>>

SelectObject ==  \* probe.rs:989-1002
  /\ stage = "objectInfo"
  /\ idx > Len(run.listed)
  /\ IF Cardinality(run.matched) = 1 THEN Goto("read", 1) ELSE Stop
  /\ UNCHANGED <<plan, cam, run, report, files, hist>>

\* probe.rs:1006
OutputName(n) == <<"object-repetition-01.bin", "object-repetition-02.bin", "object-repetition-03.bin">>[n]

\* probe.rs:1453-1455
Partial(n) == <<"object-repetition-01.bin.partial", "object-repetition-02.bin.partial",
                "object-repetition-03.bin.partial">>[n]

\* StreamingFileSink::new: neither the output nor its partial may exist.
SinkRefused ==
  /\ stage = "read"
  /\ run.attempt = 0
  /\ {OutputName(idx), Partial(idx)} \cap files # {}
  /\ Stop
  /\ UNCHANGED <<plan, cam, run, report, files, hist>>

\* A refusal may be retried only while the sink has not been started.
\* probe.rs:1052-1061
Retries(o, code, attempt, started) == code \in o.retry /\ attempt < o.max /\ ~started

\* One streamed read into the repetition's partial file.
ReadAttempt ==
  /\ stage = "read"
  /\ run.attempt > 0 \/ {OutputName(idx), Partial(idx)} \cap files = {}
  /\ LET o == plan.ops[plan.read]
     IN  \/ \* begun, delivered and committed: synced, linked to its name, the partial removed
            \E body \in Contents :
              /\ body.size = plan.size
              /\ Partial(idx) \notin files
              /\ report' = [report EXCEPT !.bodies = Append(@, body)]
              /\ files' = files \cup {OutputName(idx)}
              /\ run' = [run EXCEPT !.attempt = 0]
              /\ IF idx < plan.repetitions THEN Goto("read", idx + 1) ELSE Goto("compare", 0)
         \/ \* a response code, before or after a body was begun
            \E code \in Codes \ {"ok"}, started \in BOOLEAN :
              /\ started => Partial(idx) \notin files
              /\ files' = IF started THEN files \cup {Partial(idx)} ELSE files
              /\ IF Retries(o, code, run.attempt + 1, started)
                 THEN stage' = stage /\ idx' = idx /\ run' = [run EXCEPT !.attempt = @ + 1]
                 ELSE Stop /\ UNCHANGED run
              /\ UNCHANGED report
         \/ \* a timeout, a framing or sink error, or a commit that fails
            /\ files' \in {files, files \cup {Partial(idx)}}
            /\ Stop
            /\ UNCHANGED <<run, report>>
  /\ UNCHANGED <<plan, cam, hist>>

CompareRepetitions ==  \* probe.rs:1090-1103
  /\ stage = "compare"
  /\ IF \A i \in 1..Len(report.bodies) : report.bodies[i] = report.bodies[1] /\ report.bodies[i].size = plan.size
     THEN Goto("report", 0) ELSE Stop
  /\ UNCHANGED <<plan, cam, run, report, files, hist>>

\* write_new_json: the report is created new; an earlier output of that name loses the run.
WriteReport ==
  /\ stage = "report"
  /\ IF "probe-report.json" \in files
     THEN Stop /\ UNCHANGED files
     ELSE \/ Goto("done", 0) /\ files' = files \cup {"probe-report.json"}
          \/ Stop /\ UNCHANGED files
  /\ UNCHANGED <<plan, cam, run, report, hist>>

---------------------------------------------------------------------------

Init ==  \* probe.rs:592-606
  /\ plan \in Plans
  /\ stage = "start" /\ idx = 0
  /\ cam \in Values
  /\ run = Fresh
  /\ report = NoReport
  /\ files = {}
  /\ hist = [baseline |-> None, set |-> 0, restore |-> 0]

Next ==
  \/ Begin \/ DeviceInfo \/ Descriptor \/ CurrentValue \/ ExplicitStep
  \/ Baseline \/ NoMoreWrites \/ SetValue \/ VerifySet \/ Restore \/ VerifyRestored
  \/ Catalog \/ ObjectInfo \/ SelectObject \/ SinkRefused \/ ReadAttempt \/ CompareRepetitions
  \/ WriteReport

Spec == Init /\ [][Next]_vars

---------------------------------------------------------------------------

TypeOK ==
  /\ stage \in {"start", "info", "desc", "value", "explicit", "writes", "set", "verify", "restore",
                "verifyRestored", "catalog", "objectInfo", "read", "compare", "report", "done", "failed"}
  /\ cam \in Values
  /\ report.writes \in 0..Len(plan.writes)

Ended == stage \in {"done", "failed"}

\* "A set can have taken effect even when its response or verification fails,
\* so cleanup is unconditional after the set attempt begins": every run that
\* tried a set has tried to restore the baseline before it ends.
SetIsFollowedByRestore == Ended => hist.set = hist.restore

\* A plan's probe leaves the camera as it found it whenever a write is
\* reported restored: the value is then the one the baseline was read at.
RestoredMeansRestored == stage = "writes" /\ report.writes > 0 => cam = hist.baseline

\* A published report is complete: every advertised property once and in
\* order, every explicit step, every write, and three equal bodies on disk.
ReportIsEarned ==
  stage = "done" =>
    /\ report.properties = report.advertised
    /\ Len(report.explicit) = Len(plan.explicit) /\ report.writes = Len(plan.writes)
    /\ Len(report.bodies) = 3 /\ \A i \in 1..3 : report.bodies[i] = report.bodies[1]
    /\ {OutputName(i) : i \in 1..3} \subseteq files
    /\ \A i \in 1..3 : Partial(i) \notin files

\* What a probe changes it restores, and what it reports it has done.
ProbeIsAccounted == SetIsFollowedByRestore /\ RestoredMeansRestored /\ ReportIsEarned

=============================================================================
