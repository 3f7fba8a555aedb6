---------------------------- MODULE InitiatorCli ----------------------------
(***************************************************************************)
(* One process of the command-line initiator                               *)
(* (tools/camera-initiator/src/main.rs): its artifacts are opened, the     *)
(* command is checked before the camera is touched, the command session is *)
(* opened, the command runs, and the session is closed on every way out.   *)
(*                                                                         *)
(* Entries and actions succeed or fail as the executors decide; an action  *)
(* that fails may have taken effect.  The camera streams live view from a  *)
(* start until a stop.                                                     *)
(***************************************************************************)
EXTENDS Integers, Sequences, SequencesExt, FiniteSets

CONSTANTS Commands,    \* the command lines tried
          MaxPayloads, \* bound: payloads an action hands over
          MaxPolls     \* bound: polls of the old endpoint during a handoff

VARIABLES cli,      \* the command line
          stage,    \* where main is
          at,       \* index of the action, or polls of the handoff
          session,  \* "none", "open", "closed", "lost"
          cam,      \* the camera: streaming live view?
          locals,   \* live_view_started, the result so far
          files,    \* payload files written
          hist      \* history: outcomes of the actions, the cleanup, records made

vars == <<cli, stage, at, session, cam, locals, files, hist>>

---------------------------------------------------------------------------
(* Before the camera is touched.                                           *)

Names == <<cli.action>> \o cli.then  \* camera-initiator/main.rs:634-636

\* run_action_sequence / run_named_action: what is checked before the session opens.
SequenceFits == /\ ~cli.payloadOut /\ ~cli.expectedBytes
                /\ \A i \in 1..Len(Names) : /\ Names[i] # "unknown"
                                            /\ Names[i] # cli.wholeObject
                                            /\ Names[i] = "importObjects" => cli.payloadDir
                /\ cli.paramsFit

NamedActionFits == /\ cli.action # "unknown" /\ cli.paramsFit
                   /\ cli.action = "importObjects" => cli.payloadDir
                   /\ cli.expectedBytes => cli.action = cli.wholeObject

\* validate_ptp_entry and resolve_reestablishment_checkpoint.
ModeFits == cli.kind = "switch" => cli.checkpoint  \* camera-initiator/main.rs:429-431

Preflight ==
  CASE cli.kind = "action" -> IF cli.then # <<>> THEN SequenceFits ELSE NamedActionFits
    [] cli.kind \in {"entry", "switch"} -> cli.entryKnown /\ ModeFits
    [] cli.kind \in {"probe", "session"} -> cli.planFits

\* camera-initiator/main.rs:188-190
Leave(result) == /\ locals' = [locals EXCEPT !.result = result]
                 /\ stage' = "record"

\* main up to the command: load_store, parameters, session plan, recorder and trace output.
Prepare ==
  /\ stage = "prepare"
  /\ IF cli.storeLoads /\ cli.paramsParse /\ (cli.kind = "session" => cli.planFits)
     THEN stage' = "preflight" /\ UNCHANGED locals
     ELSE stage' = "exit" /\ locals' = [locals EXCEPT !.result = "failed"]
  /\ UNCHANGED <<cli, at, session, cam, files, hist>>

CheckCommand ==
  /\ stage = "preflight"
  /\ IF Preflight THEN stage' = "open" /\ UNCHANGED locals ELSE Leave("failed")
  /\ UNCHANGED <<cli, at, session, cam, files, hist>>

\* open_command_session; what a whole-object action needs of its destination is checked after it.
OpenSession ==
  /\ stage = "open"
  /\ \/ /\ session' = "open"
        /\ stage' = CASE cli.kind = "action" /\ cli.then = <<>> /\ cli.action = cli.wholeObject -> "stream"
                      [] cli.kind = "action" -> "act"
                      [] cli.kind = "switch" -> "source"
                      [] OTHER -> "body"
        /\ UNCHANGED locals
     \/ /\ Leave("failed")
        /\ UNCHANGED session
  /\ at' = 1
  /\ UNCHANGED <<cli, cam, files, hist>>

---------------------------------------------------------------------------
(* The commands.                                                           *)

\* run_entry, run_probe, run_session: one run over the open session.
RunBody ==
  /\ stage = "body"
  /\ \E result \in {"succeeded", "failed"} : Leave(result)
  /\ session' \in {"open", "lost"}
  /\ UNCHANGED <<cli, at, cam, files, hist>>

\* run_named_action of a whole-object action: streamed into a partial file, then committed.
RunStream ==
  /\ stage = "stream"
  /\ \/ ~cli.payloadOut /\ Leave("failed") /\ UNCHANGED <<session, files>>
     \/ cli.payloadDir /\ Leave("failed") /\ UNCHANGED <<session, files>>
     \/ /\ cli.payloadOut /\ ~cli.payloadDir
        /\ \/ Leave("succeeded") /\ files' = files \cup {<<"final", 0>>} /\ UNCHANGED session
           \/ Leave("failed") /\ files' \in {files, files \cup {<<"partial", 0>>}} /\ session' \in {"open", "lost"}
  /\ UNCHANGED <<cli, at, cam, hist>>

\* The effect an action has on the camera's live view, whatever is answered.
Effect(name) == IF name = "startLiveView" THEN TRUE  \* camera-initiator/main.rs:749-753
                ELSE IF name = "stopLiveView" THEN FALSE ELSE cam.live

\* Cleanup only when the stop is the very next action.
OnlyNextStop(i) ==
  /\ locals.live
  /\ i < Len(Names) /\ Names[i + 1] = "stopLiveView"

should_run_requested_stop_cleanup(i) ==
  /\ locals.live
  /\ Names[i] # "stopLiveView"
  /\ \E j \in (i + 1)..Len(Names) : Names[j] = "stopLiveView"

\* run_action_sequence, one action (a single action is a sequence of one).
RunAction ==
  /\ stage = "act"
  /\ cli.then = <<>> => ~(cli.payloadOut /\ cli.payloadDir)
  /\ \/ /\ cam' = [cam EXCEPT !.live = Effect(Names[at])]
        /\ locals' = [locals EXCEPT !.live = IF Names[at] = "startLiveView" THEN TRUE
                                             ELSE IF Names[at] = "stopLiveView" THEN FALSE ELSE @,
                                    !.result = IF at = Len(Names) THEN "succeeded" ELSE @]
        /\ stage' = IF at = Len(Names) THEN "record" ELSE "act"
        /\ at' = at + 1
        /\ hist' = [hist EXCEPT !.done = Append(@, Names[at])]
        /\ UNCHANGED session
     \/ /\ cam' \in {cam, [cam EXCEPT !.live = Effect(Names[at])]}
        /\ session' \in {"open", "lost"}
        /\ IF should_run_requested_stop_cleanup(at)
           THEN stage' = "cleanup" /\ locals' = [locals EXCEPT !.result = "failed"]
           ELSE Leave("failed")
        /\ hist' = [hist EXCEPT !.failedAt = at]
        /\ UNCHANGED at
  /\ UNCHANGED <<cli, files>>

\* The requested stopLiveView runs once more, best effort.
StopCleanup ==  \* camera-initiator/main.rs:722-744
  /\ stage = "cleanup"
  /\ cam' \in IF session = "open" THEN {cam, [cam EXCEPT !.live = FALSE]} ELSE {cam}
  /\ hist' = [hist EXCEPT !.stopped = TRUE]
  /\ stage' = "record"
  /\ UNCHANGED <<cli, at, session, locals, files>>

\* OrdinaryFileSink::new refuses a single action with two destinations.
RefuseDestination ==
  /\ stage = "act"
  /\ cli.then = <<>> /\ cli.payloadOut /\ cli.payloadDir
  /\ Leave("failed")
  /\ UNCHANGED <<cli, at, session, cam, files, hist>>

\* OrdinaryFileSink::write of the running action: a single destination takes one
\* payload and fails the action at the second, a directory numbers them.
WritePayload ==
  /\ stage = "act"
  /\ cli.payloadOut # cli.payloadDir
  /\ Cardinality(files) < MaxPayloads
  /\ IF cli.payloadOut /\ files # {}
     THEN Leave("failed") /\ UNCHANGED files
     ELSE /\ files' = files \cup {IF cli.payloadOut THEN <<"out", 0>> ELSE <<"dir", Cardinality(files)>>}
          /\ UNCHANGED <<stage, locals>>
  /\ UNCHANGED <<cli, at, session, cam, hist>>

---------------------------------------------------------------------------
(* run_switch.                                                             *)

\* The source mode is entered, a live-view frame seen, and the session's exit run.
RunSource ==
  /\ stage = "source"
  /\ \/ stage' = "handoff" /\ UNCHANGED locals
     \/ Leave("failed")
  /\ session' \in {"open", "lost"}
  /\ at' = 1
  /\ UNCHANGED <<cli, cam, files, hist>>

\* The old endpoint still accepts: wait half a second and ask again.
PollEndpoint ==
  /\ stage = "handoff"
  /\ at < MaxPolls
  /\ at' = at + 1
  /\ UNCHANGED <<cli, stage, session, cam, locals, files, hist>>

\* The endpoint is gone, or the deadline is reached first.
HandoffEnds ==
  /\ stage = "handoff"
  /\ \/ Leave("failed") /\ UNCHANGED session
     \/ stage' = "body" /\ session' = "open" /\ UNCHANGED locals
     \/ Leave("failed") /\ session' = "lost"
  /\ UNCHANGED <<cli, at, cam, files, hist>>

---------------------------------------------------------------------------
(* The way out.                                                            *)

\* The action record of the observation bundle; when it cannot be written, main returns.
RecordAction ==
  /\ stage = "record"
  /\ \/ stage' = "close" /\ UNCHANGED locals
     \/ /\ cli.kind = "action"
        /\ stage' = "exit"
        /\ locals' = [locals EXCEPT !.result = "failed"]
  /\ hist' = [hist EXCEPT !.recorded = stage' = "close"]
  /\ UNCHANGED <<cli, at, session, cam, files>>

\* The session is closed only after a command that succeeded.
ClosesOnSuccess ==
  /\ stage = "close"
  /\ session' \in IF session = "open" /\ locals.result = "succeeded" THEN {"closed", "lost"} ELSE {session}
  /\ hist' = [hist EXCEPT !.closed = TRUE]
  /\ stage' = "outcome"
  /\ UNCHANGED <<cli, at, cam, locals, files>>

\* close_session_if_open: its failure is a warning.
CloseSession ==
  /\ stage = "close"
  /\ session' \in IF session = "open" THEN {"closed", "lost"} ELSE {session}
  /\ hist' = [hist EXCEPT !.closed = TRUE]
  /\ stage' = "outcome"
  /\ UNCHANGED <<cli, at, cam, locals, files>>

\* The outcome record: when a success cannot be recorded the process fails.
Outcome ==
  /\ stage = "outcome"
  /\ stage' = "exit"
  /\ locals' \in {locals, [locals EXCEPT !.result = "failed"]}
  /\ UNCHANGED <<cli, at, session, cam, files, hist>>

Init ==
  /\ cli \in Commands
  /\ stage = "prepare" /\ at = 0
  /\ session = "none"
  /\ cam = [live |-> FALSE]
  /\ locals = [live |-> FALSE, result |-> "none"]
  /\ files = {}
  /\ hist = [done |-> <<>>, failedAt |-> 0, stopped |-> FALSE, recorded |-> TRUE, closed |-> FALSE]

Next ==
  \/ Prepare \/ CheckCommand \/ OpenSession
  \/ RunBody \/ RunStream \/ RunAction \/ StopCleanup \/ RefuseDestination \/ WritePayload
  \/ RunSource \/ PollEndpoint \/ HandoffEnds
  \/ RecordAction \/ CloseSession \/ Outcome

Spec == Init /\ [][Next]_vars

---------------------------------------------------------------------------

TypeOK ==
  /\ stage \in {"prepare", "preflight", "open", "body", "stream", "act", "cleanup", "source", "handoff",
                "record", "close", "outcome", "exit"}
  /\ session \in {"none", "open", "closed", "lost"}
  /\ locals.result \in {"none", "succeeded", "failed"}

\* A process that opened a command session does not leave it open, except
\* when the bundle refused its action record (main returns there).
SessionIsClosed == stage = "exit" /\ hist.recorded => session # "open"

\* A sequence that started live view, asked for a stop later and failed in
\* between, and no other, has tried the stop once more; the camera may go on
\* streaming when that stop fails too, or when no stop was asked for.
RequestedStopIsTried ==
  stage = "exit" /\ hist.failedAt > 0 =>
    (hist.stopped <=>
       /\ Names[hist.failedAt] # "stopLiveView"
       /\ "stopLiveView" \in {Names[j] : j \in (hist.failedAt + 1)..Len(Names)}
       /\ \E i \in 1..Len(hist.done) :
            hist.done[i] = "startLiveView"
              /\ \A j \in (i + 1)..Len(hist.done) : hist.done[j] # "stopLiveView")

\* A process that reports success ran every requested action, and left the
\* camera streaming only if the last live-view action asked for it.
SuccessIsComplete ==
  stage = "exit" /\ locals.result = "succeeded" /\ cli.kind = "action" /\ cli.action # cli.wholeObject =>
    /\ hist.done = Names
    /\ cam.live => LET lv == SelectSeq(Names, LAMBDA n : n \in {"startLiveView", "stopLiveView"})
                   IN  Last(lv) = "startLiveView"

\* The way out of the process: the session, the live view and the verdict.
ProcessEndsClean == SessionIsClosed /\ RequestedStopIsTried /\ SuccessIsComplete

=============================================================================
