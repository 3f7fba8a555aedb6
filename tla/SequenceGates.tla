--------------------------- MODULE SequenceGates ---------------------------
(***************************************************************************)
(* The session, the workflow phase and the sequence gates of the engine.   *)
(* A gate stands for an ordered ritual of successful requests; operations  *)
(* and properties that require it stay unanswered until it is satisfied,   *)
(* and the auxiliary listeners open on gates of the same kind.             *)
(*                                                                         *)
(* Only requests that succeed change this state, so a request that is      *)
(* refused (wrong mode, blocked arming, device busy, an injected failure)  *)
(* is a stuttering step.  A matcher is the set of requests it accepts.     *)
(***************************************************************************)
EXTENDS Integers, Sequences

CONSTANTS
  Requests,       \* what a client can ask: records with the fields op and arg
  Gates,          \* gate names, the channel-ready ones included
  GateSequences,  \* the compiled sequences: [gate, steps], in manifest order
  RequiresGate,   \* the gates that a request needs, at most one of each request
  Values,         \* values of the property the modes are detected from
  Modes,
  Detect,         \* the mode each value selects, or None
  Declared,       \* the phase each mode declares, or None
  TransferMode,   \* the mode of a camera-initiated transfer, or None
  Latched,        \* the modes in which a write is acknowledged without effect
  Effects,        \* the values an operation's effects may leave behind
  None,
  MaxLog          \* bound on the requests between two resets

Phases == {"disconnected", "sessionOpen", "imageImport", "queuedReceive",
           "liveView", "streaming", "closed"}

WorkflowPhases == {"sessionOpen", "imageImport", "liveView", "streaming"}

Indices == 1..Len(GateSequences)

ASSUME RequestAssumption ==
  \A r \in Requests : r.op \in {"open", "close", "info", "get", "set", "start", "send"}

ASSUME SequenceAssumption ==
  /\ GateSequences \in Seq([gate : Gates, steps : Seq(SUBSET Requests)])
  /\ \A i \in Indices : Len(GateSequences[i].steps) > 0

ASSUME ModeAssumption ==
  /\ None \notin Modes
  /\ Detect \in [Values -> Modes \cup {None}]
  /\ Declared \in [Modes \cup {None} -> WorkflowPhases \cup {None}]
  /\ Declared[None] = None
  /\ None \notin WorkflowPhases
  /\ TransferMode \in Modes \cup {None}
  /\ RequiresGate \in [Requests -> SUBSET Gates]
  /\ Effects \in [Requests -> SUBSET Values]

VARIABLES
  open,       \* session_open
  phase,
  mode,       \* active_mode
  value,      \* the current value of the selector property
  satisfied,  \* satisfied_gates
  progress,   \* gate_progress, by the index of the sequence
  log         \* history: the requests that succeeded since the last reset

vars == <<open, phase, mode, value, satisfied, progress, log>>

gates == <<satisfied, progress>>

NoProgress == [i \in Indices |-> 0]

Init ==
  /\ open = FALSE
  /\ phase = "disconnected"
  /\ mode = None
  /\ value \in Values
  /\ satisfied = {}
  /\ progress = NoProgress
  /\ log = <<>>

-----------------------------------------------------------------------------
\* advance_sequence_gates: one turn of its loop takes the satisfied gates and the
\* progress so far to what they are after the sequence i has seen the request.

Matches(i, k, r) == k <= Len(GateSequences[i].steps) /\ r \in GateSequences[i].steps[k]

\* Variant that waits for one request more.
AdvanceProgressLate(g, i, n) ==
  IF n > Len(GateSequences[i].steps)
  THEN [sat |-> g.sat \cup {GateSequences[i].gate}, prog |-> [g.prog EXCEPT ![i] = 0]]
  ELSE [g EXCEPT !.prog[i] = n]

AdvanceProgress(g, i, n) ==
  IF n >= Len(GateSequences[i].steps)
  THEN [sat |-> g.sat \cup {GateSequences[i].gate}, prog |-> [g.prog EXCEPT ![i] = 0]]
  ELSE [g EXCEPT !.prog[i] = n]

ClearGate(g, name) ==
  [sat |-> g.sat \ {name},
   prog |-> [j \in Indices |-> IF GateSequences[j].gate = name THEN 0 ELSE g.prog[j]]]

\* Variant that forgets to start over on a mismatch.
TurnKeeps(g, i, r) ==
  IF GateSequences[i].gate \in g.sat THEN g
  ELSE IF g.prog[i] > 0 /\ Matches(i, g.prog[i] + 1, r)
       THEN AdvanceProgress(g, i, g.prog[i] + 1)
       ELSE IF g.prog[i] = 0 /\ Matches(i, 1, r)
            THEN AdvanceProgress(ClearGate(g, GateSequences[i].gate), i, 1)
            ELSE g

Turn(g, i, r) ==
  IF GateSequences[i].gate \in g.sat THEN g
  ELSE IF g.prog[i] > 0 /\ Matches(i, g.prog[i] + 1, r)
       THEN AdvanceProgress(g, i, g.prog[i] + 1)
       ELSE IF Matches(i, 1, r)
            THEN AdvanceProgress(ClearGate(g, GateSequences[i].gate), i, 1)
            ELSE [g EXCEPT !.prog[i] = 0]

Advanced(sat, prog, r) ==
  LET turn[i \in 0..Len(GateSequences)] ==
        IF i = 0 THEN [sat |-> sat, prog |-> prog] ELSE Turn(turn[i - 1], i, r)
  IN  turn[Len(GateSequences)]

\* What apply_successful_operation does to the gates, from the gates the handler
\* left behind and the history that belongs to them.
Succeed(r, sat, prog, past) ==
  /\ satisfied' = Advanced(sat, prog, r).sat
  /\ progress' = Advanced(sat, prog, r).prog
  /\ log' = Append(past, r)

\* The request reaches its handler: a session is open where one is needed, and the
\* gate it requires is satisfied.
Reaches(r) ==
  /\ open \/ r.op \in {"open", "info"}
  /\ RequiresGate[r] \subseteq satisfied
  /\ Len(log) < MaxLog

-----------------------------------------------------------------------------
\* Requests.

OpenSession(r) ==
  /\ r.op = "open" /\ Reaches(r)
  /\ ~ open
  /\ open' = TRUE
  /\ phase' = "sessionOpen"
  /\ mode' = None
  /\ Succeed(r, {}, NoProgress, <<>>)
  /\ UNCHANGED value

CloseSession(r) ==
  /\ r.op = "close" /\ Reaches(r)
  /\ open' = FALSE
  /\ phase' = "closed"
  /\ mode' = None
  /\ Succeed(r, {}, NoProgress, <<>>)
  /\ UNCHANGED value

\* refresh_detected_mode: the phase after the mode m was detected.
PhaseAfter(m) ==
  IF m # None /\ m = TransferMode THEN "queuedReceive"
  ELSE IF m # mode /\ Declared[m] # None THEN Declared[m]
  ELSE IF phase = "queuedReceive" THEN "sessionOpen"
  ELSE phase

LeavesImport(m) ==
  mode # m /\ Declared[mode] = "imageImport" /\ Declared[m] # "imageImport"

\* Variant that compares the phases: a mode without one keeps the phase it finds.
GatesSurvivePhase(m) == ~ (phase = "imageImport" /\ PhaseAfter(m) # "imageImport")

\* Whether the earned gates survive the detection of m.
GatesSurvive(m) == ~ LeavesImport(m)

\* SetDevicePropValue.  Any write detects the mode again, from the value there is:
\* after a session was opened that may be one of an earlier session.
SetProp(r) ==
  /\ r.op = "set" /\ Reaches(r)
  /\ \/ /\ mode \in Latched
        /\ Succeed(r, satisfied, progress, log)
        /\ UNCHANGED <<phase, mode, value>>
     \/ /\ mode \notin Latched
        /\ value' = IF r.arg \in Values THEN r.arg ELSE value
        /\ mode' = Detect[value']
        /\ phase' = PhaseAfter(mode')
        /\ Succeed(r, IF GatesSurvive(mode') THEN satisfied ELSE {},
                      IF GatesSurvive(mode') THEN progress ELSE NoProgress,
                      IF LeavesImport(mode') THEN <<>> ELSE log)
  /\ UNCHANGED open

\* Variant that starts a capture in any phase.
InitiateAnywhere(r) ==
  /\ r.op = "start" /\ Reaches(r)
  /\ phase' = "streaming"
  /\ Succeed(r, satisfied, progress, log)
  /\ UNCHANGED <<open, mode, value>>

InitiateOpenCapture(r) ==
  /\ r.op = "start" /\ Reaches(r)
  /\ phase \in {"liveView", "streaming"}
  /\ phase' = "streaming"
  /\ Succeed(r, satisfied, progress, log)
  /\ UNCHANGED <<open, mode, value>>

\* Every other request.  Its effects write properties, now or with the read that
\* settles a pending one, and do not detect the mode again.
OtherRequest(r) ==
  /\ r.op \in {"info", "get", "send"} /\ Reaches(r)
  /\ value' \in Effects[r] \cup {value}
  /\ Succeed(r, satisfied, progress, log)
  /\ UNCHANGED <<open, phase, mode>>

-----------------------------------------------------------------------------
\* Everything else that touches the session.

\* clear_session_after_transport_end: the connection that owned the session ended.
ClearSession ==
  /\ open' = FALSE
  /\ phase' = "closed"
  /\ mode' = None
  /\ satisfied' = {} /\ progress' = NoProgress /\ log' = <<>>
  /\ UNCHANGED value

\* apply_state_overlay.  A patch of the phase forgets the mode and the gates, a
\* patch of properties or of the session flag keeps them.
ApplyOverlay(p, o, v) ==
  /\ IF p = None
     THEN UNCHANGED <<phase, mode, gates, log>>
     ELSE /\ phase' = p
          /\ mode' = None
          /\ satisfied' = {} /\ progress' = NoProgress /\ log' = <<>>
  /\ open' = o
  /\ value' = v

Next ==
  \/ \E r \in Requests :
       OpenSession(r) \/ CloseSession(r) \/ SetProp(r) \/ InitiateOpenCapture(r) \/ OtherRequest(r)
  \/ ClearSession
  \/ \E p \in Phases \cup {None}, o \in BOOLEAN, v \in Values : ApplyOverlay(p, o, v)

Spec == Init /\ [][Next]_vars

-----------------------------------------------------------------------------
\* The state has the types of CameraState, and no sequence counts as far as its
\* last step: a completed one is turned into a satisfied gate at once.
TypeOK ==
  /\ open \in BOOLEAN
  /\ phase \in Phases
  /\ mode \in Modes \cup {None}
  /\ value \in Values
  /\ satisfied \subseteq Gates
  /\ progress \in [Indices -> Nat]
  /\ \A i \in Indices : progress[i] < Len(GateSequences[i].steps)
  /\ log \in Seq(Requests)

\* The requests of l after the first n are a run of the first k steps of sequence i.
RunsFrom(l, n, i, k) ==
  /\ n \in 0..(Len(l) - k)
  /\ \A s \in 1..k : l[n + s] \in GateSequences[i].steps[s]

\* Progress is never credited for requests that did not happen: the latest
\* requests are the steps that a sequence counts as done, without a gap.
ProgressIsEarned ==
  \A i \in Indices : RunsFrom(log, Len(log) - progress[i], i, progress[i])

\* Of the sequences that lead to a gate at most one is under way, and none once the
\* gate is satisfied.  So a request that starts one alternative gives up another.
OneRunPerGate ==
  \A i, j \in Indices :
    (GateSequences[i].gate = GateSequences[j].gate /\ progress[i] > 0) =>
      /\ progress[j] > 0 => i = j
      /\ GateSequences[i].gate \notin satisfied

\* A satisfied gate was earned: since the session was opened, the phase patched or
\* the import workflow left, some sequence of that gate ran from start to end.
GateIsEarned ==
  \A g \in satisfied : \E i \in Indices :
    /\ GateSequences[i].gate = g
    /\ \E n \in 0..Len(log) : RunsFrom(log, n, i, Len(GateSequences[i].steps))

\* The phase agrees with the detected mode, whatever mixture of writes, captures,
\* patches and session changes led there.
PhaseAgreesWithMode ==
  /\ (mode # None /\ mode = TransferMode) => phase = "queuedReceive"
  /\ (mode # None /\ mode # TransferMode) => phase # "queuedReceive"
  /\ (mode # TransferMode /\ Declared[mode] # None) =>
       \/ phase = Declared[mode]
       \/ Declared[mode] = "liveView" /\ phase = "streaming"
=============================================================================
