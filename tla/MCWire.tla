-------------------------------- MODULE MCWire ---------------------------------
(*****************************************************************************)
(* The command channel on the wire: reading frames, on a connection with an  *)
(* initial deadline and on one that may idle, collecting a data phase of the *)
(* client, and writing replies under injected faults.                        *)
(* The faults are there twice: many windows with one mutation, and one       *)
(* window with all mutations against all kinds of answers.                   *)
(* They share no state, so a behaviour picks one of them and leaves the      *)
(* others as they start.                                                     *)
(*****************************************************************************)
EXTENDS FrameReader, DataIn, Faults

VARIABLE part

--------------------------------------------------------------------------------
(* The constants of the run. *)

MCLengths == <<4, 5, 6>>

\* Windows that overlap: a bounded one after one skipped transaction, an open one, and
\* one that is exhausted just at the largest value of the counters.
MCWindows ==
  {[match |-> {"read"}, skip |-> 1, count |-> 1],
   [match |-> {"read", "write"}, skip |-> 0, count |-> Forever],
   [match |-> {"read", "write"}, skip |-> 2, count |-> 1]}

MCOnce == [match |-> {"read"}, skip |-> 0, count |-> 1]

MCSelectors == MCWindows \cup {MCOnce}

--------------------------------------------------------------------------------
allVars == <<part, vars, dataVars, faultVars>>

MCInit ==
  /\ part \in {"frames", "data", "windows", "phases"}
  /\ Init
  /\ part # "frames" => initial = CHOOSE t \in Initials : TRUE
  /\ DataInit
  /\ part # "data" => standard = TRUE
  /\ FaultInit

FramesPart ==
  /\ part = "frames" /\ Next
  /\ UNCHANGED <<part, dataVars, faultVars>>
DataPart ==
  /\ part = "data" /\ DataNext
  /\ UNCHANGED <<part, vars, faultVars>>
WindowsPart ==
  /\ part = "windows"
  /\ FaultStep(Conns, MCWindows, {"failResponse"}, {Reply("response", "-", FALSE)})
  /\ UNCHANGED <<part, vars, dataVars>>
PhasesPart ==
  /\ part = "phases" /\ FaultStep({CHOOSE c \in Conns : TRUE}, {MCOnce}, Used, Answers)
  /\ ops' <= 2 /\ Len(rules') <= 1
  /\ UNCHANGED <<part, vars, dataVars>>

MCNext == FramesPart \/ DataPart \/ WindowsPart \/ PhasesPart

MCSpec == MCInit /\ [][MCNext]_allVars

\* The fairness of the frame reader.
MCFairSpec ==
  /\ MCSpec
  /\ WF_vars(part = "frames" /\ Tick) /\ WF_vars(part = "frames" /\ Call)
  /\ SF_vars(part = "frames" /\ Read)
================================================================================
