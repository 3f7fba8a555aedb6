------------------------------- MODULE MCEngine --------------------------------
(*****************************************************************************)
(* The sequential engine: the gates of its operation sequences, the queue of *)
(* a camera-initiated transfer and the queue of captured objects.            *)
(* They share no state, so a behaviour picks one of them and leaves the      *)
(* others as they start.                                                     *)
(*****************************************************************************)
EXTENDS SequenceGates, CameraQueue, CaptureQueue, FiniteSets, TLC

VARIABLE part

ASSUME RitualConstants == RitualAssumption

allVars == <<part, vars, transferVars, captureVars>>

MCInit ==
  /\ part \in {"gates", "transfer", "capture"}
  /\ Init
  /\ part # "gates" => value = CHOOSE v \in Values : TRUE
  /\ TransferInit
  /\ part # "transfer" => active = FALSE
  /\ CaptureInit
  /\ part # "capture" => driven = FALSE

GatesPart ==
  /\ part = "gates" /\ Next
  /\ UNCHANGED <<part, transferVars, captureVars>>
\* Bound: while an overlay's count stands, at most one reply is in flight.
OverlayBound == overwritten' => Cardinality({c \in Conns : reply'[c] # NoReply}) <= 1

TransferPart ==
  /\ part = "transfer" /\ TransferNext /\ OverlayBound
  /\ UNCHANGED <<part, vars, captureVars>>
CapturePart ==
  /\ part = "capture" /\ CaptureNext
  /\ UNCHANGED <<part, vars, transferVars>>

MCNext == GatesPart \/ TransferPart \/ CapturePart

MCSpec == MCInit /\ [][MCNext]_allVars

--------------------------------------------------------------------------------
(* The constants of the run. *)

Req(o, a) == [op |-> o, arg |-> a]

MCRequests == {Req("open", "1"), Req("close", ""), Req("start", ""), Req("get", "a"), Req("send", "b"), Req("info", "")}
                \cup {Req("set", x) : x \in {"import", "view", "transfer", "other"}}

\* Two alternatives of one gate that share a step, a gate with a repeated step,
\* and a channel that opens with a single operation.
MCSequences ==
  << [gate |-> "boot", steps |-> <<{Req("get", "a")}, {Req("set", "import")}, {Req("get", "a")}>>],
     [gate |-> "boot", steps |-> <<{Req("set", "import")}, {Req("send", "b")}>>],
     [gate |-> "twice", steps |-> <<{Req("get", "a")}, {Req("get", "a")}, {Req("send", "b")}>>],
     [gate |-> "event", steps |-> <<{Req("start", "")}>>] >>

MCGates == {"boot", "twice", "event"}

MCRequires == [r \in MCRequests |-> IF r.op = "send" THEN {"event"} ELSE {}]

MCValues == {"import", "view", "transfer", "idle"}

MCModes == {"Import", "View", "Transfer"}

MCDetect == [v \in MCValues |-> CASE v = "import" -> "Import" [] v = "view" -> "View"
                                  [] v = "transfer" -> "Transfer" [] OTHER -> "None"]

MCDeclared == [m \in MCModes \cup {"None"} |->
                 CASE m = "Import" -> "imageImport" [] m = "View" -> "liveView" [] OTHER -> "None"]

MCEffects == [r \in MCRequests |-> IF r.op = "send" THEN {"idle", "view"} ELSE {}]

MCSizes == <<3, 0, 1>>

\* The shutter ritual of the wireless-tether manifest: three selector writes, each
\* of them followed by the same capture request.
MCShutter == <<{"s1"}, {"capture"}, {"s2"}, {"capture"}, {"s3"}, {"capture"}>>

Symmetry == Permutations(Conns)
================================================================================
