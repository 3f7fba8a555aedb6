---------------------------- MODULE PtpTransaction ----------------------------
(***************************************************************************)
(* One operation of the client's PTP plan executor on the command channel: *)
(* a transaction id is reserved, the command and its data are sent frame   *)
(* by frame, and frames are read until the response, every wait against a  *)
(* clock of its own.  On a channel that a daemon owns, one call carries    *)
(* the whole operation.  The camera may send any frame at any time.        *)
(***************************************************************************)
EXTENDS Naturals, Sequences

CONSTANTS
  Sizes,       \* lengths that frames carry
  Cap,         \* MAX_DATA_PHASE_BYTES
  MaxFrames,   \* MAX_COMMAND_FRAMES
  MaxId        \* bound: transactions of one run

TransactionAssumption ==
  Sizes \subseteq Nat /\ Cap \in Nat /\ MaxFrames \in Nat /\ MaxId \in Nat

VARIABLES
  seam,        \* the backend, the framing and whether a sink takes the outputs
  tx,          \* the operation in progress
  outputs,     \* outputs handed out, by transaction
  log          \* history: the frames that this operation accepted

vars == <<seam, tx, outputs, log>>

Framings == {"standard", "compressed", "usb"}  \* ptp_executor.rs:606-630

\* A camera's frame: its type, whether its transaction id is ours, and a number: the
\* declared length, a payload's length, or whether a response has parameters.
Frames == [type : {"start", "data", "end", "response", "other"}, ours : BOOLEAN, n : Sizes]

Idle ==  \* ptp_executor.rs:1727-1732
  [stage |-> "idle", id |-> 0, unsent |-> 0, len |-> 0, hadData |-> FALSE, total |-> 0,
   declared |-> FALSE, ended |-> FALSE, read |-> 0, class |-> "none"]

Init ==
  /\ seam \in [frames : {TRUE}, framing : Framings, sink : BOOLEAN]
             \cup [frames : {FALSE}, framing : {"standard"}, sink : BOOLEAN]
  /\ tx = Idle
  /\ outputs = <<>>
  /\ log = <<>>

-----------------------------------------------------------------------------
\* The operation ends with an error of a class; what the transport was doing is dropped.
Fails(class) ==
  /\ tx' = [tx EXCEPT !.stage = "failed", !.class = class]
  /\ UNCHANGED <<outputs, log>>

\* A wait of the transport loses against its clock, or ends in its own error.  A timeout
\* of the transport counts as a deadline; a clock that fails is a transport error.
transport_deadline ==  \* ptp_executor.rs:2166-2195
  /\ tx.stage \in {"reserve", "send", "read", "call"}
  /\ \E class \in {"deadline", "transport"} : Fails(class)

\* Frames that follow the command: start and end under standard framing, one container
\* otherwise.
DataOutFrames(dataOut) ==  \* ptp_executor.rs:1691-1726
  IF ~ dataOut THEN 0 ELSE IF seam.framing = "standard" THEN 2 ELSE 1

\* An operation begins.  The daemon's seam takes it in one call.
issue ==
  /\ tx.stage \in {"idle", "ok", "failed"} /\ tx.id < MaxId /\ Len(outputs) < MaxId
  /\ \E dataOut \in BOOLEAN :
       tx' = [Idle EXCEPT !.stage = IF seam.frames THEN "reserve" ELSE "call",
                          !.id = tx.id, !.unsent = 1 + DataOutFrames(dataOut)]
  /\ log' = <<>>
  /\ UNCHANGED outputs

\* The transport reserves the transaction id of the operation.
Reserve ==
  /\ tx.stage = "reserve"
  /\ tx' = [tx EXCEPT !.stage = "send", !.id = @ + 1]
  /\ UNCHANGED <<outputs, log>>

\* The command frame and the frames of its data leave one after the other.
Send ==
  /\ tx.stage = "send"
  /\ tx' = [tx EXCEPT !.unsent = @ - 1, !.stage = IF tx.unsent = 1 THEN "read" ELSE "send"]
  /\ UNCHANGED <<outputs, log>>

\* Whether a data frame may be appended: inside an open data phase and within its
\* length under standard framing, a first frame within the cap otherwise.
check_data_frame(f) ==
  IF seam.framing = "standard"
  THEN tx.declared /\ ~ tx.ended /\ tx.len + f.n <= tx.total
  ELSE ~ tx.hadData /\ f.n <= Cap

\* Variant that accepts a second declaration of the length.
StartsAgain(f) ==
  seam.framing = "standard" /\ f.n <= Cap

\* Whether a declaration of the length is accepted.
Starts(f) ==
  seam.framing = "standard" /\ ~ tx.declared /\ f.n <= Cap

\* Whether a response may follow: a declared length has arrived and ended.
Complete ==  \* ptp_executor.rs:1788-1801
  tx.declared => tx.ended /\ tx.len = tx.total

\* A response with data or parameters hands out one output, to the sink or to the
\* outcome.  A sink that fails ends the operation.
WriteOutput(n, any, params) ==  \* ptp_executor.rs:1802-1827
  IF any \/ params
  THEN \/ /\ outputs' = Append(outputs, [id |-> tx.id, len |-> n])
          /\ tx' = [tx EXCEPT !.stage = "ok"]
       \/ /\ seam.sink
          /\ tx' = [tx EXCEPT !.stage = "failed", !.class = "other"]
          /\ UNCHANGED outputs
  ELSE tx' = [tx EXCEPT !.stage = "ok"] /\ UNCHANGED outputs

\* A frame is read: data is collected, the response ends the operation, and any frame
\* that is out of place or of another transaction is an error, as is one frame too many.
ReadFrame ==
  /\ tx.stage = "read"
  /\ \E f \in Frames :
       IF tx.read = MaxFrames \/ ~ f.ours
       THEN Fails("other")
       ELSE
         \/ /\ f.type = "start" /\ Starts(f)
            /\ tx' = [tx EXCEPT !.read = @ + 1, !.hadData = TRUE, !.declared = TRUE, !.total = f.n]
            /\ log' = Append(log, f) /\ UNCHANGED outputs
         \/ /\ f.type \in {"data", "end"} /\ check_data_frame(f)
            /\ tx' = [tx EXCEPT !.read = @ + 1, !.hadData = TRUE, !.len = @ + f.n,
                                !.ended = @ \/ f.type = "end"]
            /\ log' = Append(log, f) /\ UNCHANGED outputs
         \/ /\ f.type = "response" /\ Complete
            /\ WriteOutput(tx.len, tx.hadData, f.n > 0)
            /\ log' = Append(log, f)
         \/ /\ \/ f.type = "start" /\ ~ Starts(f)
               \/ f.type \in {"data", "end"} /\ ~ check_data_frame(f)
               \/ f.type = "response" /\ ~ Complete
               \/ f.type = "other"
            /\ Fails("other")

\* The daemon answers a typed call.  It owns the transaction ids: outputs report zero.
issue_typed ==
  /\ tx.stage = "call"
  /\ \E n \in Sizes, params \in BOOLEAN : WriteOutput(n, n > 0, params)
  /\ UNCHANGED log

Next ==
  /\ issue \/ Reserve \/ Send \/ ReadFrame \/ issue_typed \/ transport_deadline
  /\ UNCHANGED seam

Spec == Init /\ [][Next]_vars

-----------------------------------------------------------------------------
\* An operation has its type.
TypeOK ==
  /\ tx.stage \in {"idle", "reserve", "send", "read", "call", "ok", "failed"}
  /\ tx.id \in 0..MaxId /\ tx.read \in 0..MaxFrames /\ tx.unsent \in 0..3
  /\ tx.class \in {"none", "deadline", "transport", "other"}
  /\ \A i \in DOMAIN outputs : outputs[i].id \in 0..MaxId /\ outputs[i].len \in Nat

Accepted(types) == SelectSeq(log, LAMBDA f : f.type \in types)

Bytes[s \in Seq(Frames)] == IF s = <<>> THEN 0 ELSE Head(s).n + Bytes[Tail(s)]

\* The data of an operation on the frame seam that succeeds is one whole phase: exactly
\* the declared bytes between one start and one end, or one container, and no frame
\* after the response.  No other payload leaves the executor, and each transaction hands
\* out at most one output, in order.
PayloadIsWhole ==
  /\ tx.stage = "ok" /\ seam.frames =>
       /\ log[Len(log)].type = "response" /\ Len(Accepted({"response"})) = 1
       /\ IF seam.framing = "standard"
          THEN LET first == Accepted({"start"}) IN
               /\ Len(first) <= 1
               /\ Bytes[Accepted({"data", "end"})] = Bytes[first]
               /\ Len(Accepted({"end"})) = Len(first)
          ELSE Len(Accepted({"start"})) = 0 /\ Len(Accepted({"data", "end"})) <= 1
  /\ seam.frames =>
       /\ \A i, j \in DOMAIN outputs : i < j => outputs[i].id < outputs[j].id
       /\ \A i \in DOMAIN outputs : outputs[i].len <= Cap
=============================================================================
