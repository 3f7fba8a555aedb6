-------------------------- MODULE StreamingExecutor --------------------------
(***************************************************************************)
(* The bounded-memory executor of one whole-object transaction             *)
(* (camera-protocol-ffi/streaming_executor.rs) over a raw byte stream.     *)
(*                                                                         *)
(* The camera answers a request with a data frame and a response, or with  *)
(* an early response alone.  The host returns any part of what it was      *)
(* asked for, EOF, an error or too much; every wait races a deadline and   *)
(* the whole call may be dropped at any await.  Operations share one       *)
(* command stream until the session is invalidated, so bytes one operation *)
(* leaves unread are read by the next.                                     *)
(***************************************************************************)
EXTENDS Integers, Sequences, FiniteSets

CONSTANTS Requests,    \* the action requests tried
          Declared,    \* lengths a data frame's header may declare
          Responses,   \* lengths a response frame may declare
          Expected,    \* expected_payload_bytes; -1 is none
          ChunkBytes,  \* MAX_STREAM_CHUNK
          MaxOps       \* bound: operations on one command stream

StreamingAssumption ==
  /\ Declared \subseteq Nat /\ Responses \subseteq Nat
  /\ Expected \subseteq Nat \cup {-1}
  /\ ChunkBytes \in Nat \ {0} /\ MaxOps \in Nat

HEADER_BYTES == 12  \* streaming_executor.rs:20
MAX_RESPONSE_BYTES == 32  \* streaming_executor.rs:22

VARIABLES op,       \* the call: its stage, guard, counters and result
          stream,   \* frames of the camera not read yet, front first
          host,     \* the command session: valid?, reserved ids, operations run
          sink      \* bytes announced and written to the destination

vars == <<op, stream, host, sink>>

---------------------------------------------------------------------------
(* Resolving the action.                                                   *)

\* A request is the set of what run_streaming_action requires and it lacks.
\* streaming_executor.rs:124-212
Checks == <<"initiatorRole", "resolves", "numericParameters", "knownConnection", "wholeFrameFraming",
            "transferContract", "contractSelectsAction", "declaredAction", "oneUnrepeatedStep",
            "stepIsSendOp", "slotsBound", "parametersFit">>

Rejection(request) ==
  IF request = {} THEN "none"
  ELSE Checks[CHOOSE i \in 1..Len(Checks) :
                /\ Checks[i] \in request
                /\ \A j \in 1..(i - 1) : Checks[j] \notin request]

valid_response_length(n) ==  \* streaming_executor.rs:387-390
  /\ n \in HEADER_BYTES..MAX_RESPONSE_BYTES
  /\ (n - HEADER_BYTES) % 4 = 0

---------------------------------------------------------------------------

\* streaming_executor.rs:258-261
NoFrame == [kind |-> "none", length |-> 0, echoes |-> FALSE, ok |-> FALSE, tid |-> 0, left |-> 0]

Idle == [stage |-> "idle", armed |-> FALSE, tid |-> 0, expected |-> -1, need |-> 0, head |-> NoFrame,
         total |-> 0, remaining |-> 0, result |-> "none"]

NoSink == [begun |-> FALSE, total |-> 0, written |-> 0]  \* streaming_executor.rs:47-53

\* A frame to be read: what its fields say, and how many bytes of it are left.
Frame(kind, length, echoes, ok) ==
  [kind |-> kind, length |-> length, echoes |-> echoes, ok |-> ok, tid |-> op.tid,
   left |-> IF length < HEADER_BYTES THEN HEADER_BYTES ELSE length]

DataFrames == {Frame("data", n, e, TRUE) : n \in Declared, e \in BOOLEAN}

ResponseFrames == {Frame("response", n, e, ok) : n \in Responses, e \in BOOLEAN, ok \in BOOLEAN}

Answers == {<<r>> : r \in ResponseFrames} \cup {<<d, r>> : d \in DataFrames, r \in ResponseFrames}

\* The session is invalidated only when the result is a transport error.
OnlyOnTransport(o, result) ==
  /\ op' = [o EXCEPT !.stage = "idle", !.result = result]
  /\ host' = [host EXCEPT !.valid = @ /\ ~(o.armed /\ result = "transport"), !.ops = @ + 1]

\* The call returns (or is dropped): an armed guard invalidates the session.
Finish(o, result) ==
  /\ op' = [o EXCEPT !.stage = "idle", !.result = result]
  /\ host' = [host EXCEPT !.valid = @ /\ ~o.armed, !.ops = @ + 1]

Start(request, expected) ==
  /\ op.stage = "idle"
  /\ host.valid
  /\ host.ops < MaxOps
  /\ sink' = NoSink
  /\ IF Rejection(request) # "none"
     THEN Finish(Idle, "rejected")
     ELSE /\ op' = [Idle EXCEPT !.stage = "reserve", !.expected = expected]
          /\ UNCHANGED host
  /\ UNCHANGED stream

\* The id is reserved, the guard armed and the request handed to the transport.
reserve_transaction_id ==
  /\ op.stage = "reserve"
  /\ host' = [host EXCEPT !.next = @ + 1]
  /\ op' = [op EXCEPT !.stage = "write", !.armed = TRUE, !.tid = host.next]
  /\ UNCHANGED <<stream, sink>>

\* The first bytes of a read: the frame at the front of the stream is the one it parses.
\* streaming_executor.rs:257-261
ReadFrame(o, stage, need, s) == [o EXCEPT !.stage = stage, !.need = need, !.head = s[1]]

\* streaming_executor.rs:449-456
ReadOn(o, stage, need) == [o EXCEPT !.stage = stage, !.need = need]

send_command_frame ==
  /\ op.stage = "write"
  /\ \E answer \in Answers :
       /\ stream' = stream \o answer
       /\ op' = ReadFrame(op, "header", HEADER_BYTES, stream')
  /\ UNCHANGED <<host, sink>>

\* The host hands over k bytes: frames are consumed from the front.
RECURSIVE Consume(_, _)
Consume(s, k) ==
  IF k = 0 \/ s = <<>> THEN s
  ELSE IF s[1].left <= k THEN Consume(SubSeq(s, 2, Len(s)), k - s[1].left)
       ELSE <<[s[1] EXCEPT !.left = @ - k]>> \o SubSeq(s, 2, Len(s))

RECURSIVE Available(_)
Available(s) == IF s = <<>> THEN 0 ELSE s[1].left + Available(SubSeq(s, 2, Len(s)))

\* decode_response: a response frame of this transaction.
decode_response(frame) == frame.kind = "response" /\ frame.echoes /\ frame.tid = op.tid

Disarm(o) == [o EXCEPT !.armed = FALSE]  \* streaming_executor.rs:108-110

\* A complete response was consumed: from here on the session stays usable.
Respond(early) ==
  IF ~decode_response(op.head) THEN Finish(op, "framing")
  ELSE Finish(Disarm(op), IF ~op.head.ok THEN "response" ELSE IF early THEN "framing" ELSE "ok")

\* Every read of the body asks for a full chunk.
FullChunk(remaining) == ChunkBytes

\* min(remaining, MAX_STREAM_CHUNK)
\* streaming_executor.rs:320
ChunkOf(remaining) == IF remaining < ChunkBytes THEN remaining ELSE ChunkBytes

Onward(o) == /\ op' = o  \* streaming_executor.rs:472-474
             /\ UNCHANGED host

NextChunk(o, remaining, s) ==  \* streaming_executor.rs:318-328
  IF remaining = 0 THEN Onward([ReadFrame(o, "length", 4, s) EXCEPT !.remaining = 0])
  ELSE Onward([ReadOn(o, "body", ChunkOf(remaining)) EXCEPT !.remaining = remaining])

\* The twelve header bytes are complete.
HeaderRead ==
  LET h == op.head
      total == h.length - HEADER_BYTES
  IN  IF h.length < HEADER_BYTES THEN Finish(op, "framing")
      ELSE IF h.kind = "response"
           THEN IF ~valid_response_length(h.length) THEN Finish(op, "framing")
                ELSE IF h.length = HEADER_BYTES THEN Respond(TRUE)
                ELSE Onward(ReadOn(op, "early", total))
      ELSE IF ~h.echoes \/ h.tid # op.tid THEN Finish(op, "framing")
      ELSE IF op.expected \notin {-1, total} THEN Finish(op, "framing")
      ELSE Onward([op EXCEPT !.stage = "begin", !.total = total])

LengthRead ==  \* streaming_executor.rs:330-337
  IF ~valid_response_length(op.head.length) THEN Finish(op, "framing")
  ELSE Onward(ReadOn(op, "response", op.head.length - 4))

\* streaming_executor.rs:444-458
Reading == op.stage \in {"header", "early", "body", "length", "response"}

\* read_exact: one receive, of all that is missing or of less.
Receive ==
  /\ Reading
  /\ \E k \in {4, op.need} :
       /\ k <= op.need /\ k <= Available(stream)
       /\ stream' = Consume(stream, k)
       /\ IF k < op.need THEN Onward([op EXCEPT !.need = @ - k])
          ELSE CASE op.stage = "header"   -> HeaderRead
                 [] op.stage = "early"    -> Respond(TRUE)
                 [] op.stage = "body"     -> Onward([op EXCEPT !.stage = "sink", !.need = 0])
                 [] op.stage = "length"   -> LengthRead
                 [] op.stage = "response" -> Respond(FALSE)
  /\ UNCHANGED sink

\* sink.begin: the destination learns the length before the first byte.
SinkBegin ==  \* streaming_executor.rs:312-316
  /\ op.stage = "begin"
  /\ sink' = [begun |-> TRUE, total |-> op.total, written |-> 0]
  /\ NextChunk(op, op.total, stream)
  /\ UNCHANGED stream

SinkWrite ==  \* streaming_executor.rs:321-327
  /\ op.stage = "sink"
  /\ sink' = [sink EXCEPT !.written = @ + ChunkOf(op.remaining)]
  /\ NextChunk(op, IF ChunkOf(op.remaining) >= op.remaining THEN 0 ELSE op.remaining - ChunkOf(op.remaining), stream)
  /\ UNCHANGED stream

\* A wait ends badly: transport error, EOF, more bytes than asked for, or the
\* I/O deadline first; the bytes of a dropped receive may be lost with it.
WaitFails ==
  /\ op.stage \in {"reserve", "write"} \/ Reading
  /\ \E result \in {"transport", "deadline"} \cup (IF Reading THEN {"framing"} ELSE {}) : Finish(op, result)
  /\ stream' \in {stream} \cup (IF Reading THEN {Consume(stream, op.need)} ELSE {})
  /\ UNCHANGED sink

SinkFails ==  \* streaming_executor.rs:312-326
  /\ op.stage \in {"begin", "sink"}
  /\ Finish(op, "sink")
  /\ UNCHANGED <<stream, sink>>

\* The host drops the call at an await.
Cancel ==
  /\ op.stage # "idle"
  /\ Finish(op, "cancelled")
  /\ UNCHANGED <<stream, sink>>

Init ==  \* streaming_executor.rs:96-102
  /\ op = Idle
  /\ stream = <<>>
  /\ host = [valid |-> TRUE, next |-> 1, ops |-> 0]
  /\ sink = NoSink

Next ==
  \/ \E request \in Requests, expected \in Expected : Start(request, expected)
  \/ reserve_transaction_id \/ send_command_frame \/ Receive
  \/ SinkBegin \/ SinkWrite
  \/ WaitFails \/ SinkFails \/ Cancel

Spec == Init /\ [][Next]_vars

---------------------------------------------------------------------------

TypeOK ==
  /\ op.stage \in {"idle", "reserve", "write", "header", "early", "begin", "body", "sink", "length", "response"}
  /\ op.result \in {"none", "rejected", "framing", "response", "ok", "transport", "deadline", "sink", "cancelled"}
  /\ op.need \in Nat /\ op.remaining \in Nat
  /\ host.valid \in BOOLEAN

\* A session that stays valid is at a frame boundary: whatever ended the call
\* (an answer, a refusal, a fault at any read, a drop), no byte of the
\* camera's answer is left for the next operation to misread.
ReusedStreamIsAligned == op.stage = "idle" /\ host.valid => stream = <<>>

\* The destination gets the declared bytes and nothing else: never more than
\* was announced, and all of them when the call succeeds.
SinkIsExact ==
  /\ sink.written <= sink.total
  /\ op.result = "ok" => /\ sink.begun /\ sink.written = sink.total
                         /\ op.expected \in {-1, sink.total}

\* A streamed transaction is exact at both ends.
StreamingIsExact == ReusedStreamIsAligned /\ SinkIsExact

=============================================================================
