---------------------------- MODULE FrameReader ----------------------------
(***************************************************************************)
(* Reading length-prefixed frames from a stream, in a loop that may drop   *)
(* a read at any await because another branch of its select! was ready,    *)
(* and come back to it later.  What was received stays in the reader, and  *)
(* so does the deadline a frame got with its first byte.                   *)
(*                                                                         *)
(* A byte of the stream is its frame and its place in it; the length of a  *)
(* frame is what its prefix says.                                          *)
(***************************************************************************)
EXTENDS Naturals, Sequences

CONSTANTS
  Lengths,     \* the advertised lengths of the frames that the peer sends
  Prefix,      \* bytes of a prefix
  MinFrame,    \* the smallest length that is accepted
  MaxFrame,    \* the role limit
  Timeout,     \* started_frame_timeout
  Initials,    \* values of initial_wait_deadline; 0 is a policy without one
  MaxTime      \* bound: later the clock goes on only to the deadline of a started frame

ASSUME ReaderAssumption ==
  /\ Lengths \in Seq(Nat)
  /\ Prefix \in Nat \ {0} /\ MinFrame \in Nat /\ MinFrame >= 2 * Prefix /\ MaxFrame \in Nat
  /\ \A i \in 1..Len(Lengths) : Lengths[i] >= Prefix
  /\ Timeout \in Nat \ {0} /\ Initials \subseteq Nat /\ MaxTime \in Nat

VARIABLES
  initial,     \* initial_wait_deadline of the policy of the connection
  clock,
  sent,        \* how many bytes of the stream the peer has sent
  eof,         \* whether it has closed the stream
  pos,         \* how many of them were read
  prefix,      \* the bytes of the prefix received so far
  body,        \* the bytes of the frame received so far; <<>> before it is allocated
  capacity,    \* the length of the allocated body
  deadline,    \* of a started frame; 0 if there is none
  call,        \* the read: none, ready for the next read of the stream, or parked in it
  until,       \* the deadline of the parked read; 0 if it has none
  frames,      \* history: the frames that were returned
  started,     \* history: when the first byte of the current frame was read
  result       \* running, closed or an error

vars == <<initial, clock, sent, eof, pos, prefix, body, capacity, deadline, call, until,
          frames, started, result>>

readerVars == <<prefix, body, capacity, deadline, started>>

\* The bytes of frame i, and the stream that the peer sends.
FrameBytes(i) == [k \in 1..Lengths[i] |-> <<i, k>>]

Ends[i \in 0..Len(Lengths)] == IF i = 0 THEN 0 ELSE Ends[i - 1] + Lengths[i]

Total == Ends[Len(Lengths)]

ByteAt(p) ==
  LET i == CHOOSE j \in 1..Len(Lengths) : Ends[j - 1] < p /\ p <= Ends[j]
  IN  <<i, p - Ends[i - 1]>>

Stream(from, n) == [k \in 1..n |-> ByteAt(from + k)]

Init ==
  /\ initial \in Initials
  /\ clock = 0
  /\ sent = 0 /\ eof = FALSE /\ pos = 0
  /\ prefix = <<>> /\ body = <<>> /\ capacity = 0 /\ deadline = 0
  /\ call = "none" /\ until = 0
  /\ frames = <<>> /\ started = 0
  /\ result = "running"

-----------------------------------------------------------------------------
\* The environment: the peer sends or closes, and time passes.
PeerSends ==
  /\ ~ eof
  /\ sent' \in (sent + 1)..Total
  /\ UNCHANGED <<initial, clock, eof, pos, readerVars, call, until, frames, result>>

PeerCloses ==
  /\ ~ eof
  /\ eof' = TRUE
  /\ UNCHANGED <<initial, clock, sent, pos, readerVars, call, until, frames, result>>

Tick ==
  /\ clock < MaxTime \/ clock < deadline
  /\ clock' = clock + 1
  /\ UNCHANGED <<initial, sent, eof, pos, readerVars, call, until, frames, result>>

-----------------------------------------------------------------------------
\* The loop calls read_frame.
Call ==
  /\ result = "running" /\ call = "none"
  /\ call' = "ready"
  /\ UNCHANGED <<initial, clock, sent, eof, pos, readerVars, until, frames, result>>

\* Variant that loses a part of a prefix with the call.
CancelLoses ==
  /\ call = "parked"
  /\ call' = "none"
  /\ until' = 0
  /\ prefix' = IF body = <<>> THEN <<>> ELSE prefix
  /\ UNCHANGED <<initial, clock, sent, eof, pos, body, capacity, deadline, started, frames, result>>

\* Another branch of the select! is ready: the call is dropped where it waits.
Cancel ==
  /\ call = "parked"
  /\ call' = "none"
  /\ until' = 0
  /\ UNCHANGED <<initial, clock, sent, eof, pos, readerVars, frames, result>>

\* Variant that knows only the deadline of the connection.
InitialOnly(a, b) == b

\* earlier: the first of two deadlines that exist.
Earlier(a, b) == IF a = 0 THEN b ELSE IF b = 0 THEN a ELSE IF a < b THEN a ELSE b

Fails ==
  /\ result' = "error"
  /\ call' = "none"
  /\ until' = 0

\* read_until: a deadline that is over is an error before the stream is asked.
Park ==
  /\ call = "ready"
  /\ IF Earlier(deadline, initial) # 0 /\ clock >= Earlier(deadline, initial)
     THEN Fails
     ELSE call' = "parked" /\ until' = Earlier(deadline, initial) /\ UNCHANGED result
  /\ UNCHANGED <<initial, clock, sent, eof, pos, readerVars, frames>>

\* The parked read runs into its deadline with nothing to read.
Expire ==
  /\ call = "parked" /\ until # 0 /\ clock >= until
  /\ pos = sent /\ ~ eof
  /\ Fails
  /\ UNCHANGED <<initial, clock, sent, eof, pos, readerVars, frames>>

\* The stream ends: between two frames it is closed, inside of one it is an error.
ReadEof ==
  /\ call = "parked" /\ eof /\ pos = sent
  /\ IF prefix = <<>>
     THEN result' = "closed" /\ call' = "none" /\ until' = 0
     ELSE Fails
  /\ UNCHANGED <<initial, clock, sent, eof, pos, readerVars, frames>>

\* The advertised length, read from a complete prefix.
Advertised(p) == Lengths[p[1][1]]

\* Variant that starts the deadline anew with every byte.
DeadlineMoves == clock + Timeout

\* get_or_insert_with: the first byte of a frame sets its deadline.
DeadlineSet == IF deadline = 0 THEN clock + Timeout ELSE deadline

Refused(p) == Advertised(p) < MinFrame \/ Advertised(p) > MaxFrame

\* Some bytes of the prefix arrive.  With the last one the length is checked before
\* the body is allocated.
ReadPrefix ==
  /\ call = "parked" /\ pos < sent /\ Len(prefix) < Prefix
  /\ \E n \in 1..(Prefix - Len(prefix)) :
       LET p == prefix \o Stream(pos, n)
       IN  /\ n <= sent - pos
           /\ pos' = pos + n
           /\ prefix' = p
           /\ deadline' = DeadlineSet
           /\ started' = IF prefix = <<>> THEN clock ELSE started
           /\ IF Len(p) < Prefix
              THEN call' = "ready" /\ until' = 0 /\ UNCHANGED <<body, capacity, result>>
              ELSE IF Refused(p)
              THEN Fails /\ UNCHANGED <<body, capacity>>
              ELSE /\ call' = "ready" /\ until' = 0
                   /\ body' = p /\ capacity' = Advertised(p)
                   /\ UNCHANGED result
  /\ UNCHANGED <<initial, clock, sent, eof, frames>>

\* Some bytes of the body arrive.  With the last one the frame is returned, and the
\* reader is as new.
ReadBody ==
  /\ call = "parked" /\ pos < sent /\ Len(prefix) = Prefix
  /\ \E n \in 1..(capacity - Len(body)) :
       LET b == body \o Stream(pos, n)
       IN  /\ n <= sent - pos
           /\ pos' = pos + n
           /\ until' = 0
           /\ IF Len(b) < capacity
              THEN /\ call' = "ready" /\ body' = b
                   /\ UNCHANGED <<prefix, capacity, deadline, started, frames>>
              ELSE /\ call' = "none"
                   /\ frames' = Append(frames, b)
                   /\ prefix' = <<>> /\ body' = <<>> /\ capacity' = 0
                   /\ deadline' = 0 /\ started' = 0
  /\ UNCHANGED <<initial, clock, sent, eof, result>>

Read == Park \/ Expire \/ ReadEof \/ ReadPrefix \/ ReadBody

Next == PeerSends \/ PeerCloses \/ Tick \/ Call \/ Cancel \/ Read

\* The loop comes back to the reader, a read goes on, and time passes.  Cancellations
\* may come again and again.
Fairness == WF_vars(Tick) /\ WF_vars(Call) /\ SF_vars(Read)

Spec == Init /\ [][Next]_vars

FairSpec == Spec /\ Fairness

-----------------------------------------------------------------------------
\* The reader has its types; it holds a part of a prefix or of an allocated body.
TypeOK ==
  /\ clock \in 0..(MaxTime + Len(Lengths) * Timeout)
  /\ pos \in 0..sent /\ sent \in 0..Total
  /\ Len(prefix) <= Prefix /\ (body # <<>> => Len(prefix) = Prefix)
  /\ capacity \in 0..MaxFrame
  /\ body # <<>> => Len(body) < capacity
  /\ call \in {"none", "ready", "parked"}
  /\ result \in {"running", "closed", "error"}

\* The frames are returned as they were sent, in their order and in full, and the
\* reader holds just what came after them: no cancellation loses or repeats a byte.
FramesAreIntact ==
  /\ \A i \in 1..Len(frames) : frames[i] = FrameBytes(i)
  /\ LET held == IF body = <<>> THEN prefix ELSE body
     IN  held = Stream(Ends[Len(frames)], pos - Ends[Len(frames)])

\* A frame keeps the deadline it got with its first byte, and without a part of a frame
\* there is none: cancelling a read does not give a slow peer more time.
OriginalDeadline == deadline = IF prefix = <<>> THEN 0 ELSE started + Timeout

\* A started frame ends: it is returned, or the connection does not go on.
StartedFrameEnds == (prefix # <<>>) ~> (prefix = <<>> \/ result # "running")

\* The reader is exact under any fragmentation and cancellation: no byte is lost or
\* repeated, no body larger than the limit is allocated, and a started frame keeps its
\* deadline (read_frame of InboundFrameReader).
ReaderIsExact == TypeOK /\ FramesAreIntact /\ OriginalDeadline
=============================================================================
