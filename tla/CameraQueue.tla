----------------------------- MODULE CameraQueue -----------------------------
(***************************************************************************)
(* The camera-initiated object queue: CameraInitiatedQueue and the         *)
(* operations on it in crates/camera-sim/src/engine.rs, with the command   *)
(* tasks of services/camera-sim-service/src/lib.rs that write the replies. *)
(* A data read makes a reply under the engine lock; the task writes it     *)
(* with the lock released, and only then takes the lock again to           *)
(* acknowledge the range.  Other connections, session changes and control  *)
(* requests run in between.                                                *)
(***************************************************************************)
EXTENDS Naturals, Sequences, FiniteSets

CONSTANTS
  Conns,      \* command connections
  Sizes,      \* object sizes in queue order; an object's handle is its index
  Faults,     \* fault mutations that may be applied to a data read
  Written,    \* values that others than the queue give the count property
  MaxLen      \* bound: the longest range a client asks for

ASSUME TransferAssumption ==
  /\ Sizes \in Seq(Nat)
  /\ Faults \subseteq {"truncateData", "closeData", "closeResponse", "suppressData",
                       "suppressResponse", "other"}
  /\ Written \subseteq Nat
  /\ MaxLen \in Nat

VARIABLES
  session,       \* session_open
  stage,      \* Phase
  active,     \* camera_initiated_transfer_active
  probe,      \* camera_initiated_pre_mode_probe_armed
  lastCount,  \* history: the last operation accepted in a session read the count
  head,       \* CameraInitiatedQueue.head, counted from 1
  generation,
  delivered,  \* the delivered ranges [start, end) of the head
  count,      \* the value of the count property
  overwritten, \* history: it was written by another than the queue since the queue did
  reply,      \* the data reply each command task is writing, if any
  sent        \* history: the bytes of each object written with the final OK

sessionVars == <<session, stage, active, probe, lastCount>>
queueVars == <<head, generation, delivered>>
countVars == <<count, overwritten>>
transferVars == <<sessionVars, queueVars, countVars, reply, sent>>

Handles == 1..Len(Sizes)

Remaining(h) == Len(Sizes) + 1 - h

NoReply == [stage |-> "none"]

TransferInit ==
  /\ session = FALSE
  /\ stage = "Closed"
  /\ active \in BOOLEAN
  /\ probe = FALSE
  /\ lastCount = FALSE
  /\ head = 1
  /\ generation = 0
  /\ delivered = <<>>
  /\ count = Remaining(1)
  /\ overwritten = FALSE
  /\ reply = [c \in Conns |-> NoReply]
  /\ sent = [h \in Handles |-> {}]

-----------------------------------------------------------------------------
\* Ranges.

Smaller(a, b) == IF a < b THEN a ELSE b

Larger(a, b) == IF a < b THEN b ELSE a

Before(r, s) == r[1] < s[1] \/ (r[1] = s[1] /\ r[2] <= s[2])

\* sort_unstable: the ranges in order; equal ones cannot be told apart.
Sorted(ranges) ==
  LET n == Len(ranges)
      order == CHOOSE p \in [1..n -> 1..n] :
                 /\ \A j \in 1..n : \E i \in 1..n : p[i] = j
                 /\ \A i, j \in 1..n : i < j => Before(ranges[p[i]], ranges[p[j]])
  IN  [i \in 1..n |-> ranges[order[i]]]

\* One turn of the merge loop of acknowledge.
Extend(merged, r) ==
  LET k == Len(merged)
  IN  IF k > 0 /\ r[1] <= merged[k][2]
      THEN [merged EXCEPT ![k] = <<@[1], Larger(@[2], r[2])>>]
      ELSE Append(merged, r)

Merge(ranges) ==
  LET merged[i \in 0..Len(ranges)] ==
        IF i = 0 THEN <<>> ELSE Extend(merged[i - 1], Sorted(ranges)[i])
  IN  merged[Len(ranges)]

\* The ranges after a delivery of len bytes at offset.
Acknowledged(offset, len, size) ==
  LET end == Smaller(offset + len, size)
  IN IF end > offset THEN Merge(Append(delivered, <<offset, end>>)) ELSE delivered

Covers(ranges, size) ==
  size = 0 \/ (ranges # <<>> /\ ranges[1][1] = 0 /\ ranges[1][2] >= size)

-----------------------------------------------------------------------------
\* Session and mode.  The engine and its queue outlive every session.

OpenTransferSession ==
  /\ ~ session
  /\ session' = TRUE
  /\ stage' = "SessionOpen"
  /\ probe' = FALSE
  /\ lastCount' = FALSE
  /\ UNCHANGED <<active, queueVars, countVars, reply, sent>>

\* CloseSession, and the end of the owning command connection.
ClearTransferSession ==
  /\ session' = FALSE
  /\ stage' = "Closed"
  /\ probe' = FALSE
  /\ lastCount' = FALSE
  /\ UNCHANGED <<active, queueVars, countVars, reply, sent>>

\* A value for the count property from outside the queue: nothing compares it with
\* the objects that are left.
Overwrite ==
  /\ count' \in Written
  /\ overwritten' = TRUE

\* PATCH /state: the overlay's phase, session flag, transfer flag and properties, each
\* of them optional.  It is no operation, and leaves an armed probe alone unless the
\* transfer ends up inactive.  A responder action's transition of the count property
\* is the case that changes nothing else.
Patch ==
  /\ stage' \in {stage, "Closed", "SessionOpen", "QueuedReceive"}
  /\ session' \in BOOLEAN
  /\ active' \in BOOLEAN
  /\ probe' = (probe /\ active')
  /\ Overwrite \/ UNCHANGED countVars
  /\ UNCHANGED <<lastCount, queueVars, reply, sent>>

\* Variant that arms the probe without disarming it again.
PrepareKeeps == UNCHANGED probe

\* prepare_camera_initiated_pre_mode_probe, for an operation other than the
\* metadata read.
Prepare == probe' = FALSE

\* A property write selects, or leaves, the receiving mode; it may be one of the count,
\* if the manifest declares it writable or the target of an effect.
SelectMode ==
  /\ session
  /\ Prepare
  /\ lastCount' = FALSE
  /\ stage' \in {"SessionOpen", "QueuedReceive"}
  /\ Overwrite \/ UNCHANGED countVars
  /\ UNCHANGED <<session, active, queueVars, reply, sent>>

\* A read of the count property; before mode entry it allows one metadata probe.
ReadCount ==
  /\ probe' = (session /\ active /\ stage = "SessionOpen")
  /\ lastCount' = (session \/ lastCount)
  /\ UNCHANGED <<session, stage, active, queueVars, countVars, reply, sent>>

\* A metadata read, answered for the head or refused; refused for want of a
\* session it does not use up the probe.
ReadMetadata ==
  /\ probe' = (probe /\ active /\ stage = "SessionOpen" /\ ~ session)
  /\ lastCount' = (lastCount /\ ~ session)
  /\ UNCHANGED <<session, stage, active, queueVars, countVars, reply, sent>>

-----------------------------------------------------------------------------
\* Data reads.

\* camera_initiated_data_reply: the range that is read, and the token that will
\* acknowledge it.  A truncated reply loses its token.
Token(offset, len) ==
  [generation |-> generation, handle |-> head, offset |-> offset,
   len |-> Smaller(len, IF offset < Sizes[head] THEN Sizes[head] - offset ELSE 0)]

ServesData == active /\ stage = "QueuedReceive" /\ head \in Handles

ReadData(c, offset, len, fault) ==
  /\ session
  /\ reply[c] = NoReply
  /\ ServesData
  /\ Prepare
  /\ lastCount' = FALSE
  /\ reply' = [reply EXCEPT ![c] =
       [stage |-> "writing", fault |-> fault, token |-> Token(offset, len)]]
  /\ UNCHANGED <<session, stage, active, queueVars, countVars, sent>>

\* A data read that is answered with an error, for instance of a wrong index, or that is
\* one of an object outside the queue.
RefuseData ==
  /\ session
  /\ \E c \in Conns : reply[c] = NoReply
  /\ Prepare
  /\ lastCount' = FALSE
  /\ UNCHANGED <<session, stage, active, queueVars, countVars, reply, sent>>

\* Whether write_reply gives the token back once everything was written.
AcknowledgesReply(fault) == fault \in {"none", "other"}

RangeOf(t) == t.offset..(t.offset + t.len - 1)

\* write_reply runs to its end: data phase and response went out, as far as the
\* fault allows.
Write(c) ==
  /\ reply[c].stage = "writing"
  /\ IF AcknowledgesReply(reply[c].fault)
     THEN reply' = [reply EXCEPT ![c].stage = "written"]
     ELSE reply' = [reply EXCEPT ![c] = NoReply]
  /\ sent' = IF reply[c].fault \in {"none", "other"}
             THEN [sent EXCEPT ![reply[c].token.handle] = @ \cup RangeOf(reply[c].token)]
             ELSE sent
  /\ UNCHANGED <<sessionVars, queueVars, countVars>>

\* The write failed, the source ended early, the observation could not be
\* recorded, or the task was dropped: the token is lost.
Abandon(c) ==
  /\ reply[c] # NoReply
  /\ reply' = [reply EXCEPT ![c] = NoReply]
  /\ UNCHANGED <<sessionVars, queueVars, countVars, sent>>

\* Variant: a completion applied to whatever is at the head.
CompleteAnyHead(c) ==
  /\ reply[c].stage = "written"
  /\ reply' = [reply EXCEPT ![c] = NoReply]
  /\ LET t == reply[c].token IN
     IF head \in Handles
     THEN LET ranges == Acknowledged(t.offset, t.len, Sizes[t.handle]) IN
          IF Covers(ranges, Sizes[t.handle])
          THEN /\ head' = head + 1
               /\ generation' = generation + 1
               /\ delivered' = <<>>
               /\ count' = Remaining(head + 1) /\ overwritten' = FALSE
          ELSE delivered' = ranges /\ UNCHANGED <<head, generation, countVars>>
     ELSE UNCHANGED <<queueVars, countVars>>
  /\ UNCHANGED <<sessionVars, sent>>

\* Variant: the count is written back before the head moves.
CompleteCountsFirst(c) ==
  /\ reply[c].stage = "written"
  /\ reply' = [reply EXCEPT ![c] = NoReply]
  /\ LET t == reply[c].token IN
     IF generation = t.generation /\ head = t.handle
     THEN LET ranges == Acknowledged(t.offset, t.len, Sizes[t.handle]) IN
          IF Covers(ranges, Sizes[t.handle])
          THEN /\ head' = head + 1
               /\ generation' = generation + 1
               /\ delivered' = <<>>
               /\ count' = Remaining(head) /\ overwritten' = FALSE
          ELSE delivered' = ranges /\ UNCHANGED <<head, generation, countVars>>
     ELSE UNCHANGED <<queueVars, countVars>>
  /\ UNCHANGED <<sessionVars, sent>>

\* complete_stream: a token of an earlier head is ignored.
CompleteStream(c) ==
  /\ reply[c].stage = "written"
  /\ reply' = [reply EXCEPT ![c] = NoReply]
  /\ LET t == reply[c].token IN
     IF generation = t.generation /\ head = t.handle
     THEN LET ranges == Acknowledged(t.offset, t.len, Sizes[t.handle]) IN
          IF Covers(ranges, Sizes[t.handle])
          THEN /\ head' = head + 1
               /\ generation' = generation + 1
               /\ delivered' = <<>>
               /\ count' = Remaining(head + 1) /\ overwritten' = FALSE
          ELSE delivered' = ranges /\ UNCHANGED <<head, generation, countVars>>
     ELSE UNCHANGED <<queueVars, countVars>>
  /\ UNCHANGED <<sessionVars, sent>>

-----------------------------------------------------------------------------
Session ==
  \/ OpenTransferSession \/ ClearTransferSession \/ Patch \/ SelectMode
  \/ ReadCount \/ ReadMetadata \/ RefuseData

Task(c) ==
  \/ \E offset \in 0..MaxLen, len \in 0..MaxLen, fault \in Faults \cup {"none"} :
       ReadData(c, offset, len, fault)
  \/ Write(c) \/ Abandon(c) \/ CompleteStream(c)

TransferNext == Session \/ \E c \in Conns : Task(c)

TransferSpec == TransferInit /\ [][TransferNext]_transferVars

-----------------------------------------------------------------------------
\* Properties.

Tokens == [generation : 0..Len(Sizes), handle : Handles, offset : 0..MaxLen, len : 0..MaxLen]

\* Every variable stays in its domain.
TransferTypeOK ==
  /\ {session, active, probe, lastCount} \subseteq BOOLEAN
  /\ stage \in {"Closed", "SessionOpen", "QueuedReceive"}
  /\ head \in 1..(Len(Sizes) + 1)
  /\ generation \in 0..Len(Sizes)
  /\ count \in 0..Len(Sizes) \cup Written /\ overwritten \in BOOLEAN
  /\ \A i \in DOMAIN delivered : delivered[i][1] < delivered[i][2]
  /\ \A c \in Conns : reply[c] # NoReply =>
       /\ reply[c].stage \in {"writing", "written"}
       /\ reply[c].fault \in Faults \cup {"none"}
       /\ reply[c].token \in Tokens

Covered(ranges) == UNION {ranges[i][1]..(ranges[i][2] - 1) : i \in DOMAIN ranges}

Promise == INSTANCE Delivery WITH first <- head, got <- Covered(delivered)

\* The queue keeps the promise of Delivery: however replies, duplicates, failures
\* and late completions of several connections interleave, the delivered ranges
\* are exactly the acknowledged bytes of the present head, and the head leaves
\* the queue exactly when they are all of it.
KeepsPromise == Promise!Spec

\* The count property that clients poll tells how many objects are left, at every
\* instant another operation can read it, unless it was given another value; such a
\* value stays until the next object leaves the queue.
CountIsRemaining == overwritten \/ count = Remaining(head)

\* Before mode entry metadata is served only directly after a count read, also
\* when several connections, sessions and state patches mix.
ProbeFollowsCount == probe => active /\ lastCount

\* What the queue tells a client is true at every instant: the count it keeps is the
\* number of objects left, until an overlay or another write replaces it and again from
\* the next object that leaves (sync_camera_initiated_counts), and metadata is served
\* early only directly after a count was read.
CountIsHonest == TransferTypeOK /\ CountIsRemaining /\ ProbeFollowsCount
=============================================================================
