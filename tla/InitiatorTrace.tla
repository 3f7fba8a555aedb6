--------------------------- MODULE InitiatorTrace ---------------------------
(***************************************************************************)
(* The initiator's trace writer (tools/camera-initiator/src/trace.rs) on   *)
(* top of the append-only observation bundle (camera-config/recorder.rs).  *)
(*                                                                         *)
(* The writer assembles command-channel frames into transaction records    *)
(* and links event records to them; the recorder gives every record the    *)
(* next ordinal and appends one line to a file.  A write may fail before,  *)
(* inside or just after the text of a line (its newline is a write of its  *)
(* own), and the process may stop between any two of those writes; a later *)
(* process opens the bundle again.  Payload bytes are counted, not kept.   *)
(***************************************************************************)
EXTENDS Integers, Sequences, SequencesExt, FiniteSets

CONSTANTS Runs,         \* run ids a process may open the bundle with
          Lengths,      \* sizes of one data frame
          RangeBytes,   \* STREAM_RANGE_BYTES
          MaxInline,    \* MAX_INLINE_PAYLOAD_BYTES
          MaxRecorded,  \* how many linkable transactions an event leaves behind
          MaxRecords,   \* bound: lines of the bundle
          MaxTid,       \* bound: transactions of one session
          MaxFrames,    \* bound: data frames of one transaction
          MaxCrashes,   \* bound: restarts
          MaxFaults     \* bound: failed writes

TraceAssumption == /\ {RangeBytes, MaxInline, MaxRecords, MaxTid} \subseteq Nat \ {0}
                   /\ {MaxRecorded, MaxFrames, MaxCrashes, MaxFaults} \subseteq Nat
                   /\ Lengths \subseteq Nat

VARIABLES file,     \* the bundle: its lines, and whether the last one has its newline
          rec,      \* the recorder of the running process
          tr,       \* the trace writer's transaction assembler
          client,   \* the operation whose frames are being traced
          hist      \* history: session identities begun, faults so far

vars == <<file, rec, tr, client, hist>>  \* trace.rs:24-41

---------------------------------------------------------------------------
(* Payload metadata.                                                       *)

\* recorder.rs:45-58
NoPayload == [present |-> FALSE, length |-> 0, inline |-> FALSE, ranges |-> <<>>, part |-> 0]

NewPayload == [NoPayload EXCEPT !.present = TRUE, !.inline = TRUE]  \* recorder.rs:63-72

\* A range that starts at the frame's first byte instead of the range's own.
LateRange(b) ==
  [b EXCEPT !.ranges = Append(@, [offset |-> b.length, length |-> b.part]), !.part = 0]

\* finish_pending_range: the bytes since the last range become a range.
finish_pending_range(b) ==  \* recorder.rs:123-131
  [b EXCEPT !.ranges = Append(@, [offset |-> b.length - b.part, length |-> b.part]), !.part = 0]

RECURSIVE Absorb(_, _)
Absorb(b, n) ==  \* recorder.rs:86-99
  IF n = 0 THEN b
  ELSE LET take == IF RangeBytes - b.part <= n THEN RangeBytes - b.part ELSE n
           grown == [b EXCEPT !.part = @ + take, !.length = @ + take]
       IN  Absorb(IF grown.part = RangeBytes THEN finish_pending_range(grown) ELSE grown, n - take)

\* recorder.rs:74-85
update(b, n) == Absorb([b EXCEPT !.inline = @ /\ b.length + n <= MaxInline], n)

metadata(b) ==
  LET closed == IF b.part > 0 THEN finish_pending_range(b).ranges ELSE b.ranges
  IN  [present |-> b.present, length |-> b.length, inline |-> b.inline,
       ranges |-> IF b.inline THEN <<>> ELSE closed]

---------------------------------------------------------------------------
(* The bundle and its recorder.                                            *)

Line(kind, ord) ==  \* trace.rs:370-394
  [kind |-> kind, ord |-> ord, run |-> 0, instance |-> 0, session |-> 0, tid |-> 0,
   link |-> 0, outcome |-> "none"]

\* Text on one line that no longer parses as one record.
Garbled == Line("garbled", 0)  \* recorder.rs:320-328

\* Bytes appended to the file: they join the last line unless it has its newline.
Joined(f, line, ended) ==  \* recorder.rs:359-368
  [exists |-> TRUE, ended |-> ended,
   lines |-> IF f.ended THEN Append(f.lines, line) ELSE Front(f.lines) \o <<Garbled>>]

\* What one append can leave behind: nothing, part of the text, the text
\* without its newline, or the whole line.
append_line(f, line) ==  \* recorder.rs:359-368
  {[ok |-> TRUE, file |-> Joined(f, line, TRUE)]}
    \cup {[ok |-> FALSE, file |-> g] :
            g \in {f, Joined(f, Garbled, FALSE), Joined(f, line, FALSE)}}

load_existing(f, run) ==
  /\ f.lines # <<>>
  /\ f.lines[1].kind = "header"
  /\ f.lines[1].run = run
  /\ \A i \in 1..Len(f.lines) : f.lines[i].kind # "garbled" /\ f.lines[i].ord = i - 1

Header(run) == [Line("header", 0) EXCEPT !.run = run]  \* recorder.rs:303-314

NoFile == [exists |-> FALSE, ended |-> TRUE, lines |-> <<>>]  \* recorder.rs:348-357

Closed == [open |-> FALSE, run |-> 0, lines |-> <<>>, next |-> 0]  \* recorder.rs:31-42

Recorder(run, lines) ==  \* recorder.rs:149-164
  [open |-> TRUE, run |-> run, lines |-> lines, next |-> lines[Len(lines)].ord + 1]

FreshTrace == [pending |-> <<>>, recorded |-> <<>>, instance |-> 0, session |-> 0, failed |-> FALSE]

Idle == [stage |-> "idle", tid |-> 0, frames |-> 0]

\* The ordinal is consumed even when the line could not be written.
Skips(r, line, ok) ==
  IF ok THEN [r EXCEPT !.lines = Append(@, line), !.next = @ + 1]
        ELSE [r EXCEPT !.next = @ + 1]

\* append: the line enters memory, and the ordinal advances, only once the file has it.
Recorded(r, line, ok) ==  \* recorder.rs:236-243
  IF ok THEN [r EXCEPT !.lines = Append(@, line), !.next = @ + 1] ELSE r

\* One record: `Make' is given its ordinal, `Done' the new trace state when it is in the file.
Record(make, done, undone) ==
  /\ rec.open
  /\ Len(file.lines) < MaxRecords
  /\ \E w \in append_line(file, [make EXCEPT !.ord = rec.next]) :
       /\ w.ok \/ hist.faults < MaxFaults
       /\ file' = w.file
       /\ rec' = Recorded(rec, [make EXCEPT !.ord = rec.next], w.ok)
       /\ tr' = IF w.ok THEN done ELSE undone
       /\ hist' = [hist EXCEPT !.faults = IF w.ok THEN @ ELSE @ + 1,
                               !.wrote = @ /\ w.ok,
                               !.begun = IF w.ok /\ done.session # tr.session
                                         THEN Append(@, done.session) ELSE @]

\* ObservationRecorder::open on an existing bundle: every record is checked first.
OpenExisting(run) ==
  /\ ~rec.open
  /\ file.exists
  /\ load_existing(file, run)
  /\ rec' = Recorder(run, file.lines)
  /\ tr' = FreshTrace
  /\ client' = Idle
  /\ hist' = [hist EXCEPT !.wrote = file.ended]
  /\ UNCHANGED file

\* ObservationRecorder::open on a new path: the header is written and synced.
OpenNew(run) ==
  /\ ~rec.open
  /\ ~file.exists
  /\ \E w \in append_line(file, Header(run)) :
       /\ w.ok \/ hist.faults < MaxFaults
       /\ file' = [w.file EXCEPT !.exists = w.file.lines # <<>>]
       /\ rec' = IF w.ok THEN Recorder(run, w.file.lines) ELSE Closed
       /\ hist' = [hist EXCEPT !.faults = IF w.ok THEN @ ELSE @ + 1,
                               !.wrote = w.ok]
  /\ tr' = FreshTrace
  /\ client' = Idle

\* The process stops: everything but the file is gone.
Crash ==
  /\ rec.open
  /\ hist.crashes < MaxCrashes
  /\ \E f \in {w.file : w \in append_line(file, Line("action", rec.next))} :
       /\ Len(f.lines) <= MaxRecords
       /\ file' = f
  /\ rec' = Closed
  /\ tr' = FreshTrace
  /\ client' = Idle
  /\ hist' = [hist EXCEPT !.crashes = @ + 1]

---------------------------------------------------------------------------
(* Sessions and transactions.                                              *)

\* `sent_in' is history: the session the request was sent in.
Pending == [request |-> NoPayload, response |-> NoPayload,  \* trace.rs:54-60
            request_expected |-> -1, response_expected |-> -1, sent_in |-> tr.session]

Without(f, k) == [x \in DOMAIN f \ {k} |-> f[x]]

With(f, k, v) == [x \in DOMAIN f \cup {k} |-> IF x = k THEN v ELSE f[x]]

\* The transactions of the connection before stay linkable.
KeepsLinks(t, ord) == [t EXCEPT !.instance = ord, !.session = ord]

\* A fresh physical connection: the lifecycle record's ordinal is its identity.
Connected(t, ord) == [t EXCEPT !.instance = ord, !.session = ord, !.recorded = <<>>]

begin_ptp_session ==
  /\ tr.pending = <<>>
  /\ Record(Line("life", 0), Connected(tr, rec.next), tr)
  /\ client' = Idle

\* The refused replacement: transactions are still pending.
BeginRefused ==  \* trace.rs:110-114
  /\ rec.open
  /\ tr.pending # <<>>
  /\ client.stage \in {"idle", "failed"}
  /\ client' = [client EXCEPT !.stage = "failed"]
  /\ UNCHANGED <<file, rec, tr, hist>>

\* Session recovery restarts the transaction ids on the same connection.
retry_logical_ptp_session ==
  /\ tr.pending = <<>>
  /\ client.stage = "idle"
  /\ tr.session # 0
  /\ Record(Line("life", 0), [Connected(tr, rec.next) EXCEPT !.instance = tr.instance], tr)
  /\ client' = Idle

\* emit: one line of the trace output; its first failure fails every later call.
Emit == /\ rec.open  \* trace.rs:657-665
        /\ ~tr.failed

EmitFails ==
  /\ Emit
  /\ hist.faults < MaxFaults
  /\ tr' = [tr EXCEPT !.failed = TRUE]
  /\ hist' = [hist EXCEPT !.faults = @ + 1]
  /\ client' = [client EXCEPT !.stage = IF @ = "idle" THEN "idle" ELSE "failed"]
  /\ UNCHANGED <<file, rec>>

\* ptp_frame, tx OperationRequest: the next transaction of the session.
RequestFrame ==
  /\ Emit
  /\ client.stage = "idle"
  /\ tr.session # 0
  /\ client.tid < MaxTid
  /\ client.tid + 1 \notin DOMAIN tr.pending
  /\ tr' = [tr EXCEPT !.pending = With(@, client.tid + 1, Pending)]
  /\ client' = [stage |-> "sent", tid |-> client.tid + 1, frames |-> 0]
  /\ UNCHANGED <<file, rec, hist>>

Side(direction) == IF direction = "tx" THEN "request" ELSE "response"  \* trace.rs:689-703

Started(b) == IF b.present THEN b ELSE NewPayload  \* trace.rs:221

Expecting(p, side, n) ==  \* trace.rs:210-223
  IF side = "request" THEN [p EXCEPT !.request = Started(@), !.request_expected = n]
                      ELSE [p EXCEPT !.response = Started(@), !.response_expected = n]

Grown(p, side, n) ==  \* trace.rs:231-235
  IF side = "request" THEN [p EXCEPT !.request = update(Started(@), n)]
                      ELSE [p EXCEPT !.response = update(Started(@), n)]

\* ptp_frame, StartData / Data / EndData of the transaction in flight.
DataFrame(direction) ==
  /\ Emit
  /\ client.stage = "sent"
  /\ client.tid \in DOMAIN tr.pending
  /\ client.frames < MaxFrames
  /\ \E n \in Lengths : \E p \in {Expecting(tr.pending[client.tid], Side(direction), n),
                                  Grown(tr.pending[client.tid], Side(direction), n)} :
       tr' = [tr EXCEPT !.pending = With(@, client.tid, p)]
  /\ client' = [client EXCEPT !.frames = @ + 1]
  /\ UNCHANGED <<file, rec, hist>>

\* trace.rs:353-360
Mismatched(expected, meta) == expected # -1 /\ meta.present /\ expected # meta.length

Outcome(p, request, response, ok) ==  \* trace.rs:347-367
  IF Mismatched(p.request_expected, request) \/ Mismatched(p.response_expected, response)
  THEN "incomplete" ELSE IF ok THEN "ok" ELSE "nonOk"

Transaction(tid, outcome) ==  \* trace.rs:368-394
  [Line("tx", 0) EXCEPT !.tid = tid, !.instance = tr.instance, !.session = tr.session,
                        !.outcome = outcome]

\* The transaction leaves the pending map before its record is appended.
Taken(tid) == [tr EXCEPT !.pending = Without(@, tid)]  \* trace.rs:330-334

Linked(t, tid) == [t EXCEPT !.recorded = With(@, tid, rec.next)]  \* trace.rs:395-396

\* finish_ptp_transaction: the response frame, or a streamed body's own metadata.
finish_ptp_transaction(tid, ok, streamed) ==
  LET p == tr.pending[tid]
      request == metadata(p.request)
      response == IF streamed.present THEN metadata(streamed) ELSE metadata(p.response)
  IN  Record(Transaction(tid, Outcome(p, request, response, ok)),
             Linked(Taken(tid), tid), Taken(tid))

ResponseFrame ==
  /\ Emit
  /\ client.stage = "sent"
  /\ client.tid \in DOMAIN tr.pending
  /\ \E ok \in BOOLEAN : finish_ptp_transaction(client.tid, ok, NoPayload)
  /\ client' = [client EXCEPT !.stage = "idle", !.frames = 0]

complete_streaming_response ==
  /\ client.stage = "sent"
  /\ client.tid \in DOMAIN tr.pending
  /\ \E ok \in BOOLEAN, n \in Lengths :
       \E streamed \in {NoPayload, update(NewPayload, n)} :
         finish_ptp_transaction(client.tid, ok, streamed)
  /\ client' = [client EXCEPT !.stage = "idle", !.frames = 0]

\* The transport fails under the operation.
TransportFails ==
  /\ client.stage = "sent"
  /\ client' = [client EXCEPT !.stage = "failed"]
  /\ UNCHANGED <<file, rec, tr, hist>>

\* step: a Failed report without a response closes the transaction it names,
\* and records one of its own when none is pending.
fail_ptp_transaction ==
  /\ Emit
  /\ client.stage = "failed"
  /\ tr.session # 0
  /\ \E timeout \in BOOLEAN :
       Record(Transaction(client.tid, IF timeout THEN "timeout" ELSE "transportAbort"),
              Linked(Taken(client.tid), client.tid), Taken(client.tid))
  /\ client' = [client EXCEPT !.stage = "idle", !.frames = 0]

\* The report never comes (the run was cut, or its trace line failed).
ReportIsLost ==
  /\ client.stage = "failed"
  /\ client' = [client EXCEPT !.stage = "idle", !.frames = 0]
  /\ UNCHANGED <<file, rec, tr, hist>>

Lowest(f) == CHOOSE k \in DOMAIN f : \A j \in DOMAIN f : k <= j  \* trace.rs:312-313

Trimmed(t) == IF Cardinality(DOMAIN t.recorded) > MaxRecorded  \* trace.rs:311-315
              THEN [t EXCEPT !.recorded = Without(@, Lowest(@))] ELSE t

\* ptp_event: the camera names any transaction id it likes.
ptp_event(tid) ==
  /\ tr.session # 0
  /\ Record([Line("event", 0) EXCEPT !.tid = tid, !.instance = tr.instance, !.session = tr.session,
                                     !.link = IF tid \in DOMAIN tr.recorded THEN tr.recorded[tid] ELSE 0],
            Trimmed(tr), tr)
  /\ UNCHANGED client

\* session: a line of the trace output, then a lifecycle record for the states that have one.
LifecycleMarker ==
  /\ Emit
  /\ Record(Line("life", 0), tr, tr)
  /\ UNCHANGED client

---------------------------------------------------------------------------

Init ==  \* trace.rs:77-89
  /\ file = NoFile
  /\ rec = Closed
  /\ tr = FreshTrace
  /\ client = Idle
  /\ hist = [begun |-> <<>>, faults |-> 0, crashes |-> 0, wrote |-> TRUE]

Next ==
  \/ \E run \in Runs : OpenExisting(run) \/ OpenNew(run)
  \/ Crash
  \/ begin_ptp_session \/ BeginRefused \/ retry_logical_ptp_session
  \/ EmitFails
  \/ RequestFrame
  \/ \E direction \in {"tx", "rx"} : DataFrame(direction)
  \/ ResponseFrame \/ complete_streaming_response
  \/ TransportFails \/ fail_ptp_transaction \/ ReportIsLost
  \/ \E tid \in 1..MaxTid : ptp_event(tid)
  \/ LifecycleMarker

Spec == Init /\ [][Next]_vars

---------------------------------------------------------------------------

\* The bundle's lines carry known kinds, the recorder's memory is numbered
\* from zero without a gap, and pending transactions belong to the session.
TypeOK ==
  /\ \A i \in 1..Len(file.lines) :
       file.lines[i].kind \in {"header", "life", "tx", "event", "action", "garbled"}
  /\ rec.open => rec.next = Len(rec.lines)
  /\ \A i \in 1..Len(rec.lines) : rec.lines[i].ord = i - 1
  /\ DOMAIN tr.pending \subseteq 1..MaxTid
  /\ client.stage \in {"idle", "sent", "failed"}

Records == {rec.lines[i] : i \in 1..Len(rec.lines)}

\* A session identity is never begun twice, over reconnects, logical retries
\* and restarts ("reconnects and process restarts cannot reuse a correlation key").
SessionsAreFresh == IsInjective(hist.begun)

\* An event cites a transaction record of its own session and of the id the
\* camera named, the last one made before the event; a record of another
\* connection is never cited, whatever ids the camera repeats.
EventLinksAreExact ==
  \A e \in Records : e.kind = "event" /\ e.link # 0 =>
    \E t \in Records : /\ t.kind = "tx" /\ t.ord = e.link
                       /\ t.session = e.session /\ t.instance = e.instance /\ t.tid = e.tid
                       /\ \A u \in Records : u.kind = "tx" /\ u.session = e.session /\ u.tid = e.tid
                                             /\ u.ord < e.ord => u.ord <= t.ord

\* The record of a pending request will name the session it was sent in: the
\* session is never replaced under a pending transaction.
PendingIsOfSession == \A tid \in DOMAIN tr.pending : tr.pending[tid].sent_in = tr.session

Tiles(meta) ==
  /\ \A i \in 1..Len(meta.ranges) : meta.ranges[i].offset = (i - 1) * RangeBytes
  /\ meta.ranges # <<>>
  /\ LET r == meta.ranges[Len(meta.ranges)] IN r.offset + r.length = meta.length

\* The description a record would carry of the bytes seen so far is complete:
\* inline exactly when they fit, otherwise by ranges that tile them.
PayloadsAreDescribed ==
  \A tid \in DOMAIN tr.pending : \A b \in {tr.pending[tid].request, tr.pending[tid].response} :
    b.present => LET meta == metadata(b)
                 IN  /\ meta.inline = (meta.length <= MaxInline)
                     /\ meta.inline \/ Tiles(meta)

\* While no write has failed, the file is exactly what the recorder has acknowledged.
FileIsMemory == rec.open /\ hist.wrote => file.ended /\ file.lines = rec.lines

\* The trace and its bundle, together: links, payloads, identities and the file agree.
TraceIsTrue ==
  /\ SessionsAreFresh
  /\ EventLinksAreExact
  /\ PendingIsOfSession
  /\ PayloadsAreDescribed
  /\ FileIsMemory

\* "a partial or foreign bundle fails closed instead of being silently
\* replaced" (recorder.rs): once open has accepted a bundle and every append
\* since has succeeded, the bundle can be opened again.
AcceptedBundleStaysReadable ==
  rec.open /\ hist.faults = 0 => load_existing(file, rec.run)

=============================================================================
