---------------------------- MODULE CaptureQueue ----------------------------
(***************************************************************************)
(* The standard object queue of the engine: objects become available one   *)
(* after the other, by seeding, by the shutter ritual of the manifest or   *)
(* by a responder action, and leave it when a client deletes them.  With   *)
(* ObjectAdded in the event catalog each new object is announced.          *)
(*                                                                         *)
(* Handles are their positions in the catalog.  As in SequenceGates a      *)
(* matcher is the set of requests it accepts, and a refused request        *)
(* changes nothing here, except that a busy answer uses up its budget.     *)
(***************************************************************************)
EXTENDS Integers, Sequences, FiniteSets

CONSTANTS
  Total,       \* the number of handles that can be transferred
  Seeds,       \* how many of them may be available at the start
  Busies,      \* how many busy answers may be configured
  PerShutter,  \* objects for each completed shutter ritual
  MaxAction,   \* objects a responder action adds at most
  CaptureRequests,
  Shutter,     \* the shutter ritual: a sequence of matchers
  Captures,    \* the requests that initiate a capture
  Announces    \* whether the event catalog has ObjectAdded

ASSUME CaptureAssumption ==
  /\ Total \in Nat /\ PerShutter \in Nat /\ MaxAction \in Nat
  /\ Seeds \subseteq 0..Total
  /\ Busies \subseteq Nat
  /\ Shutter \in Seq(SUBSET CaptureRequests) /\ Len(Shutter) > 0
  /\ Captures \subseteq CaptureRequests
  /\ Announces \in BOOLEAN

\* A ritual that does not overlap itself: a request that breaks it leaves no more than
\* its first step begun.  advance_transfer_queue looks back no further.
RitualAssumption ==
  \A p \in 2..(Len(Shutter) - 1) : \A k \in 2..p :
    \/ Shutter[k] \subseteq Shutter[p + 1]
    \/ \E s \in 1..(k - 1) : Shutter[p - k + 1 + s] \cap Shutter[s] = {}

VARIABLES
  driven,      \* whether the queue has a shutter sequence
  available,
  next_index,
  completed,
  shutter_progress,    \* shutter_progress
  busy,        \* shutter_busy_responses_remaining
  emitted,     \* history: the handles of the ObjectAdded events, in order
  seeded,      \* history: the handles that were there at the start
  accepted          \* history: the requests that succeeded since the last capture

captureVars == <<driven, available, next_index, completed, shutter_progress, busy, emitted, seeded, accepted>>

\* configure_standard_object_queue and the two preseeds, before any client comes.
CaptureInit ==
  /\ \/ driven = FALSE /\ next_index = Total /\ busy = 0
     \/ driven = TRUE /\ next_index \in Seeds /\ busy \in Busies
  /\ available = 1..next_index
  /\ seeded = next_index
  /\ completed = 0
  /\ shutter_progress = 0
  /\ emitted = <<>>
  /\ accepted = <<>>

-----------------------------------------------------------------------------
\* The handles that enqueue_count makes available.
Enqueue(n) ==
  (next_index + 1)..(IF next_index + n <= Total THEN next_index + n ELSE Total)

\* Variant that announces as many objects as were asked for.
AddedAsAsked(n) ==
  /\ available' = available \cup Enqueue(n)
  /\ next_index' = next_index + Cardinality(Enqueue(n))
  /\ emitted' = IF Announces /\ next_index' >= n
                THEN emitted \o [i \in 1..n |-> next_index' - n + i]
                ELSE emitted

\* enqueue_count, with the announcements of its callers.
Added(n) ==
  /\ available' = available \cup Enqueue(n)
  /\ next_index' = next_index + Cardinality(Enqueue(n))
  /\ emitted' = IF Announces
                THEN emitted \o [i \in 1..(next_index' - next_index) |-> next_index + i]
                ELSE emitted

\* advance_transfer_queue: how far the ritual is after r.
Advance(r) ==
  IF r \in Shutter[shutter_progress + 1] THEN shutter_progress + 1
  ELSE IF r \in Shutter[1] THEN 1 ELSE 0

\* The history keeps as many requests as the ritual has.
Remember(r) ==
  LET l == Append(accepted, r)
  IN  IF Len(l) <= Len(Shutter) THEN l ELSE Tail(l)

\* Variant that keeps the progress after the last step.
SucceedCaptureKeeps(r) ==
  IF driven /\ Advance(r) >= Len(Shutter)
  THEN /\ shutter_progress' = Len(Shutter) - 1
       /\ accepted' = <<>>
       /\ Added(PerShutter)
  ELSE /\ shutter_progress' = IF driven THEN Advance(r) ELSE shutter_progress
       /\ accepted' = IF driven THEN Remember(r) ELSE accepted
       /\ UNCHANGED <<available, next_index, emitted>>

\* What a successful request does to the queue after its handler.
SucceedCapture(r) ==
  IF driven /\ Advance(r) >= Len(Shutter)
  THEN /\ shutter_progress' = 0
       /\ accepted' = <<>>
       /\ Added(PerShutter)
  ELSE /\ shutter_progress' = IF driven THEN Advance(r) ELSE shutter_progress
       /\ accepted' = IF driven THEN Remember(r) ELSE accepted
       /\ UNCHANGED <<available, next_index, emitted>>

\* shutter_busy_reply: a capture of this ritual is in flight, and there are busy
\* answers left.
IsBusy(r) ==
  /\ driven /\ r \in Captures /\ busy > 0
  /\ \E s \in 1..shutter_progress : Shutter[s] \cap Captures # {}

Request(r) ==
  /\ ~ IsBusy(r)
  /\ SucceedCapture(r)
  /\ UNCHANGED <<driven, completed, busy, seeded>>

BusyReply(r) ==
  /\ IsBusy(r)
  /\ busy' = busy - 1
  /\ UNCHANGED <<driven, available, next_index, completed, shutter_progress, emitted, seeded, accepted>>

\* DeleteObject drains the queue.  It is no step of a ritual, so it breaks one.
DeleteObject(h) ==
  /\ h \in available
  /\ available' = available \ {h}
  /\ completed' = completed + 1
  /\ shutter_progress' = 0
  /\ accepted' = <<>>
  /\ UNCHANGED <<driven, next_index, busy, emitted, seeded>>

\* apply_responder_mutation: the enqueueObjects action of the control service.
ResponderAction(n) ==
  /\ Added(n)
  /\ UNCHANGED <<driven, completed, shutter_progress, busy, seeded, accepted>>

CaptureNext ==
  \/ \E r \in CaptureRequests : Request(r) \/ BusyReply(r)
  \/ \E h \in 1..Total : DeleteObject(h)
  \/ \E n \in 1..MaxAction : ResponderAction(n)

CaptureSpec == CaptureInit /\ [][CaptureNext]_captureVars

-----------------------------------------------------------------------------
\* The queue has its types, and the ritual never waits behind its last step.
CaptureTypeOK ==
  /\ driven \in BOOLEAN
  /\ available \subseteq 1..Total
  /\ next_index \in 0..Total
  /\ completed \in 0..Total
  /\ shutter_progress \in 0..(Len(Shutter) - 1)
  /\ busy \in Nat
  /\ emitted \in Seq(1..Total)
  /\ seeded \in 0..Total
  /\ accepted \in Seq(CaptureRequests)

\* The queue statistics add up: everything that was ever made available is queued
\* or completed, once.
StatsAddUp ==
  /\ available \subseteq 1..next_index
  /\ Cardinality(available) + completed = next_index

\* Every object that came after the seeds was announced, exactly once and in the
\* order of the catalog, whoever added it.
AnnouncedInOrder ==
  Announces => emitted = [i \in 1..(next_index - seeded) |-> seeded + i]

\* The last k requests are the first k steps of the ritual.
RunsBack(k) ==
  /\ k <= Len(accepted)
  /\ \A s \in 1..k : accepted[Len(accepted) - k + s] \in Shutter[s]

\* The ritual is never credited for a request that did not happen: an object of the
\* shutter needs all of the steps, one after the other.
ShutterIsEarned == driven => RunsBack(shutter_progress)

\* No capture is missed: the last requests are never a complete ritual that added
\* no object.  Busy answers and retries in between do not matter.
CaptureIsNotMissed == driven => ~ RunsBack(Len(Shutter))

\* Every object is accounted for once: announced in the order of the catalog, and
\* queued or completed, whichever of the shutter, an action and deletions came first.
QueueIsExact == CaptureTypeOK /\ StatsAddUp /\ AnnouncedInOrder

\* The shutter ritual adds objects exactly when its steps came one after the other.
ShutterIsExact == ShutterIsEarned /\ CaptureIsNotMissed

\* Captured objects are added only by a complete shutter ritual or an action, and each
\* is announced and counted once (enqueue_standard_objects, advance_transfer_queue).
CapturesAreExact == QueueIsExact /\ ShutterIsExact
=============================================================================
