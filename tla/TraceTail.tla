------------------------------- MODULE TraceTail -------------------------------
(***************************************************************************)
(* The lifecycle trace of the service (trace.rs, TraceLog) and the console *)
(* that tails it over HTTP (camera-sim-tui, App::apply_trace and           *)
(* refresh_health).  The trace keeps the newest MaxEvents events and hands *)
(* out those after a cursor; the console remembers the cursor and the      *)
(* instance it belongs to.  The service may be restarted at any time, with *)
(* an empty trace, in particular between two requests of one refresh; its  *)
(* instance identifier is configured, and may be the earlier one's.        *)
(*                                                                         *)
(* An event is its sequence number: endpoints, texts and the counts of     *)
(* truncated texts are left out.                                           *)
(***************************************************************************)
EXTENDS Integers, Sequences

CONSTANTS MaxEvents,    \* events the trace retains (512 in the code)
          MaxRecorded,  \* bound: events recorded in one life of the service
          Lives,        \* bound: lives of the service, restarts included
          InstanceId(_),\* the identifier configured for a life
          None          \* no identifier

ASSUME TailAssumption ==
  /\ MaxEvents \in Nat \ {0}
  /\ MaxRecorded \in Nat
  /\ Lives \in Nat \ {0}
  /\ \A l \in 1 .. Lives : InstanceId(l) # None

VARIABLES life,     \* the current life of the service
          trace,    \* TraceState: next_sequence and the retained events
          console,  \* App: trace_cursor, trace_instance_id, health, and the step of its refresh
          shown,    \* history: the <<life, sequence>> the console logged, in order
          missed,   \* history: those evicted before the reply that passed them
          ahead,    \* history: lives the console met in a trace before a health reply
          carried   \* history: the cursor of an earlier life that the console asks this one with

tailVars == <<life, trace, console, shown, missed, ahead, carried>>

Ids == {InstanceId(l) : l \in 1 .. Lives}

Steps == {"idle", "trace", "again"}

NewTrace == [next |-> 1, events |-> <<>>]

Retained == {trace.events[i] : i \in DOMAIN trace.events}

TailTypeOK ==
  /\ life \in 1 .. Lives
  /\ trace \in [next : 1 .. MaxRecorded + 1, events : Seq(1 .. MaxRecorded)]
  /\ Len(trace.events) <= MaxEvents
  /\ console \in [cursor : 0 .. MaxRecorded, id : Ids \cup {None},
                  health : Ids \cup {None}, step : Steps]
  /\ shown \in Seq((1 .. Lives) \X (1 .. MaxRecorded))
  /\ missed \subseteq (1 .. Lives) \X (1 .. MaxRecorded)
  /\ ahead \subseteq 1 .. Lives
  /\ carried \in 0 .. MaxRecorded

TailInit ==
  /\ life = 1
  /\ trace = NewTrace
  /\ console = [cursor |-> 0, id |-> None, health |-> None, step |-> "idle"]
  /\ shown = <<>>
  /\ missed = {}
  /\ ahead = {}
  /\ carried = 0

--------------------------------------------------------------------------------
(* The service. *)

\* The newest MaxEvents events survive a push.
Bounded(events) ==
  SubSeq(events, IF Len(events) > MaxEvents THEN Len(events) - MaxEvents + 1 ELSE 1, Len(events))

\* Any of the four record functions.
Record ==
  /\ trace.next <= MaxRecorded
  /\ trace' = [next |-> trace.next + 1, events |-> Bounded(Append(trace.events, trace.next))]
  /\ UNCHANGED <<life, console, shown, missed, ahead, carried>>

\* The events after a cursor, in their order.
Later(events, after) ==
  LET kept[i \in 0 .. Len(events)] ==
        IF i = 0 THEN <<>>
        ELSE IF events[i] > after THEN Append(kept[i - 1], events[i]) ELSE kept[i - 1]
  IN  kept[Len(events)]

\* The reply to GET /trace?after=n: the retained events after n and the cursor
\* to ask with next.
Reply(after) ==
  [id |-> InstanceId(life), cursor |-> trace.next - 1,
   events |-> Later(trace.events, after)]

Restart ==
  /\ life < Lives
  /\ life' = life + 1
  /\ trace' = NewTrace
  /\ carried' = IF console.id = InstanceId(life + 1) THEN console.cursor ELSE 0
  /\ UNCHANGED <<console, shown, missed, ahead>>

--------------------------------------------------------------------------------
(* The console: refresh_health asks for the health, then refresh_trace asks *)
(* for the trace, and once more from the start when the instance changed.   *)

\* set_health; the reply names the instance it came from.
Health ==
  /\ console.step = "idle"
  /\ LET id == InstanceId(life)
         changed == console.health # None /\ console.health # id
     IN console' = [cursor |-> IF changed THEN 0 ELSE console.cursor,
                    id     |-> IF changed THEN None ELSE console.id,
                    health |-> id,
                    step   |-> "trace"]
  /\ UNCHANGED <<life, trace, shown, missed, ahead, carried>>

\* The health request fails and the trace is asked for all the same.
HealthFails ==
  /\ console.step = "idle"
  /\ console' = [console EXCEPT !.step = "trace"]
  /\ UNCHANGED <<life, trace, shown, missed, ahead, carried>>

\* apply_trace: a reply of another instance only resets the cursor.
ApplyTraceAnyInstance(reply, after, retry) ==
  /\ console' = [cursor |-> reply.cursor, id |-> reply.id, health |-> console.health, step |-> "idle"]
  /\ shown' = shown \o [i \in DOMAIN reply.events |-> <<life, reply.events[i]>>]
  /\ missed' = missed \cup {<<life, s>> : s \in (after + 1 .. reply.cursor) \ Retained}
  /\ ahead' = IF console.health \notin {None, reply.id} THEN ahead \cup {life} ELSE ahead

ApplyTrace(reply, after, retry) ==
  IF console.id # None /\ console.id # reply.id
    THEN /\ console' = [cursor |-> 0, id |-> reply.id, health |-> console.health,
                        step |-> IF retry THEN "again" ELSE "idle"]
         /\ UNCHANGED <<shown, missed, ahead>>
    ELSE /\ console' = [cursor |-> reply.cursor, id |-> reply.id, health |-> console.health, step |-> "idle"]
         /\ shown' = shown \o [i \in DOMAIN reply.events |-> <<life, reply.events[i]>>]
         /\ missed' = missed \cup {<<life, s>> : s \in (after + 1 .. reply.cursor) \ Retained}
         /\ ahead' = IF console.health \notin {None, reply.id} THEN ahead \cup {life} ELSE ahead

Trace ==
  /\ console.step = "trace"
  /\ ApplyTrace(Reply(console.cursor), console.cursor, TRUE)
  /\ carried' = IF carried < trace.next THEN carried ELSE trace.next - 1
  /\ UNCHANGED <<life, trace>>

TraceAgain ==
  /\ console.step = "again"
  /\ ApplyTrace(Reply(0), 0, FALSE)
  /\ UNCHANGED <<life, trace, carried>>

TraceFails ==
  /\ console.step \in {"trace", "again"}
  /\ console' = [console EXCEPT !.step = "idle"]
  /\ UNCHANGED <<life, trace, shown, missed, ahead, carried>>

TailNext ==
  \/ Record
  \/ Restart
  \/ Health
  \/ HealthFails
  \/ Trace
  \/ TraceAgain
  \/ TraceFails

TailSpec == TailInit /\ [][TailNext]_tailVars

--------------------------------------------------------------------------------
\* The cursor of the console never passes an event it has not logged, unless
\* the trace had evicted that event before the reply: restarts in the middle
\* of a refresh, failed requests and evictions included (App::apply_trace).  Only a
\* service restarted under the same identifier is asked with the cursor of the earlier
\* life, and then the events up to it that were there at the first reply are skipped.
CursorPassesNothing ==
  console.id = InstanceId(life) =>
    \A s \in 1 .. console.cursor :
      \/ <<life, s>> \in missed
      \/ s <= carried
      \/ \E i \in DOMAIN shown : shown[i] = <<life, s>>

\* The console logs an event at most twice, and twice only when it met the
\* instance in a trace reply while its last health reply named an earlier one:
\* the next health reply then resets the cursor once more (App::set_health).
RepeatsAreExplained ==
  \A i, j \in DOMAIN shown : i < j /\ shown[i] = shown[j] =>
    /\ shown[i][1] \in ahead
    /\ \A k \in DOMAIN shown : k > j => shown[k] # shown[i]

\* The cursor and the repetitions together.
LogIsExact == CursorPassesNothing /\ RepeatsAreExplained

\* The log of the console is exact: it skips nothing that the trace still had, and it
\* repeats an event only around a restart, once.
TailIsExact == TailTypeOK /\ LogIsExact
================================================================================
