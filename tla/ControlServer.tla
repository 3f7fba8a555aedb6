----------------------------- MODULE ControlServer ----------------------------
(***************************************************************************)
(* The control HTTP surface: services/camera-sim-service/src/control.rs,   *)
(* the accept loop and the end of Server::run in lib.rs.                   *)
(*                                                                         *)
(* A request's text is abstracted to the sizes and header kinds the parser *)
(* tells apart.  The engine's lock is never held across an await, so each  *)
(* use of it is one step; declared_aux_sync is held across one and is a    *)
(* variable.  What the engine does is abstracted to a version, the actions *)
(* applied to it and whether its auxiliary channel is ready.  Its owed and *)
(* unsaid changes, and the end of a session, are history.                  *)
(***************************************************************************)
EXTENDS Integers, Sequences, FiniteSets, SequencesExt

CONSTANTS Clients,      \* control connections
          Asks,         \* what the clients may send: texts (sizes, headers) and routes; what
                        \* the command connections may do: "operate", "end"
          MaxHeader,    \* MAX_HEADER_BYTES
          MaxRequest,   \* MAX_REQUEST_BYTES
          Chunk,        \* bytes asked of one read
          Permits,      \* CONTROL_CONNECTIONS
          MaxVersion    \* bound on changes of the engine

ControlAssumption ==
  /\ MaxHeader \in Nat \ {0} /\ MaxRequest \in Nat /\ MaxHeader <= MaxRequest
  /\ Chunk \in Nat \ {0} /\ Permits \in Nat /\ MaxVersion \in Nat

VARIABLES asks,    \* client -> the texts and routes it sends; "command" -> its part
          conns,   \* client -> its connection's task
          engine,  \* version, actions applied, whether it has an object queue, readiness of
                   \* the auxiliary channel, and whether a session ended since it was read
          aux,     \* the declared listener: its readiness, and whether it refused one
          sync,    \* holder of declared_aux_sync, or ""
          signal,  \* state_notify: a permit is stored; the version last pushed, the change a
                   \* command has still to announce (0: none), and those nobody announces
          records, \* actions the observation bundle calls succeeded
          server   \* "up", "stopping" once shutdown was sent, "down" once run has left

vars == <<asks, conns, engine, aux, sync, signal, records, server>>  \* control.rs:71-84

-----------------------------------------------------------------------------
\* Parsing.

None == "none"

\* The verdict of the header lines, in order: the first bad one decides.
RECURSIVE HeaderVerdict(_, _)
HeaderVerdict(lines, length) ==  \* control.rs:602-631
  IF lines = <<>> THEN [bad |-> FALSE, length |-> IF length = <<>> THEN 0 ELSE length[1]]
  ELSE LET line == Head(lines)
           bad  == [bad |-> TRUE, length |-> 0]
       IN  CASE line.kind \in {"malformed", "transferEncoding"} -> bad
             [] line.kind = "contentLength" ->
                  IF length # <<>> \/ line.value = {} THEN bad
                  ELSE HeaderVerdict(Tail(lines), SetToSeq(line.value))
             [] OTHER -> HeaderVerdict(Tail(lines), length)

\* Variant in which a head that exactly fills its allowance is not looked for.
ParsesLate(text, got) ==
  LET head == HeaderVerdict(text.lines, <<>>)
  IN  CASE text.head = 0 \/ got < text.head -> IF got > MaxRequest THEN "413" ELSE None
        [] text.head > MaxHeader -> "413"
        [] head.bad -> "400"
        [] text.head + head.length > MaxRequest -> "413"
        [] got < text.head + head.length -> None
        [] OTHER -> "request"

\* What the first got bytes of a text amount to; head counts the blank line, 0 when it
\* never comes.
parse_request_if_complete(text, got) ==
  LET head == HeaderVerdict(text.lines, <<>>)
  IN  CASE got > MaxRequest -> "413"
        [] got <= MaxRequest /\ (text.head = 0 \/ got < text.head) ->
             IF got >= MaxHeader THEN "413" ELSE None
        [] OTHER -> CASE text.head > MaxHeader -> "413"
                      [] text.head <= MaxHeader /\ (text.badLine \/ head.bad) -> "400"
                      [] OTHER -> IF text.head + head.length > MaxRequest THEN "413"
                                  ELSE IF got < text.head + head.length THEN None
                                  ELSE "request"

\* What the whole text amounts to, however it arrives.
WholeVerdict(text) ==
  LET head == HeaderVerdict(text.lines, <<>>)
  IN  IF text.head = 0 \/ text.sent < text.head THEN IF text.sent >= MaxHeader THEN "413" ELSE None
      ELSE IF text.head > MaxHeader THEN "413"
      ELSE IF text.badLine \/ head.bad THEN "400"
      ELSE IF text.head + head.length > MaxRequest THEN "413"
      ELSE IF text.sent < text.head + head.length THEN None ELSE "request"

-----------------------------------------------------------------------------
\* Connections.

\* control.rs:422-433
NoText == [head |-> 0, sent |-> 0, lines |-> <<>>, badLine |-> FALSE, closes |-> TRUE]
NoRoute == [name |-> "", good |-> TRUE]
Free == [phase |-> "free", text |-> NoText, route |-> NoRoute, got |-> 0, answer |-> "",
         changed |-> FALSE, due |-> FALSE, at |-> 0, by |-> "", whole |-> ""]

Init ==  \* camera-sim-service/lib.rs:1303-1308
  /\ asks \in Asks
  /\ conns = [c \in Clients |-> Free]
  /\ \E queue \in BOOLEAN :
       engine = [version |-> 0, applied |-> <<>>, queue |-> queue, ready |-> FALSE, ended |-> FALSE]
  /\ aux = [ready |-> FALSE, refused |-> FALSE]
  /\ sync = "" /\ signal = [stored |-> TRUE, pushed |-> 0, owed |-> 0, unsaid |-> {}]
  /\ records = <<>> /\ server = "up"

InFlight == {c \in Clients : conns[c].phase # "free"}
Set(c, conn) == conns' = [conns EXCEPT ![c] = conn]
Answers(c, status) == [conns[c] EXCEPT !.phase = "writing", !.answer = status]
\* control.rs:434-445
Ended(c) == [Free EXCEPT !.phase = "writing", !.whole = WholeVerdict(conns[c].text)]
Elsewhere == <<engine, aux, sync, signal, records, server>>

\* A connection beyond the permits is dropped unanswered.
accept(c) ==
  /\ server = "up" /\ conns[c].phase = "free"
  /\ \E t \in asks[c].texts :
       Set(c, IF Cardinality(InFlight) < Permits THEN [Free EXCEPT !.phase = "reading", !.text = t] ELSE Free)
  /\ UNCHANGED Elsewhere

\* One read of at most what the request may still hold; nothing read means end of file.
read_request(c) ==
  LET conn == conns[c]
      available == Min({Chunk, MaxRequest - conn.got})
      left == conn.text.sent - conn.got
  IN  /\ conn.phase = "reading"
      /\ \/ \E n \in 1..Min({available, left}) :
              LET verdict == parse_request_if_complete(conn.text, conn.got + n)
              IN  \/ verdict = None /\ Set(c, [conn EXCEPT !.got = @ + n])
                  \/ /\ verdict = "request"
                     /\ \E r \in asks[c].routes : Set(c, [Ended(c) EXCEPT !.phase = "handling", !.route = r])
                  \/ /\ verdict \in {"400", "413"}
                     /\ Set(c, [Ended(c) EXCEPT !.answer = verdict, !.by = "parser"])
         \/ /\ available = 0 \/ (left = 0 /\ conn.text.closes)
            /\ Set(c, IF conn.got = 0 THEN Free ELSE [Ended(c) EXCEPT !.answer = "400", !.by = "eof"])
         \/ Set(c, [Ended(c) EXCEPT !.answer = "408", !.by = "deadline"])
      /\ UNCHANGED Elsewhere

Routed(c, name) == conns[c].phase = "handling" /\ conns[c].route.name = name
Good(c) == conns[c].route.good

\* Reads, and the faults that leave the camera's state alone.
handle_read(c) ==  \* control.rs:97-172
  /\ Routed(c, "read")
  /\ \/ Good(c) /\ \E status \in {"200", "500"} : Set(c, Answers(c, status))
     \/ ~ Good(c) /\ \E status \in {"400", "404"} : Set(c, Answers(c, status))
  /\ UNCHANGED Elsewhere

CanChange == engine.version < MaxVersion

\* A change that reads the channel's readiness for the listener.
Read(ready) == [engine EXCEPT !.version = @ + 1, !.ready = ready, !.ended = FALSE]

\* The next value of a property: the engine may refuse it.
advance_property(c) ==
  /\ Routed(c, "advance") /\ CanChange
  /\ \/ /\ Good(c) /\ engine' = [engine EXCEPT !.version = @ + 1]
        /\ signal' = [signal EXCEPT !.stored = TRUE]
        /\ Set(c, [Answers(c, "200") EXCEPT !.changed = TRUE])
     \/ Set(c, Answers(c, "400")) /\ UNCHANGED <<engine, signal>>
  /\ UNCHANGED <<aux, sync, records, server>>

\* An enqueue is prepared, and applied, only on an engine with a queue.
\* camera-sim/engine.rs:744-812
pending_standard_object_enqueue == engine.queue
apply_responder_mutation(c) ==
  IF engine.queue THEN [engine EXCEPT !.version = @ + 1, !.applied = Append(@, c)] ELSE engine

\* The answer to an action once recorded: an error when it is not applied after all.
Applies(c) ==
  /\ engine' = apply_responder_mutation(c)
  /\ IF engine.queue
     THEN /\ signal' = [signal EXCEPT !.stored = TRUE]
          /\ Set(c, [Answers(c, "200") EXCEPT !.changed = TRUE])
     ELSE Set(c, Answers(c, "500")) /\ UNCHANGED signal

\* Variant in which the action is recorded as succeeded before it is prepared.
RecordsFirst(c) ==
  /\ Routed(c, "action") /\ CanChange
  /\ \/ Good(c) /\ records' = Append(records, c) /\ Applies(c)
     \/ /\ \E status \in IF Good(c) THEN {"500"} ELSE {"400", "404", "500"} : Set(c, Answers(c, status))
        /\ UNCHANGED <<engine, records, signal>>
  /\ UNCHANGED <<aux, sync, server>>

\* An action is resolved, prepared, recorded and applied under one hold of the engine; the
\* preparation and the recording may fail, and then nothing is applied.
invoke_action(c) ==
  /\ Routed(c, "action") /\ CanChange
  /\ \/ Good(c) /\ pending_standard_object_enqueue /\ records' = Append(records, c) /\ Applies(c)
     \/ /\ \E status \in IF Good(c) THEN {"500"} ELSE {"400", "404", "500"} : Set(c, Answers(c, status))
        /\ UNCHANGED <<engine, records, signal>>
  /\ UNCHANGED <<aux, sync, server>>

\* A patch waits for declared_aux_sync; the overlay is applied whole or refused, and may
\* reset the gate that makes the channel ready.
apply_state_patch(c) ==
  /\ Routed(c, "patch") /\ CanChange
  /\ \/ /\ Good(c) /\ sync = "" /\ sync' = c
        /\ \E ready \in {engine.ready, FALSE} :
             /\ engine' = Read(ready)
             /\ Set(c, [conns[c] EXCEPT !.phase = "following", !.changed = TRUE, !.due = ready,
                                        !.at = engine.version + 1])
     \/ /\ sync = "" \/ ~ Good(c)
        /\ Set(c, Answers(c, "400")) /\ UNCHANGED <<engine, sync>>
  /\ UNCHANGED <<aux, signal, records, server>>

\* The listener follows the readiness read with the patch.  Its refusal is answered as a
\* bad request, and nobody is notified.
PatchFollows(c) ==  \* control.rs:401-407
  /\ conns[c].phase = "following" /\ sync' = ""
  /\ \/ /\ aux' = [ready |-> conns[c].due, refused |-> FALSE]
        /\ signal' = [signal EXCEPT !.stored = TRUE] /\ Set(c, Answers(c, "200"))
     \/ /\ aux' = [aux EXCEPT !.refused = TRUE]
        /\ signal' = [signal EXCEPT !.unsaid = @ \cup {conns[c].at}]
        /\ Set(c, [Answers(c, "400") EXCEPT !.by = "listener"])
  /\ UNCHANGED <<engine, records, server>>

subscribe_callback(c) ==
  /\ Routed(c, "subscribe")
  /\ \/ Good(c) /\ signal' = [signal EXCEPT !.stored = TRUE] /\ Set(c, Answers(c, "200"))
     \/ ~ Good(c) /\ Set(c, Answers(c, "400")) /\ UNCHANGED signal
  /\ UNCHANGED <<engine, aux, sync, records, server>>

handle_shutdown(c) ==  \* control.rs:211-214
  /\ Routed(c, "shutdown")
  /\ server' = (IF server = "up" THEN "stopping" ELSE server)
  /\ Set(c, Answers(c, "200"))
  /\ UNCHANGED <<engine, aux, sync, signal, records>>

\* The answer goes out whole or its deadline or the peer ends it; the connection closes.
write_response(c) ==  \* control.rs:500-518
  /\ conns[c].phase = "writing"
  /\ Set(c, Free) /\ UNCHANGED Elsewhere

\* A command does the same on its own connection: operation and readiness, then the
\* listeners, whose refusal ends the connection.
CommandLocks ==
  /\ "operate" \in asks["command"]
  /\ server # "down" /\ sync = "" /\ signal.owed = 0 /\ CanChange
  /\ \E ready \in BOOLEAN : engine' = Read(ready) /\ sync' = IF ready THEN "opening" ELSE "closing"
  /\ signal' = [signal EXCEPT !.owed = engine.version + 1]
  /\ UNCHANGED <<conns, aux, records, server>>

\* The change a command announces no more.
Unsaid == [signal EXCEPT !.owed = 0, !.unsaid = @ \cup {signal.owed}]

CommandFollows ==
  /\ sync \in {"opening", "closing"} /\ sync' = ""
  /\ \/ aux' = [ready |-> sync = "opening", refused |-> FALSE] /\ UNCHANGED signal
     \/ aux' = [aux EXCEPT !.refused = TRUE] /\ signal' = Unsaid
  /\ UNCHANGED <<conns, engine, records, server>>

\* Its reply out and its records written, the command notifies; a record refused ends the
\* connection first.
CommandNotifies ==  \* camera-sim-service/lib.rs:2397-2437
  /\ sync \notin {"opening", "closing"} /\ signal.owed # 0
  /\ \/ signal' = [signal EXCEPT !.stored = TRUE, !.owed = 0]
     \/ signal' = Unsaid
  /\ UNCHANGED <<conns, engine, aux, sync, records, server>>

\* The connection that opened the session ends, whoever holds declared_aux_sync: neither
\* the listeners nor the subscribers are told.
Teardown ==
  /\ "end" \in asks["command"] /\ server # "down" /\ CanChange
  /\ \E ready \in {engine.ready, FALSE} :
       engine' = [engine EXCEPT !.version = @ + 1, !.ready = ready, !.ended = TRUE]
  /\ signal' = [signal EXCEPT !.unsaid = @ \cup {engine.version + 1}]
  /\ UNCHANGED <<conns, aux, sync, records, server>>

\* The push task takes the stored permit and reads the state.
Push ==
  /\ signal.stored
  /\ signal' = [signal EXCEPT !.stored = FALSE, !.pushed = engine.version]
  /\ UNCHANGED <<conns, engine, aux, sync, records, server>>

\* Whoever runs the server may stop it too.
Stop ==
  /\ server = "up" /\ server' = "stopping"
  /\ UNCHANGED <<conns, engine, aux, sync, signal, records>>

\* Leaving run drops the control loop and aborts its tasks, wherever they wait.
RunLeaves ==
  /\ server = "stopping" /\ server' = "down"
  /\ conns' = [c \in Clients |-> Free]
  /\ sync' = IF sync \in Clients THEN "" ELSE sync
  /\ UNCHANGED <<engine, aux, signal, records>>

Task(c) ==
  \/ accept(c) \/ read_request(c) \/ handle_read(c) \/ advance_property(c) \/ invoke_action(c)
  \/ apply_state_patch(c) \/ PatchFollows(c) \/ subscribe_callback(c) \/ handle_shutdown(c)
  \/ write_response(c)

Next ==
  /\ \/ \E c \in Clients : Task(c)
     \/ CommandLocks \/ CommandFollows \/ CommandNotifies \/ Teardown \/ Push \/ Stop \/ RunLeaves
  /\ UNCHANGED asks

Spec == Init /\ [][Next]_vars

-----------------------------------------------------------------------------
\* Properties.

\* Every connection is in a phase of its task and the lock is held by one that is in it.
TypeOK ==
  /\ \A c \in Clients : conns[c].phase \in {"free", "reading", "handling", "following", "writing"}
  /\ sync \in Clients \cup {"", "opening", "closing"}
  /\ \A c \in Clients : sync = c <=> conns[c].phase = "following"
  /\ server \in {"up", "stopping", "down"} /\ Cardinality(InFlight) <= Permits

\* How a request is cut into reads does not change its verdict, and the reader never asks
\* for nothing, which it would take for the end of the file (read_request_before).
FragmentsAgree ==
  \A c \in Clients :
    LET conn == conns[c]
    IN  /\ conn.phase = "reading" => conn.got < MaxRequest
        /\ conn.by = "parser" => conn.answer = conn.whole
        /\ conn.phase \in {"handling", "following"} => conn.whole = "request"
        /\ conn.by = "eof" => conn.whole = None

\* The bundle calls an action succeeded exactly when it was applied, in that order: what
\* was prepared never fails to apply after its record (invoke_action).
RecordsAreTrue == records = engine.applied

\* An error is answered only where nothing changed, but for a patch whose listener refused
\* to follow (apply_state_patch).
ErrorsChangeNothing ==
  \A c \in Clients :
    conns[c].answer \in {"400", "404", "408", "413", "500"} /\ conns[c].changed
      => conns[c].by = "listener"

\* With no patch or command under way the listener agrees with the engine, however patches
\* and commands cross.  It disagrees only where it refused to follow, or stays open after
\* the end of a session, which tells no listener (declared_aux_sync).
ListenerFollows ==
  (sync = "" /\ ~ aux.refused /\ server # "down" /\ aux.ready # engine.ready)
    => aux.ready /\ engine.ended

\* With nothing under way and no permit stored, the last push saw every change but those
\* that nobody announces: the end of a session, a change whose listener refused to follow,
\* that of a command whose record was refused (state_notify).
ChangesArePushed ==
  (sync = "" /\ ~ signal.stored /\ signal.owed = 0 /\ server # "down")
    => (signal.pushed + 1)..engine.version \subseteq signal.unsaid

\* What the control surface promises.
ControlIsSound ==
  /\ FragmentsAgree /\ RecordsAreTrue /\ ErrorsChangeNothing /\ ListenerFollows /\ ChangesArePushed
===============================================================================
