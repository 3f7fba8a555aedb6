--------------------------- MODULE NativeTransport ---------------------------
(***************************************************************************)
(* The initiator's own transport: it finds the camera, opens the command   *)
(* connection, the PTP session and the auxiliary connections, and carries  *)
(* frames for the plan interpreters.  A call is one action.  Its outcome   *)
(* is computed by the operators named after the methods, which return the  *)
(* set of possible results: the camera may answer anything, a wait may end *)
(* by its clock, a write may be cut short, and the trace file may be full. *)
(*                                                                         *)
(* A result is [s, class, v, code]: the transport, "none", "endpoint" or   *)
(* "protocol" (the two kinds of EstablishConnectedError; every other error *)
(* of the transport is "protocol" too), the number or the code returned.   *)
(***************************************************************************)
EXTENDS Integers, Sequences, FiniteSets, TLC

CONSTANTS
  Configs,      \* connections: what the manifest and the command line say
  Cameras,      \* IPv4 addresses of cameras, positive numbers
  EventCodes,   \* codes of the camera's events
  DataSizes,    \* lengths of the data packets of a data phase
  MaxFrame,     \* max_frame_bytes
  EventLimit,   \* EVENT_QUEUE_LIMIT
  MaxCallbacks, \* bound: callbacks received by one rendezvous round
  MaxPackets,   \* bound: packets of one data phase
  StreamFrame,  \* total length of the frames that a streaming read receives
  ChunkSizes,   \* lengths of the reads of a stream
  MaxCalls      \* bound: calls of the transport

NativeAssumption ==
  /\ Cameras \subseteq Nat \ {0} /\ DataSizes \subseteq Nat /\ MaxFrame \in Nat
  /\ EventLimit \in Nat \ {0} /\ MaxCallbacks \in Nat /\ MaxPackets \in Nat /\ MaxCalls \in Nat
  /\ StreamFrame \in Nat /\ StreamFrame >= 12 /\ ChunkSizes \subseteq Nat

VARIABLES
  cfg,          \* the configuration of the transport
  phase,        \* new, ready or refused
  t,            \* NativePtpTransport, with a history of its command connection
  calls,        \* number of calls made
  last          \* the call made last and its result

vars == <<cfg, phase, t, calls, last>>  \* transport.rs:93-107

\* active, event, live and poisoned are the fields of the same names; retained is the
\* event queue, next the next transaction id and open whether the socket of the channel
\* is connected.  torn, spoiled, used and reused are the history of the command channel:
\* a frame was cut short, bytes were written after it, the transaction ids of the logical
\* session and whether one was used twice.  got and given are the events received and
\* handed out and lost those read and dropped, the reply to a probe included, and acked the cameras whose callback
\* was acknowledged.  stream is StreamTrace: bytes pending and, in a frame, bytes remaining;
\* its history is how far into a frame the trace is and whether a record failed.
\* transport.rs:1887-1897
StreamTrace == [pending |-> 0, remaining |-> -1, traced |-> 0, cut |-> FALSE]

NativePtpTransport ==  \* transport.rs:157-177
  [active |-> FALSE, event |-> "none", live |-> FALSE, poisoned |-> FALSE, retained |-> <<>>,
   next |-> 2, torn |-> FALSE, spoiled |-> FALSE, used |-> {}, reused |-> FALSE,
   got |-> <<>>, given |-> <<>>, lost |-> <<>>, acked |-> {}, rounds |-> 0, stream |-> StreamTrace]

Ok(s, v) == {[s |-> s, class |-> "none", v |-> v, code |-> "none"]}  \* transport.rs:2059-2069

\* transport.rs:2059-2063
Replies(s, codes) == {[s |-> s, class |-> "none", v |-> 0, code |-> c] : c \in codes}

failed(s) == {[s |-> s, class |-> "protocol", v |-> 0, code |-> "none"]}  \* transport.rs:68-73

endpoint(s) == {[s |-> s, class |-> "endpoint", v |-> 0, code |-> "none"]}  \* transport.rs:61-66

Then(R, f(_)) == UNION {IF r.class = "none" THEN f(r) ELSE {r} : r \in R}

\* A record of the trace, whose file may refuse it.
Trace(s) == Ok(s, 0) \cup failed(s)  \* transport.rs:2085-2092

(***************************** The command channel *************************)

LeavesUsable(s) == [s EXCEPT !.torn = TRUE]

\* WritePoison: a write that fails, or whose future is dropped, leaves the channel poisoned.
WritePoison(s) == [s EXCEPT !.poisoned = TRUE, !.torn = TRUE]

\* The bytes of a frame reach the socket.
Sent(s, tid) ==  \* transport.rs:1746-1751
  [s EXCEPT !.spoiled = @ \/ s.torn, !.reused = @ \/ tid \in s.used,
            !.used = IF tid < 0 THEN @ ELSE @ \cup {tid}]

\* CommandChannel::write_frame; tid is -1 for a frame that is no command.
write_frame(s, tid) ==
  IF s.poisoned THEN failed(s)
  ELSE failed(s) \cup Ok(Sent(s, tid), 0) \cup failed(WritePoison(Sent(s, tid)))

\* CommandChannel::read_frame: a frame of the camera, or an error, a timeout or a length
\* outside the limits.
read_frame(s, frames) ==
  IF s.poisoned THEN failed(s)
  ELSE failed(s) \cup UNION {Ok(s, f) : f \in frames}

\* Establishment I/O: the first init alone may show that the endpoint is gone.
establishment_write(s, eligible) ==
  IF s.poisoned THEN failed(s)
  ELSE LET sent == Sent(s, -1) IN
       failed(s) \cup Ok(sent, 0) \cup failed(WritePoison(sent))
         \cup (IF eligible THEN endpoint(WritePoison(sent)) ELSE {})

establishment_read(s, frames, eligible) ==
  IF s.poisoned THEN failed(s)
  ELSE failed(s) \cup Replies(s, frames) \cup (IF eligible THEN endpoint(s) ELSE {})

\* One command of session establishment: the answer carries the transaction id asked for
\* or is refused.
session_command(s, tid, codes) ==
  Then(write_frame(s, tid), LAMBDA r :
  Then(read_frame(r.s, {tid, tid + 1}), LAMBDA q :
    IF q.v = tid THEN failed(q.s) \cup Replies(q.s, codes) ELSE failed(q.s)))

(*************************** The data phase, standard framing **************)

\* append_standard_data_chunk: neither more than the limit nor more than was declared.
append_standard_data_chunk(got, chunk, declared) ==
  IF got + chunk > MaxFrame \/ got + chunk > declared THEN -1 ELSE got + chunk

\* standard_read_data_in: packets are read until the response ends the operation.  The
\* value is the length collected.
RECURSIVE standard_read_data_in(_, _, _, _, _)
standard_read_data_in(s, declared, got, ended, fuel) ==
  IF fuel = 0 THEN failed(s)
  ELSE Then(read_frame(s, {0}), LAMBDA r :
    LET u == r.s
        Start == UNION {IF declared # -1 \/ n > MaxFrame THEN failed(u)
                        ELSE standard_read_data_in(u, n, got, ended, fuel - 1) : n \in DataSizes}
        Data(n, isLast) ==
          LET sum == append_standard_data_chunk(got, n, declared) IN
          IF declared = -1 \/ ended \/ sum = -1 \/ (isLast /\ sum # declared) THEN failed(u)
          ELSE standard_read_data_in(u, declared, sum, isLast, fuel - 1)
        Response == IF declared = -1 \/ ~ended THEN failed(u)
                    ELSE Ok(u, got)
    IN Start \cup UNION {Data(n, FALSE) \cup Data(n, TRUE) : n \in DataSizes}
         \cup Response \cup failed(u))

\* decode_u32_array: the count of the first four bytes accounts for every byte.
decode_u32_array(length, count) == length >= 4 /\ length = 4 * count + 4

standard_get_device_info(s) ==  \* transport.rs:783-795
  Then(write_frame(s, 0), LAMBDA r :
  Then(standard_read_data_in(r.s, -1, 0, FALSE, MaxPackets), LAMBDA q :
    failed(q.s) \cup UNION {Ok(q.s, vendor) : vendor \in 0..1}))

standard_get_vendor_codes(s, tid) ==
  Then(write_frame(s, tid), LAMBDA r :
  Then(standard_read_data_in(r.s, -1, 0, FALSE, MaxPackets), LAMBDA q :
    UNION {IF decode_u32_array(q.v, n) THEN Ok(q.s, n) ELSE failed(q.s) : n \in 0..2}))

(***************************** Finding the camera **************************)

\* NativePtpTransport::new: the connection exists, has a framing, an init shape and a
\* command socket, and --camera and --interface fit its shape.
Accepts(c) ==  \* transport.rs:110-156
  /\ c.known /\ c.framed /\ c.shape # "none" /\ c.command
  /\ (c.shape # "pcssKnock" => c.camera # 0)
  /\ ~(c.camera # 0 /\ c.interface # "none")

connect(s) == Ok(s, 0) \cup failed(s)

\* connect_until: only connecting is retried, until the deadline.
connect_until(s) == connect(s)

connect_pcss_endpoint(s) == Ok(s, 0) \cup endpoint(s) \cup failed(s)

\* direct_command_target: an endpoint and an init packet, by the shape of the init.
direct_command_target(s) ==
  CASE cfg.shape = "app82"         -> IF cfg.nameFits THEN Ok(s, 0) ELSE failed(s)
    [] cfg.shape = "legacyApp82"   -> Ok(s, 0) \cup failed(s)
    [] cfg.shape = "standardPtpIp" -> Ok(s, 0)
    [] OTHER                       -> failed(s)

\* select_pcss_interface: the interface asked for or the default route's, if it has IPv4
\* and a broadcast address.
directed_broadcast(hostBits) == hostBits >= 2  \* transport.rs:1955-1962

select_pcss_interface(s) ==
  LET usable == {i \in cfg.interfaces : /\ (cfg.interface = "none" => i.preferred /\ ~i.loopback)
                                        /\ (cfg.interface # "none" => i.name = cfg.interface)
                                        /\ (i.broadcast \/ directed_broadcast(i.hostBits))}
  IN IF usable = {} THEN failed(s) ELSE Ok(s, 0)

AnyCallback(peer, dsc, explicit) == explicit = 0 \/ explicit = dsc

\* pcss_callback_matches: the callback names the host it came from, and the camera asked
\* for if one was.
\* transport.rs:1964-1966
pcss_callback_matches(peer, dsc, explicit) == peer = dsc /\ (explicit = 0 \/ explicit = dsc)

\* read_pcss_notify: a whole message, or too long, ended early, not parsed or too slow.
Callbacks == [peer : Cameras, dsc : Cameras, named : BOOLEAN, whole : BOOLEAN]

\* The callbacks of one attempt: those that are no answer are ignored.
RECURSIVE Attempts(_, _, _, _)
Attempts(s, explicit, attempt, fuel) ==
  LET Expired == IF attempt < cfg.attempts THEN Attempts(s, explicit, attempt + 1, fuel) ELSE failed(s)
      Received(c) ==
        IF ~c.whole \/ ~pcss_callback_matches(c.peer, c.dsc, explicit) \/ ~c.named
        THEN Attempts(s, explicit, attempt, fuel - 1)
        ELSE failed(s) \cup Ok([s EXCEPT !.acked = @ \cup {<<c.peer, c.dsc>>}], c.dsc)
  IN IF fuel = 0 THEN Expired
     ELSE Expired \cup failed(s) \cup UNION {Received(c) : c \in Callbacks}

\* pcss_rendezvous_round; a second round reuses the callback listener, whose address must
\* still be the route's.
pcss_rendezvous_round(s, mode, explicit, reuse) ==
  LET counted == [s EXCEPT !.rounds = @ + 1] IN
  IF mode \notin cfg.targets THEN failed(s)
  ELSE Then(IF mode = "subnetBroadcast" THEN select_pcss_interface(counted)
            ELSE Ok(counted, 0) \cup failed(counted), LAMBDA r :
       failed(r.s) \cup Attempts(r.s, explicit, 1, MaxCallbacks))

\* pcss_recovered_target: a round that asks the camera found before, and no recovery after.
pcss_recovered_target(s, camera) ==
  Then(pcss_rendezvous_round(s, "explicitUnicast", camera, TRUE), LAMBDA r :
  Then(connect(r.s), LAMBDA q : Ok(q.s, 0)))

\* pcss_connected_target: the value is the camera that may be asked again, 0 for none.
pcss_connected_target(s) ==
  LET mode == IF cfg.camera # 0 THEN "explicitUnicast" ELSE cfg.target
  IN IF ~cfg.identity \/ (cfg.camera = 0 /\ cfg.target # "subnetBroadcast") THEN failed(s)
     ELSE Then(pcss_rendezvous_round(s, mode, cfg.camera, FALSE), LAMBDA r :
       LET recovery == IF mode = "subnetBroadcast" /\ cfg.retryUnicast THEN r.v ELSE 0
       IN UNION {CASE q.class = "none" -> Ok(q.s, recovery)
                   [] q.class = "endpoint" /\ recovery # 0 ->
                        Then(Trace(q.s), LAMBDA z : pcss_recovered_target(z.s, recovery))
                   [] OTHER -> {q} : q \in connect_pcss_endpoint(r.s)})

(*************************** Opening the session ***************************)

\* init_ack_is_valid and canonical_init_fail_reason tell the answers to an init apart.
InitReplies == {"ack", "busy", "refused", "malformed"}

\* The init exchange, retried on the same connection for the reasons of the policy.
RECURSIVE InitExchange(_, _)
InitExchange(s, retries) ==
  Then(establishment_write(s, retries = 0), LAMBDA r :
  Then(establishment_read(r.s, InitReplies, retries = 0), LAMBDA q :
    CASE q.code = "ack" -> Ok(q.s, 0)
      [] q.code \in cfg.retryReasons /\ retries < cfg.maxRetries ->
           Then(Trace(q.s), LAMBDA z : InitExchange(z.s, retries + 1))
      [] OTHER -> failed(q.s)))

\* open_standard_event_channel replaces the event channel once the camera has joined it.
close_event(s) ==  \* transport.rs:1511-1512
  [s EXCEPT !.event = "none", !.retained = <<>>, !.got = <<>>, !.given = <<>>, !.lost = <<>>]

EventChannel(s, framing) == [close_event(s) EXCEPT !.event = framing]  \* transport.rs:767-775

open_standard_event_channel(s) ==
  IF ~cfg.eventPort THEN failed(s)
  ELSE Then(connect(s), LAMBDA r : failed(r.s) \cup Trace(EventChannel(r.s, "standard")))

KeepsIds(s) == s

\* A new logical session: begin_ptp_session and retry_logical_ptp_session.
LogicalSession(s) == [s EXCEPT !.used = {}]  \* transport.rs:269-273

OpenSession(s, code, next) ==  \* transport.rs:704-714
  IF code # "ok" THEN failed(s) ELSE Ok([s EXCEPT !.next = next], 0)

\* A session that the camera says is open already is closed and opened once more.
CloseAndRetry(s, next) ==  \* transport.rs:666-703
  Then(Trace(s), LAMBDA z :
  Then(session_command(z.s, 2, {"ok", "refused"}), LAMBDA r :
    IF r.code # "ok" THEN failed(r.s)
    ELSE Then(Trace(LogicalSession(r.s)), LAMBDA q :
         Then(session_command(q.s, 1, {"ok", "already", "refused"}), LAMBDA w : OpenSession(w.s, w.code, next)))))

\* establish_connected, on a channel just made.
establish_connected(s) ==
  LET Fresh == [s EXCEPT !.next = 2, !.torn = FALSE]
      Discovers(r) ==
        IF cfg.shape # "standardPtpIp" THEN Ok(r.s, 0)
        ELSE Then(open_standard_event_channel(r.s), LAMBDA e :
             Then(standard_get_device_info(e.s), LAMBDA d :
             Then(Trace(d.s), LAMBDA z : Ok(z.s, d.v))))
  IN Then(InitExchange(Fresh, 0), LAMBDA r :
     Then(Discovers(r), LAMBDA d :
     Then(session_command(d.s, 1, {"ok", "already", "refused"}), LAMBDA o :
     Then(IF o.code = "already" THEN CloseAndRetry(o.s, 2) ELSE OpenSession(o.s, o.code, 2), LAMBDA w :
       IF d.v = 0 THEN Ok(w.s, 0)
       ELSE Then(standard_get_vendor_codes(w.s, 2), LAMBDA c : Trace([c.s EXCEPT !.next = 3]))))))

\* transport.rs:264-274
establish_observed(s) == Then(Trace(LogicalSession(s)), LAMBDA r : establish_connected(r.s))

install_command_session(s) == Then(Trace(s), LAMBDA r : Ok([r.s EXCEPT !.active = TRUE], 0))

prepare_command_session(s) ==  \* transport.rs:252-262
  IF s.active THEN failed(s)
  ELSE Ok([s EXCEPT !.poisoned = FALSE, !.stream = StreamTrace, !.rounds = 0, !.acked = {}], 0)

\* The errors of establishment lose their kind on the way out.
\* transport.rs:219-229
Plain(R) == {IF r.class = "endpoint" THEN [r EXCEPT !.class = "protocol"] ELSE r : r \in R}

\* open_command_session: a discovered camera whose command session is unavailable is asked
\* for its endpoint once more.
Rediscover(s, camera) ==  \* transport.rs:201-221
  Then(Trace(s), LAMBDA z :
  Then(pcss_recovered_target([z.s EXCEPT !.poisoned = FALSE], camera), LAMBDA r : establish_observed(r.s)))

open_command_session(s) ==
  Then(prepare_command_session(s), LAMBDA p :
  Then(IF cfg.shape = "pcssKnock"
       THEN Then(pcss_connected_target(p.s), LAMBDA r :
              UNION {IF q.class = "endpoint" /\ r.v # 0
                     THEN Rediscover(q.s, r.v) ELSE {q} : q \in establish_observed(r.s)})
       ELSE Then(direct_command_target(p.s), LAMBDA r :
            Then(connect(r.s), LAMBDA q : establish_observed(q.s))),
       LAMBDA w : install_command_session(w.s)))

open_command_session_after_handoff(s) ==
  Then(prepare_command_session(s), LAMBDA p :
  Then(direct_command_target(p.s), LAMBDA r :
  Then(connect_until(r.s), LAMBDA q :
  Then(establish_observed(q.s), LAMBDA w : install_command_session(w.s)))))

(************************* Auxiliary connections ***************************)

open_manifest_channel(s, role) ==
  CASE cfg.camera = 0 \/ role = "command" -> failed(s)
    [] role = "event" ->
         IF ~cfg.eventPort THEN failed(s)
         ELSE IF s.event # "none" THEN Ok(s, 0)
         ELSE Then(connect(s), LAMBDA r : Trace(EventChannel(r.s, cfg.eventFraming)))
    [] role = "live" ->
         IF ~cfg.livePort THEN failed(s)
         ELSE IF s.live THEN Ok(s, 0)
         ELSE Then(connect(s), LAMBDA r : Trace([r.s EXCEPT !.live = TRUE]))

open_auxiliary(s, withLive) ==  \* transport.rs:295-303
  Then(IF cfg.eventPort THEN open_manifest_channel(s, "event") ELSE Ok(s, 0), LAMBDA r :
    IF withLive /\ cfg.livePort THEN open_manifest_channel(r.s, "live") ELSE Ok(r.s, 0))

confirm_live_view_frame(s) == IF s.live THEN Ok(s, 0) \cup failed(s) ELSE failed(s)

ProbeReply == "probe"  \* transport.rs:418-419

\* A frame taken from the reader and dropped: its trace was refused, the queue is full or
\* it is not what the reader may receive.
Dropped(s, code) ==  \* transport.rs:415-417
  failed([s EXCEPT !.got = Append(@, code), !.lost = Append(@, code)])

Deliver(s, code) == Ok([s EXCEPT !.got = Append(@, code), !.given = Append(@, code)], 0)

DropsOldest(s, code) ==
  IF Len(s.retained) >= EventLimit
  THEN Ok([s EXCEPT !.got = Append(@, code), !.lost = Append(@, Head(s.retained)),
                    !.retained = Append(Tail(@), code)], 0)
  ELSE Ok([s EXCEPT !.got = Append(@, code), !.retained = Append(@, code)], 0)

\* An event that nobody asked for is retained while there is room.
Retain(s, code) ==  \* transport.rs:420-426
  IF Len(s.retained) >= EventLimit THEN Dropped(s, code)
  ELSE Ok([s EXCEPT !.got = Append(@, code), !.retained = Append(@, code)], 0)

\* probe_event_channel: events that come before the answer are retained.
RECURSIVE AwaitProbe(_, _)
AwaitProbe(s, fuel) ==
  failed(s) \cup Dropped(s, ProbeReply) \cup Deliver(s, ProbeReply)
    \cup (IF fuel = 0 THEN {}
          ELSE UNION {Dropped(s, c) \cup Then(Retain(s, c), LAMBDA r : AwaitProbe(r.s, fuel - 1))
                        : c \in EventCodes})

probe_event_channel(s) ==
  IF s.event # "standard" THEN failed(s)
  ELSE Then(Trace(s), LAMBDA r : AwaitProbe(r.s, MaxPackets))

\* next_event_frame: the oldest retained event of the code, or the next one that comes.
Positions(s, code) == {i \in DOMAIN s.retained : s.retained[i] = code}  \* transport.rs:1608-1617

Oldest(I) == CHOOSE i \in I : \A j \in I : i <= j  \* transport.rs:1609-1614

KeepsRetained(q, i) == q

Removed(q, i) == SubSeq(q, 1, i - 1) \o SubSeq(q, i + 1, Len(q))

\* The reply to a probe that has timed out may come here, where it is no event.
RECURSIVE AwaitEvent(_, _, _)
AwaitEvent(s, code, fuel) ==
  failed(s) \cup Dropped(s, code) \cup Deliver(s, code)
    \cup (IF s.event = "standard" THEN Dropped(s, ProbeReply) ELSE {})
    \cup (IF fuel = 0 THEN {}
          ELSE UNION {Dropped(s, c) \cup Then(Retain(s, c), LAMBDA r : AwaitEvent(r.s, code, fuel - 1))
                        : c \in EventCodes \ {code}})

next_event_frame(s, code) ==  \* transport.rs:1602-1618
  CASE s.event = "none" -> failed(s)
    [] Positions(s, code) # {} ->
         Ok([s EXCEPT !.retained = Removed(s.retained, Oldest(Positions(s, code))),
                      !.given = Append(@, code)], 0)
    [] OTHER -> AwaitEvent(s, code, MaxPackets)

(****************************** Closing ************************************)

close_auxiliary(s) ==  \* transport.rs:1511-1514
  [close_event(s) EXCEPT !.live = FALSE]

\* The auxiliary connections go first, then the channel is taken, told and shut down.
close_command_channel(s, closes) ==
  LET taken == [close_auxiliary(s) EXCEPT !.active = FALSE] IN
  IF ~s.active THEN failed(close_auxiliary(s))
  ELSE Then(IF closes THEN write_frame(taken, -1) ELSE Ok(taken, 0), LAMBDA r : failed(r.s) \cup Trace(r.s))

\* close_session_if_open: a poisoned session is closed without a word to the camera.
Orderly(s) == ~s.poisoned  \* transport.rs:436-446

close_session_if_open(s) ==
  IF ~s.active THEN Ok(s, 0)
  ELSE LET said == IF Orderly(s)
                   THEN session_command([s EXCEPT !.next = @ + 1], s.next, {"ok", "refused"})
                   ELSE Replies(s, {"ok"})
       IN UNION {UNION {IF r.class = "none" /\ r.code = "ok" THEN {q} ELSE failed(q.s)
                          : q \in close_command_channel(r.s, Orderly(s) /\ cfg.closes)} : r \in said}

(******************** What the interpreters call ***************************)

\* transport.rs:1500-1509
active_channel(s) == IF s.poisoned \/ ~s.active THEN failed(s) ELSE Ok(s, 0)

\* reserve_transaction_id and then send_command_frame: one command of a plan.
Command(s) ==  \* transport.rs:1574-1588
  Then(active_channel(s), LAMBDA r :
  Then(write_frame([r.s EXCEPT !.next = @ + 1], r.s.next), LAMBDA q : Trace(q.s)))

\* transport.rs:1590-1600
next_command_frame(s) == Then(active_channel(s), LAMBDA r : Then(read_frame(r.s, {0}), LAMBDA q : Trace(q.s)))

\* trace_stream_bytes: the bytes of a stream are recorded as chunks of the frames they
\* belong to; a frame begins when the four bytes of its length are there.
HeaderBytes == 4  \* transport.rs:1523-1525

NextFrame == HeaderBytes  \* transport.rs:1523-1525

Chunk(st) ==  \* transport.rs:1551-1564
  LET take == IF st.remaining < st.pending THEN st.remaining ELSE st.pending
  IN [st EXCEPT !.pending = @ - take, !.remaining = @ - take, !.traced = (@ + take) % StreamFrame]

RECURSIVE trace_stream_bytes(_)
trace_stream_bytes(s) ==
  LET st == s.stream
      begun == [st EXCEPT !.remaining = StreamFrame]
      cut == [s EXCEPT !.stream = [Chunk(st) EXCEPT !.remaining = -1, !.cut = TRUE]]
      ended == [s EXCEPT !.stream = [Chunk(st) EXCEPT !.remaining = -1]]
  IN CASE st.remaining = -1 /\ st.pending < NextFrame -> Ok(s, 0)
       [] st.remaining = -1 -> failed(s) \cup trace_stream_bytes([s EXCEPT !.stream = begun])
       [] st.pending = 0 -> Ok(s, 0)
       [] Chunk(st).remaining > 0 -> failed(cut) \cup Ok([s EXCEPT !.stream = Chunk(st)], 0)
       [] OTHER -> failed(cut) \cup trace_stream_bytes(ended)

receive_command_bytes(s, max) ==
  IF max = 0 THEN failed(s)
  ELSE Then(active_channel(s), LAMBDA r :
       Then(read_frame(r.s, {0}), LAMBDA q : trace_stream_bytes([q.s EXCEPT !.stream.pending = @ + max])))

invalidate_command_session(s) == Ok([s EXCEPT !.poisoned = TRUE], 0)  \* transport.rs:1707-1710

Init ==  \* transport.rs:157-177
  /\ cfg \in Configs
  /\ phase = "new"
  /\ t = NativePtpTransport
  /\ calls = 0
  /\ last = [op |-> "none", class |-> "none", dropped |-> 0]

new ==
  /\ phase = "new"
  /\ phase' = IF Accepts(cfg) THEN "ready" ELSE "refused"
  /\ UNCHANGED <<cfg, t, calls, last>>

Call(op, R) ==
  /\ phase = "ready" /\ calls < MaxCalls
  /\ \E r \in R : /\ t' = r.s
                  /\ last' = [op |-> op, class |-> r.class, dropped |-> Len(r.s.lost) - Len(t.lost)]
  /\ calls' = calls + 1
  /\ UNCHANGED <<cfg, phase>>

Open == Call("open", Plain(open_command_session(t)))  \* transport.rs:190-191
\* transport.rs:234-241
OpenAfterHandoff == cfg.shape # "pcssKnock" /\ Call("open", Plain(open_command_session_after_handoff(t)))
\* transport.rs:295-303
OpenAuxiliary == \E b \in BOOLEAN : Call("auxiliary", open_auxiliary(t, b))
\* transport.rs:1570-1572
OpenChannel == \E role \in {"command", "event", "live"} : Call("channel", open_manifest_channel(t, role))
ConfirmLiveView == Call("frame", confirm_live_view_frame(t))  \* transport.rs:362-366
Probe == Call("probe", probe_event_channel(t))  \* transport.rs:381-390
\* transport.rs:1602-1606
NextEvent == \E c \in EventCodes : Call("event", next_event_frame(t, c))
Close == Call("close", close_session_if_open(t))  \* transport.rs:432-435
\* transport.rs:1644-1654
CloseChannel == \E b \in BOOLEAN : Call("close", close_command_channel(t, b))
SendCommand == Call("command", Command(t))  \* transport.rs:1580-1588
ReadFrame == Call("read", next_command_frame(t))  \* transport.rs:1590-1600
\* transport.rs:1686-1701
ReadBytes == \E n \in ChunkSizes : Call("bytes", receive_command_bytes(t, n))
Invalidate == Call("invalidate", invalidate_command_session(t))  \* transport.rs:1707-1710

Next ==
  new \/ Open \/ OpenAfterHandoff \/ OpenAuxiliary \/ OpenChannel \/ ConfirmLiveView \/ Probe
    \/ NextEvent \/ Close \/ CloseChannel \/ SendCommand \/ ReadFrame \/ ReadBytes \/ Invalidate

Spec == Init /\ [][Next]_vars

TypeOK ==
  /\ phase \in {"new", "ready", "refused"} /\ calls \in 0..MaxCalls
  /\ t.active \in BOOLEAN /\ t.poisoned \in BOOLEAN /\ t.live \in BOOLEAN /\ t.torn \in BOOLEAN
  /\ t.event \in {"none", "standard", "compact"} /\ Len(t.retained) <= EventLimit
  /\ t.next \in Nat /\ t.used \subseteq 0..t.next + 1
  /\ last.class \in {"none", "protocol"}

\* A frame cut short is the last thing written on its connection: WritePoison is dropped
\* armed, and from then on neither a command nor the orderly close of the session, with
\* its transport close frame, writes there, until another connection has been made.
TornIsLast == ~t.spoiled /\ (t.torn /\ t.active => t.poisoned)

\* Within a logical session no transaction id is used twice, whichever way the session was
\* opened: after the close and second OpenSession, and after the vendor code query, the
\* counter of the channel is past the ids that establishment used.
IdsAreFresh == ~t.reused /\ (t.active => \A id \in t.used : id < t.next)

\* One open asks the network at most twice, the second time only the camera that answered
\* the first time; only a callback that came from the camera it names is acknowledged.
OneCameraIsAsked ==
  /\ t.rounds <= 2 /\ \A a, b \in t.acked : a = b
  /\ \A a \in t.acked : a[1] = a[2] /\ (cfg.camera # 0 => a[2] = cfg.camera)

\* The command connection that open_command_session and its recovery leave is sound: what
\* they wrote, and to whom, is what one camera expects on one connection.
ConnectionIsSound == TornIsLast /\ IdsAreFresh /\ OneCameraIsAsked

Of(q, c) == Cardinality({i \in DOMAIN q : q[i] = c})

\* Every frame read from the event channel, by whichever of next_event_frame and
\* probe_event_channel, is handed out once, still retained or was dropped; a call drops at
\* most one frame, the last it reads, and never one that was retained, and it fails when it
\* does, so that its caller knows.
EventsAreKept ==
  /\ \A c \in EventCodes \cup {ProbeReply} :
       Of(t.got, c) = Of(t.given, c) + Of(t.retained, c) + Of(t.lost, c)
  /\ last.dropped <= 1 /\ (last.dropped = 1 => last.class = "protocol")

\* The chunks that trace_stream_bytes records tile the frames of the stream: it is inside
\* a frame exactly when it has recorded a part of one.
StreamIsTiled ==
  ~t.stream.cut => IF t.stream.remaining = -1 THEN t.stream.traced = 0
                   ELSE (t.stream.traced + t.stream.remaining) % StreamFrame = 0

\* What the camera sends on its own account is accounted for: the frames of the event
\* channel by its two readers, and the bytes of a stream by the trace.
NothingReadIsLost == EventsAreKept /\ StreamIsTiled
=============================================================================
