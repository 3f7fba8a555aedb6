------------------------------ MODULE ServerBind ------------------------------
(***************************************************************************)
(* How the service starts: main.rs, Server::bind, its helpers and          *)
(* apply_startup_state in services/camera-sim-service/src/lib.rs, and the  *)
(* staging of a state overlay in crates/camera-sim/src/state_overlay.rs.   *)
(*                                                                         *)
(* A start reads a manifest and a configuration, checks one against the    *)
(* other, opens the observation bundle, binds its sockets one by one,      *)
(* applies the startup state and runs.  Any step may fail, and the process *)
(* may be started again over what the earlier start left on disk.  An      *)
(* optional value is a sequence of at most one.                            *)
(***************************************************************************)
EXTENDS Integers, Sequences, FiniteSets, SequencesExt

CONSTANTS Manifests,  \* the selected connection, as each manifest declares it
          Configs,    \* command lines
          Overlays,   \* startup states, <<>> for none
          Kinds,      \* property type -> least and greatest value
          MaxStarts   \* how often the process is started

StartAssumption == MaxStarts \in Nat /\ \A k \in DOMAIN Kinds : Kinds[k].least <= Kinds[k].most

VARIABLES start,   \* what this start was given, its step and the error that ended it
          held,    \* sockets held: role, address and whether it listens
          bundle,  \* the observation bundle on disk: the camera its header names and whether
                   \* every line of it is whole, <<>> when there is none
          state,   \* properties and phase of the engine
          starts   \* starts so far

vars == <<start, held, bundle, state, starts>>

-----------------------------------------------------------------------------
\* Checking the configuration against the manifest.

\* camera-sim-service/lib.rs:1013-1019
SupportedShapes == {<<"app82", "compressed">>, <<"pcssKnock", "compressed">>, <<"legacyApp82", "usb">>,
                    <<"standardPtpIp", "standard">>}

\* The address of a role: its override, or its port on every interface.
role_bind(override, port) ==
  CASE override # <<>> -> override
    [] override = <<>> /\ port # <<>> -> <<[host |-> "any", port |-> port[1]]>>
    [] OTHER -> <<>>
\* camera-sim-service/lib.rs:3374-3376
NeedlessOverride(override, port) == override # <<>> /\ port = <<>>

\* What Server::bind refuses before it opens anything, in its order.
Complaints(m, c) ==
  <<[of |-> ~ m.schemaSupported, is |-> "schema"],
    [of |-> ~ m.selected, is |-> "connection"],
    [of |-> <<m.shape, m.framing>> \notin SupportedShapes, is |-> "shape"],
    [of |-> m.guid = "unusable" \/ (m.shape = "legacyApp82" /\ m.guid = "none"), is |-> "guid"],
    [of |-> m.ports.event # <<>> /\ m.eventFraming \notin {"standard", "usb"}, is |-> "eventFraming"],
    [of |-> c.fails > 0 /\ (m.retries = <<>> \/ c.fails > m.retries[1]), is |-> "retries"],
    [of |-> NeedlessOverride(c.command, m.ports.command) \/ m.ports.command = <<>>, is |-> "command"],
    [of |-> NeedlessOverride(c.event, m.ports.event), is |-> "event"],
    [of |-> NeedlessOverride(c.liveview, m.ports.liveview), is |-> "liveview"],
    [of |-> c.knock # <<>> /\ ~ m.knock, is |-> "knock"]>>
Complaint(m, c) ==
  LET raised == SelectSeq(Complaints(m, c), LAMBDA x : x.of)
  IN  IF raised = <<>> THEN "" ELSE raised[1].is

Command(m, c) == role_bind(c.command, m.ports.command)  \* camera-sim-service/lib.rs:1090-1102
\* camera-sim-service/lib.rs:1103-1105
SharesPort(m, c) == m.ports.event = m.ports.command /\ m.ports.event # <<>> /\ c.event = <<>>
\* camera-sim-service/lib.rs:1106-1114
EventAddr(m, c) == IF SharesPort(m, c) THEN Command(m, c) ELSE role_bind(c.event, m.ports.event)

\* Variant in which two overrides with a port of the system's choosing count as one.
SharesAnyOverride(m, c) ==
  m.shape = "standardPtpIp" /\ (SharesPort(m, c) \/ (c.command # <<>> /\ c.command = c.event))

\* A standard connection serves events on the command listener when both have one address.
shared_standard_event_listener(m, c) ==
  /\ m.shape = "standardPtpIp"
  /\ \/ SharesPort(m, c)
     \/ c.command # <<>> /\ c.command = c.event /\ c.command[1].port # 0

-----------------------------------------------------------------------------
\* The startup state.

\* The value of a property, or none: a number, which a text may spell, must fit the
\* property's type; a property without one is a u16.
prop_value_from_json(prop, value) ==
  LET kind == IF prop.type = "" THEN "u16" ELSE prop.type
  IN  IF kind = "str" THEN {[kind |-> "str", number |-> 0] : t \in {TRUE} \cap {value.text}}
      ELSE {[kind |-> kind, number |-> n] :
              n \in {i \in value.number : /\ kind \in DOMAIN Kinds
                                         /\ i \in Kinds[kind].least .. Kinds[kind].most}}

validate_context(o) == o.schema \in {"", "startup", "overlay"} /\ o.profileFits /\ o.connectionFits

\* Everything is staged, so nothing is applied unless all of it can be.
StagedOverlay(m, o) ==
  /\ o.phase \in {"", "idle", "streaming"}
  /\ \A p \in DOMAIN o.props : p \in DOMAIN m.props /\ prop_value_from_json(m.props[p], o.props[p]) # {}

Fresh == [phase |-> "idle", props |-> [p \in {} |-> [kind |-> "str", number |-> 0]]]

Staged(m, o, p) == CHOOSE v \in prop_value_from_json(m.props[p], o.props[p]) : TRUE  \* state_overlay.rs:128-135

\* Variant in which the properties that fit are kept though another does not.
AppliesSome(m, o) ==
  [phase |-> IF o.phase = "" THEN Fresh.phase ELSE o.phase,
   props |-> [p \in {p \in DOMAIN o.props \cap DOMAIN m.props :
                       prop_value_from_json(m.props[p], o.props[p]) # {}} |-> Staged(m, o, p)]]

apply_overlay(m, o) ==  \* state_overlay.rs:82-106
  IF ~ validate_context(o) \/ ~ StagedOverlay(m, o) THEN Fresh
  ELSE [phase |-> IF o.phase = "" THEN Fresh.phase ELSE o.phase,
        props |-> [p \in DOMAIN o.props |-> Staged(m, o, p)]]

-----------------------------------------------------------------------------
\* Starting.

NotStarted == [step |-> "out", manifest |-> {}, config |-> {}, overlay |-> <<>>, error |-> ""]
M == CHOOSE m \in start.manifest : TRUE
C == CHOOSE c \in start.config : TRUE

Init == start = NotStarted /\ held = {} /\ bundle = <<>> /\ state = Fresh /\ starts = 0

\* The process gives up: whatever it holds is dropped with it.
Fails(error) == start' = [start EXCEPT !.step = "failed", !.error = error] /\ held' = {}
Goes(step) == start' = [start EXCEPT !.step = step]

main ==
  /\ start.step = "out" /\ starts < MaxStarts /\ starts' = starts + 1
  /\ \E m \in Manifests, c \in Configs, o \in Overlays :
       start' = [step |-> "check", manifest |-> {m}, config |-> {c}, overlay |-> o, error |-> ""]
  /\ state' = Fresh /\ UNCHANGED <<held, bundle>>

\* Files that cannot be read, then the first complaint; nothing has been opened yet.
CheckConfig ==  \* camera-sim-service/lib.rs:1121-1137
  /\ start.step = "check"
  /\ \/ Complaint(M, C) # "" /\ Fails(Complaint(M, C))
     \/ Complaint(M, C) = "" /\ Goes("recorder") /\ UNCHANGED held
     \/ Fails("unreadable")
  /\ UNCHANGED <<bundle, state, starts>>

Bundle(camera, whole) == <<[camera |-> camera, whole |-> whole]>>

\* A new bundle gets its header; a failure leaves nothing, a part of it, or all of it.
write_new ==
  /\ bundle = <<>>
  /\ \/ bundle' = Bundle(M.camera, TRUE) /\ Goes("queue") /\ UNCHANGED held
     \/ bundle' \in {<<>>, Bundle(M.camera, FALSE), Bundle(M.camera, TRUE)} /\ Fails("write")

\* Variant that takes up a bundle by its header alone.
LoadsAnyLines ==
  /\ bundle # <<>> /\ UNCHANGED bundle
  /\ \/ bundle[1].camera = M.camera /\ Goes("queue") /\ UNCHANGED held
     \/ bundle[1].camera # M.camera /\ Fails("refused")
     \/ Fails("read")

\* An existing bundle is taken up when it is this camera's and whole; reading it may fail.
load_existing ==
  /\ bundle # <<>> /\ UNCHANGED bundle
  /\ \/ bundle = Bundle(M.camera, TRUE) /\ Goes("queue") /\ UNCHANGED held
     \/ bundle # Bundle(M.camera, TRUE) /\ Fails("refused")
     \/ Fails("read")

observation_recorder ==
  /\ start.step = "recorder"
  /\ write_new \/ load_existing
  /\ UNCHANGED <<state, starts>>

\* The object queue and the live-view frames.
ConfigureEngine ==  \* camera-sim-service/lib.rs:1138-1147
  /\ start.step = "queue"
  /\ IF C.enqueue > 0 /\ ~ M.enumerates THEN Fails("queue")
     ELSE \/ Goes("command") /\ UNCHANGED held
          \/ Fails("frames")
  /\ UNCHANGED <<bundle, state, starts>>

Overlaps(a, b) == a.port = b.port /\ a.port # 0 /\ (a.host = b.host \/ "any" \in {a.host, b.host})
Taken(role, addr) == \E s \in held : s.listens /\ s.role # "knock" /\ role # "knock" /\ Overlaps(s.addr, addr)

\* One socket: nothing to bind, an address this process or another one listens on, or bound.
BindRole(role, addr, listens, next) ==
  /\ start.step = role
  /\ \/ addr = <<>> /\ Goes(next) /\ UNCHANGED held
     \/ addr # <<>> /\ Fails("inUse")
     \/ /\ addr # <<>> /\ ~ Taken(role, addr[1]) /\ Goes(next)
        /\ held' = held \cup {[role |-> role, addr |-> addr[1], listens |-> listens]}
  /\ UNCHANGED <<bundle, state, starts>>

\* camera-sim-service/lib.rs:1148
BindCommand == start.step = "command" /\ BindRole("command", Command(M, C), TRUE, "liveview")
BindLiveView ==  \* camera-sim-service/lib.rs:1149-1152
  start.step = "liveview" /\ BindRole("liveview", role_bind(C.liveview, M.ports.liveview), ~ M.declared.liveview, "event")
BindEvent ==  \* camera-sim-service/lib.rs:1153-1156
  /\ start.step = "event"
  /\ BindRole("event", IF shared_standard_event_listener(M, C) THEN <<>> ELSE EventAddr(M, C),
              ~ M.declared.event, "knock")
\* camera-sim-service/lib.rs:1157-1160
BindKnock == start.step = "knock" /\ BindRole("knock", C.knock, FALSE, "control")
BindControl == start.step = "control" /\ BindRole("control", <<C.control>>, TRUE, "startup")

\* A startup state is applied to the engine before anything is served.
apply_startup_state ==
  /\ start.step = "startup"
  /\ IF start.overlay = <<>> THEN Goes("running") /\ UNCHANGED <<held, state>>
     ELSE /\ state' = apply_overlay(M, start.overlay[1])
          /\ IF validate_context(start.overlay[1]) /\ StagedOverlay(M, start.overlay[1])
             THEN Goes("running") /\ UNCHANGED held ELSE Fails("overlay")
  /\ UNCHANGED <<bundle, starts>>

\* A running or failed process ends; its bundle stays, its last line cut when the process
\* was appending to it.
Ends ==
  /\ start.step \in {"running", "failed"} /\ start' = NotStarted /\ held' = {} /\ state' = Fresh
  /\ \/ UNCHANGED bundle
     \/ start.step = "running" /\ bundle' = Bundle(M.camera, FALSE)
  /\ UNCHANGED starts

Next == main \/ CheckConfig \/ observation_recorder \/ ConfigureEngine \/ BindCommand \/ BindLiveView
        \/ BindEvent \/ BindKnock \/ BindControl \/ apply_startup_state \/ Ends

Spec == Init /\ [][Next]_vars

-----------------------------------------------------------------------------
\* Properties.

\* Steps are known and a role has one socket.
TypeOK ==
  /\ start.step \in {"out", "check", "recorder", "queue", "command", "liveview", "event", "knock",
                     "control", "startup", "running", "failed"}
  /\ \A s, t \in held : s.role = t.role => s = t
  /\ starts \in 0..MaxStarts

Held(role) == {s \in held : s.role = role}

\* A server that runs serves every role its manifest declares, events on a socket of their
\* own or on the command listener but not both, and only as the manifest allows
\* (Server::bind; run relies on it).
RunningIsServable ==
  start.step = "running" =>
    /\ <<M.shape, M.framing>> \in SupportedShapes /\ (M.shape = "legacyApp82" => M.guid = "fixed")
    /\ Held("command") # {} /\ Held("control") # {}
    /\ (Held("liveview") # {} <=> M.ports.liveview # <<>>)
    /\ (M.ports.event # <<>> <=> Held("event") # {} \/ shared_standard_event_listener(M, C))
    /\ ~ (Held("event") # {} /\ shared_standard_event_listener(M, C))
    /\ (Held("knock") # {} => M.knock) /\ (C.fails > 0 => C.fails <= M.retries[1])
    /\ \A o \in {C.command, C.event, C.liveview} :
         o # <<>> => \E s \in held : s.addr = o[1]

\* No two sockets listen on one address.  A declared channel may be bound, without
\* listening, to the address of a later listener: it is then refused when it opens
\* (bind_declared_socket).
NothingListensTwice ==
  \A s, t \in held : s # t /\ s.listens /\ t.listens => ~ Overlaps(s.addr, t.addr)

\* With two overrides of the system's choosing the event role keeps a port of its own.
OwnPortIsKept ==
  start.step = "running" /\ C.event # <<>> /\ C.event[1].port = 0 => Held("event") # {}

\* A start that fails holds nothing and leaves the state as it was.
FailureIsClean ==
  /\ start.step \in {"failed", "out"} => held = {}
  /\ start.step = "failed" => state = Fresh

Recording == start.step \notin {"out", "check", "recorder", "failed"}

\* A start never takes up a bundle of another camera or one with a line that is cut, whatever
\* the starts before it left: a header that a failed start did not finish, or a record that
\* a process did not (ObservationRecorder::open fails closed).  After such an end no start
\* succeeds until the file is removed.  A line that lacks only its newline counts as whole:
\* InitiatorTrace shows what becomes of it.
BundleIsWhole == Recording => bundle = Bundle(M.camera, TRUE)

\* A startup state is applied whole or not at all, each value within its type
\* (StagedOverlay).
StartupIsWhole ==
  start.step = "running" /\ start.overlay # <<>> =>
    /\ DOMAIN state.props = DOMAIN start.overlay[1].props
    /\ \A p \in DOMAIN state.props :
         state.props[p] \in prop_value_from_json(M.props[p], start.overlay[1].props[p])

\* What starting promises.
StartIsSound ==
  /\ RunningIsServable /\ NothingListensTwice /\ OwnPortIsKept
  /\ FailureIsClean /\ BundleIsWhole /\ StartupIsWhole
===============================================================================
