------------------------------- MODULE MCClients -------------------------------
(*****************************************************************************)
(* The programs around the simulated camera's channels, for TLC: the plan    *)
(* executors and the transports of a client, the initiator and its trace,    *)
(* the reference walkers, discovery, the operator console, the review of     *)
(* observations, the load of a configuration, and the engine's properties,   *)
(* its card, the control server and the start of the service.                *)
(* They share no state: a behaviour picks one of them, and the variables     *)
(* v1 to v8 are the state of the one that is picked.                         *)
(*****************************************************************************)
EXTENDS Integers, Sequences, TLC

CONSTANT BcNothing  \* an absent optional value of the BLE walker

VARIABLES part, v1, v2, v3, v4, v5, v6, v7, v8

(* PtpTransaction *************************************************************)

Tx == INSTANCE PtpTransaction WITH
  Sizes <- {0, 1, 2, 3}, Cap <- 2, MaxFrames <- 4, MaxId <- 2,
  seam <- v1, tx <- v2, outputs <- v3, log <- v4

ASSUME TxConstants == Tx!TransactionAssumption

(* PtpExecutor ****************************************************************)

PtpPlan == INSTANCE PtpExecutor WITH
  Calls <- {}, Codes <- {}, Numbers <- {}, MaxReplies <- {}, MaxIters <- {}, MaxParam <- {},
  call <- v1, phase <- v2, next <- v3, ctx <- v4

\* The plans: each exercises some verbs of the grammar, nested in one another.
Plan(steps, activities) ==
  [found |-> TRUE, kind |-> "ptp", role |-> "initiator", steps |-> steps, activities |-> activities]
Capture(source, bind, fallback) == [source |-> source, bind |-> bind, fallback |-> fallback]
Write(tolerant) == [PtpPlan!EntryStep EXCEPT !.verb = "setProp", !.tolerant = tolerant]
Read(shape, captures, tolerant) ==
  [PtpPlan!EntryStep EXCEPT !.verb = "getProp", !.prop = "p", !.shape = shape,
                         !.captures = captures, !.tolerant = tolerant]
Operate(captures, params, tolerant) ==
  [PtpPlan!EntryStep EXCEPT !.verb = "sendOp", !.captures = captures, !.params = params,
                         !.tolerant = tolerant, !.repeat = 2]
Await(event, prop, steps, captures) ==
  [PtpPlan!EntryStep EXCEPT !.verb = "awaitUntil", !.event = event, !.prop = prop, !.steps = steps,
                         !.captures = captures, !.until = [prop |-> "p", value |-> 3]]
Again(steps, fallback, delay) ==
  [PtpPlan!EntryStep EXCEPT !.verb = "retry", !.steps = steps, !.fallback = fallback,
                         !.codes = {"busy"}, !.decode = TRUE, !.limit = 2, !.delay = delay]
Each(slot, steps, tolerant) ==
  [PtpPlan!EntryStep EXCEPT !.verb = "loop", !.slot = slot, !.bind = "item", !.steps = steps,
                         !.tolerant = tolerant]
Chunks(steps) ==
  [PtpPlan!EntryStep EXCEPT !.verb = "loop", !.over = "chunk", !.slot = "total", !.size = "window",
                         !.bind = "offset", !.steps = steps]
Branch(slot, steps, else) ==
  [PtpPlan!EntryStep EXCEPT !.verb = "if", !.slot = slot, !.equals = 3, !.steps = steps, !.else = else]
Verb(verb, tolerant) == [PtpPlan!EntryStep EXCEPT !.verb = verb, !.tolerant = tolerant, !.prop = "p"]
Runtime(shape, slot, skips) ==
  [PtpPlan!EntryStep EXCEPT !.verb = "setPropRuntime", !.shape = shape, !.slot = slot, !.skips = skips]

Total == Capture("u32", "total", {})
Plans ==
  <<Plan(<<Write(TRUE), Read("number", <<Capture("value", "v", {"busy"})>>, FALSE),
           Branch("v", <<Write(FALSE)>>, <<Verb("readEcho", FALSE)>>)>>,
         <<[first |-> 1, last |-> 1], [first |-> 2, last |-> 9], [first |-> 3, last |-> 3]>>),
    Plan(<<Again(<<Read("stream", <<>>, FALSE)>>, <<Operate(<<Capture("array", "h", {})>>, <<>>, TRUE)>>, TRUE)>>,
         <<[first |-> 1, last |-> 1]>>),
    Plan(<<Again(<<Read("string", <<Capture("array", "h", {})>>, FALSE)>>, <<>>, FALSE),
           Each("h", <<Write(FALSE), Runtime("string", "name", FALSE)>>, TRUE)>>, <<>>),
    Plan(<<Await(FALSE, "p", <<Write(TRUE)>>, <<Capture("value", "v", {})>>)>>, <<[first |-> 1, last |-> 1]>>),
    Plan(<<Await(TRUE, "p", <<>>, <<>>), Await(TRUE, "none", <<>>, <<>>)>>, <<>>),
    Plan(<<Verb("openChannel", FALSE), Verb("closeSession", TRUE), Verb("reopenSession", TRUE)>>, <<>>),
    Plan(<<Operate(<<Total>>, <<[slot |-> "window", shift |-> 1, mask |-> 1]>>, FALSE),
           Chunks(<<Operate(<<>>, <<[slot |-> "offset", shift |-> 0, mask |-> 0]>>, TRUE)>>)>>, <<>>),
    Plan(<<Again(<<Write(FALSE)>>, <<Operate(<<Capture("id", "t", {})>>, <<>>, FALSE)>>, FALSE)>>, <<>>),
    Plan(<<Again(<<Await(FALSE, "p", <<Each("none", <<>>, FALSE)>>, <<>>)>>, <<>>, FALSE),
           Runtime("number", "none", TRUE), Read("blob", <<>>, FALSE)>>, <<>>),
    Plan(<<Again(<<Read("number", <<Capture("value", "v", {})>>, TRUE), Write(FALSE)>>, <<>>, FALSE)>>, <<>>)>>

Seam(frames, ownership, events) ==
  [known |-> TRUE, frames |-> frames, ownership |-> ownership, events |-> events, framing |-> "standard"]
Owned == Seam(TRUE, "initiator", "reliable")
Refused(plan) ==
  {[entry |-> "exit", plan |-> plan, seam |-> Owned, params |-> <<>>],
   [entry |-> "mode", plan |-> plan, seam |-> Seam(FALSE, "initiator", "reliable"), params |-> <<>>],
   [entry |-> "mode", plan |-> plan, seam |-> Seam(TRUE, "daemon", "reliable"), params |-> <<>>],
   [entry |-> "mode", plan |-> plan, seam |-> [Owned EXCEPT !.framing = "none"], params |-> <<>>]}
CallsOf(plan) ==
  [entry : {"mode", "action"}, plan : {plan},
   seam : {Owned, Seam(TRUE, "none", "bestEffort"), Seam(FALSE, "daemon", "bestEffort")},
   params : {[window |-> 2, name |-> -1], [window |-> 1, item |-> 3]}]
PtpCalls == UNION {CallsOf(Plans[i]) \cup Refused(Plans[i]) : i \in DOMAIN Plans}

Ptp == INSTANCE PtpExecutor WITH
  Calls <- PtpCalls, Codes <- {"busy", "refused"}, Numbers <- {0, 2, 3},
  MaxReplies <- 6, MaxIters <- 2, MaxParam <- 3,
  call <- v1, phase <- v2, next <- v3, ctx <- v4

ASSUME PtpConstants == Ptp!ExecutorAssumption

(* BleExecutor ****************************************************************)

BleX0 == INSTANCE BleExecutor WITH
  Calls <- {}, Values <- {}, MaxReplies <- {}, call <- v1, phase <- v2, next <- v3, plan <- v4,
  ctx <- v5

BStep == BleX0!Step
BVerb(verb, tolerant) == [BStep EXCEPT !.verb = verb, !.tolerant = tolerant]
BRead(slot, tolerant, retries) ==
  [BStep EXCEPT !.verb = "read", !.slot = slot, !.tolerant = tolerant, !.retries = retries, !.delay = TRUE]
BAwait(source, fail, evidence, steps) ==
  [BStep EXCEPT !.verb = "await", !.source = source, !.fields = {"x"}, !.slot = "w",
                !.cond = [slot |-> "x", op |-> "gte", than |-> 2], !.fail = fail,
                !.when = [slot |-> "e", op |-> "ne", than |-> 0], !.evidence = evidence, !.steps = steps,
                !.confirms = TRUE]
BRetry(kind, steps, else, tolerant) ==
  [BStep EXCEPT !.verb = "retry", !.kind = kind, !.steps = steps, !.else = else, !.limit = 2,
                !.cond = [slot |-> "r", op |-> "lt", than |-> 2], !.delay = TRUE, !.tolerant = tolerant]
BIf(slot, steps, else, tolerant) ==
  [BStep EXCEPT !.verb = "if", !.steps = steps, !.else = else, !.tolerant = tolerant,
                !.cond = [slot |-> slot, op |-> "in", than |-> {1, 2}]]
BFirmware(source) == [BStep EXCEPT !.verb = "firmware", !.source = source]
BWrite(from, slot) == [BStep EXCEPT !.verb = "write", !.value = [from |-> from, slot |-> slot]]
BNotify(accept) == [BStep EXCEPT !.verb = "notify", !.accept = accept, !.slot = "n", !.fields = {"x"},
                                 !.cond = [slot |-> "none", op |-> "eq", than |-> 1]]
BUsb(verb, slot, tolerant) == [BStep EXCEPT !.verb = verb, !.slot = slot, !.tolerant = tolerant]
BSpan(id, first, last) == [id |-> id, sequence |-> "steps", first |-> first, last |-> last]
BGate(id, first, last) == [id |-> id, sequence |-> "readiness", first |-> first, last |-> last]
BPlan(steps, activities) == [steps |-> steps, readiness |-> steps, activities |-> activities]
Rejected == <<[slot |-> "x", op |-> "eq", than |-> 0]>>
BTail == <<[steps |-> <<BVerb("connect", FALSE), BWrite("captured", "firmware")>>,
            activities |-> <<BSpan("a", 0, 1), BSpan("b", 1, 2)>>]>>
BShort == <<[BTail[1] EXCEPT !.activities = <<BSpan("a", 0, 1)>>]>>
BAuth(slot) == [BStep EXCEPT !.verb = "authenticate", !.value = [from |-> "runtime", slot |-> slot], !.tolerant = TRUE]
BConf == [BStep EXCEPT !.verb = "configuration", !.slot = "flags", !.fields = {"ssid"}]

BPlans ==
  <<BPlan(<<BVerb("connect", TRUE), BFirmware("read"), BVerb("discover", FALSE)>>,
          <<BSpan("a", 0, 2), BSpan("c", 2, 3), BGate("g", 0, 2)>>),
    BPlan(<<BIf("x", <<BFirmware("advert")>>, <<BFirmware("read")>>, TRUE), BVerb("delay", FALSE)>>,
          <<BSpan("c", 0, 1), BGate("g", 0, 1)>>),
    BPlan(<<BAwait("read", Rejected, <<BRead("e", TRUE, 0)>>, <<BWrite("template", "w")>>)>>, <<BSpan("a", 0, 1)>>),
    BPlan(<<BRetry("deadline", <<BAwait("notify", Rejected, <<>>, <<BRead("y", TRUE, 1)>>)>>,
                   <<BRead("r", TRUE, 0)>>, TRUE)>>, <<BSpan("a", 0, 1)>>),
    BPlan(<<BRetry("rejected", <<BVerb("mtu", FALSE), BAwait("notify", Rejected, <<>>, <<>>)>>,
                   <<BRead("r", FALSE, 1)>>, FALSE)>>, <<BSpan("a", 0, 1)>>),
    BPlan(<<BAuth("id"), [BConf EXCEPT !.tolerant = TRUE], BAuth("other"), BConf>>, <<>>),
    BPlan(<<[BVerb("acquire", TRUE) EXCEPT !.slot = "z", !.steps = <<BNotify("equals")>>],
            [BVerb("acquire", FALSE) EXCEPT !.slot = "z", !.steps = <<BNotify("matches")>>],
            [BVerb("chunk", TRUE) EXCEPT !.value = [from |-> "runtime", slot |-> "id"], !.limit = 2,
                                         !.cond = [slot |-> "z", op |-> "eq", than |-> 0]]>>, <<>>),
    BPlan(<<BVerb("subscribe", FALSE), BNotify("any"), BNotify("bad")>>, <<>>),
    BPlan(<<BUsb("claim", "i", FALSE), [BUsb("bulkOut", "none", TRUE) EXCEPT !.retries = 1],
            BUsb("bulkIn", "k", FALSE), BUsb("interrupt", "k", TRUE), BRead("x", FALSE, 0)>>, <<BSpan("u", 0, 4)>>),
    BPlan(<<BUsb("claim", "undeclared", TRUE), BIf("q", <<>>, <<>>, FALSE)>>, <<>>)>>

BHandle == [formed |-> TRUE, index |-> TRUE, body |-> TRUE, connection |-> "named", listed |-> TRUE,
            mechanisms |-> {"ble", "usb"}, action |-> TRUE]
BHandles == {BHandle, [BHandle EXCEPT !.connection = "bare", !.action = FALSE], [BHandle EXCEPT !.mechanisms = {}]}
BCalls ==
  [entry : {"establish"}, transport : {"ble", "usb"}, handle : BHandles, plan : {BPlans[i] : i \in DOMAIN BPlans},
   scope : {<<>>, [x |-> 1, advertisement |-> 2, e |-> 1]}, params : {[id |-> 1, other |-> -1]},
   refine : {(0 :> BTail) @@ (1 :> <<>>) @@ (2 :> BShort)}, interfaces : {{"i"}}]
  \cup
  [entry : {"readiness", "action"}, transport : {"ble"}, handle : BHandles, plan : {BPlans[i] : i \in {1, 2, 4}},
   scope : {<<>>}, params : {<<>>}, refine : {<<>>}, interfaces : {{}}]

Ble == INSTANCE BleExecutor WITH
  Calls <- BCalls, Values <- {0, 1, 2}, MaxReplies <- 7,
  call <- v1, phase <- v2, next <- v3, plan <- v4, ctx <- v5

ASSUME BleConstants == Ble!BleAssumption

(* StreamingExecutor **********************************************************)

Stream0 == INSTANCE StreamingExecutor WITH
  Requests <- {}, Declared <- {}, Responses <- {}, Expected <- {}, ChunkBytes <- {},
  MaxOps <- {}, op <- v1, stream <- v2, host <- v3, sink <- v4

StreamRequests == {{}} \cup {{Stream0!Checks[i]} : i \in 1..Len(Stream0!Checks)}
StreamExpected == {-1, 8}

Streaming == INSTANCE StreamingExecutor WITH
  Requests <- StreamRequests, Declared <- {8, 12, 20, 32}, Responses <- {8, 12, 16, 14, 36},
  Expected <- StreamExpected, ChunkBytes <- 8, MaxOps <- 2,
  op <- v1, stream <- v2, host <- v3, sink <- v4

ASSUME StreamingConstants == Streaming!StreamingAssumption

(* NativeTransport ************************************************************)

NBase == [known |-> TRUE, framed |-> TRUE, shape |-> "app82", command |-> TRUE, camera |-> 1, interface |-> "none",
  nameFits |-> TRUE, interfaces |-> {}, attempts |-> 2, targets |-> {}, target |-> "none", retryUnicast |-> FALSE,
  identity |-> TRUE, retryReasons |-> {"busy"}, maxRetries |-> 1, eventPort |-> TRUE, livePort |-> TRUE,
  eventFraming |-> "compact", closes |-> TRUE]
NEth == [name |-> "eth0", preferred |-> TRUE, loopback |-> FALSE, broadcast |-> FALSE, hostBits |-> 8]
NPcss == [NBase EXCEPT !.shape = "pcssKnock", !.camera = 0, !.interfaces = {NEth}, !.targets = {"subnetBroadcast", "explicitUnicast"},
   !.target = "subnetBroadcast", !.retryUnicast = TRUE, !.eventPort = FALSE, !.livePort = FALSE]
NConfigs == {NBase, [NBase EXCEPT !.nameFits = FALSE], [NBase EXCEPT !.shape = "legacyApp82", !.closes = FALSE, !.maxRetries = 0, !.eventPort = FALSE],
  [NBase EXCEPT !.shape = "standardPtpIp", !.closes = FALSE], NPcss, [NPcss EXCEPT !.camera = 1], [NPcss EXCEPT !.interfaces = {[NEth EXCEPT !.hostBits = 1]}],
  [NPcss EXCEPT !.retryUnicast = FALSE, !.interface = "eth0"],
  [NBase EXCEPT !.camera = 0], [NBase EXCEPT !.interface = "eth0"], [NBase EXCEPT !.shape = "other"]}

Native == INSTANCE NativeTransport WITH
  Configs <- NConfigs, Cameras <- {1, 2}, EventCodes <- {"a", "b"}, DataSizes <- {4, 8},
  MaxFrame <- 8, EventLimit <- 1, MaxCallbacks <- 1, MaxPackets <- 2, StreamFrame <- 12,
  ChunkSizes <- {0, 14}, MaxCalls <- 4,
  cfg <- v1, phase <- v2, t <- v3, calls <- v4, last <- v5

ASSUME NativeConstants == Native!NativeAssumption

(* InitiatorSession ***********************************************************)

Session0 == INSTANCE InitiatorSession WITH
  Plans <- {}, Edges <- {}, Actions <- {}, Outcomes <- {}, plan <- v1, phase <- v2, at <- v3,
  run <- v4, report <- v5, fs <- v6

St(k,i,f,t,a) == [Session0!SessionStep EXCEPT !.kind=k, !.id=i, !.from=f, !.to=t, !.action=a]
En(i,f,t) == St("entry",i,f,t,"none")
Ac(i,a) == St("action",i,"none","none",a)
Sw(i,f,t) == St("switch",i,f,t,"none")
Pl(s) == [schema |-> TRUE, steps |-> s, path |-> "p", observation |-> "o", trace |-> "-"]
E1 == [Session0!NoExpectation EXCEPT !.steps = 1, !.scope = ("k" :> 1)]
E2 == [Session0!NoExpectation EXCEPT !.count = 1, !.outs = <<[index |-> 0, bytes |-> 1]>>]
SePlans == { Pl(<<>>), [Pl(<<Ac("a","ping")>>) EXCEPT !.schema = FALSE],
  Pl(<<En("a","none","view"), Ac("b","startLiveView"), Ac("c","ping"), Ac("d","stopLiveView"), Ac("e","ping")>>),
  Pl(<<En("a","none","view"), Ac("b","startLiveView"), En("c","view","photo"), Ac("d","stopLiveView")>>),
  Pl(<<[En("a","none","photo") EXCEPT !.expect = E1], [Ac("b","read") EXCEPT !.params = ("h" :> "u32"), !.bytes = 1, !.expect = E2]>>),
  Pl(<<En("a","none","photo"), [Ac("b","read") EXCEPT !.params = ("h" :> "u64")]>>),
  Pl(<<En("a","none","photo"), Ac("b","read")>>),
  Pl(<<[Sw("a","view","photo") EXCEPT !.source = E1, !.exit = E2, !.names = TRUE], En("b","photo","view"), Ac("c","startLiveView")>>),
  Pl(<<En("a","none","view"), Ac("b","startLiveView"), Sw("c","view","photo"), En("d","photo","view"), Sw("e","view","photo")>>),
  Pl(<<En("a","none","view"), [Sw("c","view","photo") EXCEPT !.names = TRUE]>>),
  Pl(<<En("a","view","photo")>>), Pl(<<En("a","none","view"), En("b","none","view")>>),
  Pl(<<Ac("a","ping"), Ac("a","ping")>>), Pl(<<Ac("a","shoot")>>), Pl(<<Ac("a","odd")>>), Pl(<<[Ac("a","ping") EXCEPT !.bytes = 1]>>),
  Pl(<<[Ac("a","ping") EXCEPT !.expect = [E2 EXCEPT !.count = 0]]>>), [Pl(<<Ac("a","ping")>>) EXCEPT !.trace = "p"]}
SeEdges == {[from |-> "none", to |-> "view", kind |-> "ptp"], [from |-> "none", to |-> "photo", kind |-> "ptp"],
  [from |-> "photo", to |-> "view", kind |-> "ptp"], [from |-> "view", to |-> "photo", kind |-> "reestablish"], [from |-> "view", to |-> "bulb", kind |-> "user"]}
A0 == [mode |-> "none", bound |-> TRUE, params |-> <<>>, streaming |-> FALSE, single |-> TRUE, slots |-> {}]
SeActions == [ping |-> A0, startLiveView |-> [A0 EXCEPT !.mode = "view"], stopLiveView |-> [A0 EXCEPT !.mode = "view"],
  odd |-> [A0 EXCEPT !.bound = FALSE], 
  read |-> [A0 EXCEPT !.mode = "photo", !.streaming = TRUE, !.slots = {"h"}, !.params = ("h" :> [type |-> "u64", required |-> FALSE])],
  shoot |-> [A0 EXCEPT !.mode = "photo"]]
SeOutcomes == {[steps |-> 1, scope |-> ("k" :> 1), colls |-> <<>>, outs |-> <<1>>], [steps |-> 1, scope |-> ("k" :> -1), colls |-> <<>>, outs |-> <<>>]}

Session == INSTANCE InitiatorSession WITH
  Plans <- SePlans, Edges <- SeEdges, Actions <- SeActions, Outcomes <- SeOutcomes,
  plan <- v1, phase <- v2, at <- v3, run <- v4, report <- v5, fs <- v6

(* InitiatorProbe *************************************************************)

\* Probe plans: one that exercises every part, and ones each rule of `validate' rejects.
PrOp(phase, output, accepted, retry, max, binds) ==
  [phase |-> phase, output |-> output, accepted |-> accepted, retry |-> retry, max |-> max, binds |-> binds]
PrRead(binds) == PrOp("in", "memory", {"ok"}, {}, 1, binds)
PrOps ==
  [info |-> PrRead({}), desc |-> PrOp("in", "memory", {"ok", "refused"}, {}, 1, {"propertyCode"}),
   value |-> PrRead({"propertyCode"}), catalog |-> PrRead({}), objectInfo |-> PrRead({"objectHandle"}),
   read |-> PrOp("in", "stream", {"ok"}, {"busy"}, 2, {"objectHandle"}),
   get |-> PrRead({}), put |-> PrOp("out", "discard", {"ok"}, {"busy"}, 2, {}),
   save |-> PrOp("in", "file", {"ok"}, {}, 1, {})]
PrInv(name, op, payload, out) ==
  [name |-> name, op |-> op, args |-> {}, payload |-> payload, expect |-> -1, out |-> out]
PrWrite == [baseline |-> PrInv("b", "get", -1, ""), set |-> PrInv("s", "put", 2, ""),
            verify |-> PrInv("v", "get", -1, ""), restore |-> PrInv("r", "put", -1, ""),
            verifyRestored |-> PrInv("w", "get", -1, "")]
PrBase ==
  [ops |-> PrOps, info |-> "info", desc |-> "desc", value |-> "value", catalog |-> "catalog",
   objectInfo |-> "objectInfo", read |-> "read", repetitions |-> 3, size |-> 5,
   explicit |-> <<PrInv("one", "save", -1, "a.bin"), [PrInv("two", "get", -1, "") EXCEPT !.expect = 1]>>,
   writes |-> <<PrWrite>>, compressed |-> TRUE, directoryExists |-> FALSE]
ProbePlans ==
  {PrBase,
   [PrBase EXCEPT !.explicit = <<PrInv("one", "save", -1, "probe-report.json")>>, !.writes = <<>>],
   [PrBase EXCEPT !.explicit = <<PrInv("one", "save", -1, "object-repetition-01.bin")>>, !.writes = <<>>],
   [PrBase EXCEPT !.compressed = FALSE],
   [PrBase EXCEPT !.repetitions = 2],
   [PrBase EXCEPT !.writes = <<[PrWrite EXCEPT !.set.payload = -1]>>],
   [PrBase EXCEPT !.ops.put.accepted = {"ok", "busy"}]}
ProbeProperties == {<<>>, <<1, 2>>, <<1, 1>>}
ProbeHandles == {<<>>, <<7>>, <<7, 8>>}
ProbeContents == {[size |-> 5, hash |-> 0], [size |-> 5, hash |-> 1], [size |-> 4, hash |-> 0]}

Probe == INSTANCE InitiatorProbe WITH
  Plans <- ProbePlans, Codes <- {"ok", "busy", "refused"}, Values <- {1, 2},
  Properties <- ProbeProperties, Handles <- ProbeHandles, Contents <- ProbeContents,
  plan <- v1, stage <- v2, idx <- v3, cam <- v4, run <- v5, report <- v6, files <- v7,
  hist <- v8

(* InitiatorCli ***************************************************************)

\* Command lines: the useful ones, and ones the preflight refuses.
ClBase == [kind |-> "action", action |-> "a", then |-> <<>>, wholeObject |-> "getObject", payloadOut |-> FALSE,
           payloadDir |-> FALSE, expectedBytes |-> FALSE, paramsFit |-> TRUE, paramsParse |-> TRUE,
           storeLoads |-> TRUE, entryKnown |-> TRUE, checkpoint |-> TRUE, planFits |-> TRUE]
ClSeq(first, then) == [ClBase EXCEPT !.action = first, !.then = then]
CliCommands ==
  {ClBase, [ClBase EXCEPT !.payloadOut = TRUE], [ClBase EXCEPT !.payloadOut = TRUE, !.payloadDir = TRUE], [ClBase EXCEPT !.paramsFit = FALSE], [ClBase EXCEPT !.storeLoads = FALSE],
   [ClBase EXCEPT !.action = "getObject", !.payloadOut = TRUE, !.expectedBytes = TRUE],
   [ClBase EXCEPT !.action = "getObject"], [ClBase EXCEPT !.action = "getObject", !.payloadDir = TRUE, !.payloadOut = TRUE],
   ClSeq("startLiveView", <<"a", "b", "stopLiveView">>), ClSeq("startLiveView", <<"stopLiveView", "a", "stopLiveView">>),
   ClSeq("startLiveView", <<"a">>), ClSeq("a", <<"unknown">>), [ClSeq("a", <<"b">>) EXCEPT !.payloadDir = TRUE],
   [ClBase EXCEPT !.kind = "entry"], [ClBase EXCEPT !.kind = "entry", !.entryKnown = FALSE],
   [ClBase EXCEPT !.kind = "switch"], [ClBase EXCEPT !.kind = "switch", !.checkpoint = FALSE],
   [ClBase EXCEPT !.kind = "probe"], [ClBase EXCEPT !.kind = "session"], [ClBase EXCEPT !.kind = "session", !.planFits = FALSE]}

Cli == INSTANCE InitiatorCli WITH
  Commands <- CliCommands, MaxPayloads <- 2, MaxPolls <- 3,
  cli <- v1, stage <- v2, at <- v3, session <- v4, cam <- v5, locals <- v6, files <- v7,
  hist <- v8

(* InitiatorTrace *************************************************************)

Trace == INSTANCE InitiatorTrace WITH
  Runs <- {1}, Lengths <- {3}, RangeBytes <- 2, MaxInline <- 3, MaxRecorded <- 0,
  MaxRecords <- 4, MaxTid <- 1, MaxFrames <- 2, MaxCrashes <- 1, MaxFaults <- 1,
  file <- v1, rec <- v2, tr <- v3, client <- v4, hist <- v5

ASSUME TraceConstants == Trace!TraceAssumption

(* BleCamera ******************************************************************)

\* Establishment plans and cameras for the reference walker.
BcUuids == {"arm", "launch", "name", "chr", "cmd", "lss", "absent"}
BcKeys  == {"k", "v", "alias", "ok", "ssid", "flags", "firmware"}
BcUnbound == [k \in BcKeys |-> BcNothing]
BcStep == [verb |-> "delay", confirms |-> FALSE, tolerant |-> FALSE, body |-> <<>>, other |-> <<>>]
BcRead(u, k) == [gatt |-> u, captureAs |-> k, encoding |-> "u32", verb |-> "read"] @@ BcStep
BcWrite(u, v, f) == [gatt |-> u, value |-> v, fence |-> f, verb |-> "write"] @@ BcStep
BcLit(n) == [kind |-> "literal", bytes |-> <<n>>]
BcHost == [kind |-> "runtime", slot |-> "k"]
BcBack(k) == [kind |-> "captured", slot |-> k]
BcOp(v) == [verb |-> v] @@ BcStep
BcMtu(min) == [requested |-> 512, minimum |-> min, verb |-> "mtu"] @@ BcStep
BcNotify(eq) == [gatt |-> "chr", mode |-> "notify", equals |-> eq, captureAs |-> "k",
                 captures |-> <<[at |-> 0, name |-> "v", encoding |-> "u8"], [at |-> 1, name |-> "ok", encoding |-> "u8"]>>,
                 verb |-> "notify"] @@ BcStep
BcEq(f, v) == [field |-> f, op |-> "eq", value |-> v]
BcAwait(src, seed, until, fail, evid, each) ==
  [source |-> src, gatt |-> "chr", mode |-> "notify", seedRead |-> seed, captureAs |-> BcNothing,
   captures |-> <<[at |-> 0, name |-> "v", encoding |-> "u8"]>>, until |-> until, failWhen |-> fail,
   evidence |-> evid, body |-> each, verb |-> "await"] @@ BcStep
BcTolerant(s) == [s EXCEPT !.tolerant = TRUE]
BcConfirms(s) == [s EXCEPT !.confirms = TRUE]
BcOpening == <<BcOp("connect"), BcTolerant(BcMtu(300)), BcOp("discover")>>
BcEvidence == [when |-> BcEq("ok", 1), steps |-> <<BcTolerant(BcRead("chr", "ok"))>>]
BcBuffered(v) == [payload |-> <<v>>, after |-> <<>>]
BcCaused(v, n) == [payload |-> <<v>>, after |-> <<"cmd", n>>]
BcCamera == [connected |-> FALSE, discovered |-> FALSE, peer |-> TRUE, script |-> <<>>, fenced |-> [u \in BcUuids |-> 0],
             notify |-> [u \in BcUuids |-> <<>>], reads |-> [u \in BcUuids |-> IF u = "chr" THEN <<<<0>>, <<1>>, <<2>>>> ELSE <<>>],
             mtuCap |-> 247, mtuFails |-> FALSE, name |-> <<5>>, catalog |-> BcUuids \ {"absent"}]
BcQueue(q) == [BcCamera EXCEPT !.notify["chr"] = q]
BcScript(s) == [BcCamera EXCEPT !.script = s, !.reads["lss"] = <<<<1, 7>>>>]
BcW(v) == [kind |-> "write", uuid |-> "lss", value |-> <<v>>]
BcI(v) == [kind |-> "indication", uuid |-> "lss", value |-> <<v>>]
BcFence(v) == BcWrite("cmd", BcLit(v), "chr")
BcSend == [gatt |-> "cmd", source |-> "ok", index |-> "v", sentinel |-> 9, verb |-> "chunk"] @@ BcStep
BcAcquire(from) == [name |-> "alias", body |-> <<from>>, verb |-> "acquire"] @@ BcStep
BcRetry == [whenFailure |-> "rejected", retryWhen |-> BcEq("v", 1), maxAttempts |-> 2,
            body |-> <<BcAwait("notify", FALSE, BcEq("v", 2), BcEq("v", 1), BcEvidence, <<>>)>>,
            other |-> <<BcFence(3)>>, verb |-> "retry"] @@ BcStep
BcIf(t) == [when |-> BcEq("alias", 1), body |-> <<BcConfirms(BcFence(1))>>, other |-> <<BcConfirms(BcOp("usb"))>>,
            verb |-> "if", tolerant |-> t] @@ BcStep
BcAuth == [gatt |-> "lss", client |-> BcHost, verb |-> "authenticate"] @@ BcStep
BcConfig == [gatt |-> "lss", verb |-> "configuration"] @@ BcStep
BcPlans ==
  {BcOpening \o p : p \in
    {<<BcWrite("name", BcHost, BcNothing), BcWrite("arm", BcLit(1), BcNothing), BcConfirms(BcWrite("launch", BcLit(1), BcNothing))>>,
     <<BcWrite("launch", BcLit(1), BcNothing), BcWrite("arm", BcLit(1), BcNothing), BcWrite("name", BcLit(8), BcNothing),
       BcWrite("launch", BcLit(1), BcNothing), BcWrite("name", BcHost, BcNothing)>>,
     <<BcWrite("launch", BcLit(1), BcNothing), BcConfirms(BcTolerant(BcWrite("absent", BcLit(1), BcNothing))), BcOp("disconnect"),
       BcOp("connect"), BcOp("discover")>>,
     <<BcFence(1), BcTolerant(BcConfirms(BcNotify(<<1>>))), BcFence(2), BcConfirms(BcTolerant(BcNotify(BcNothing))), BcFence(1), BcTolerant(BcNotify(BcNothing))>>,
     <<BcAcquire(BcTolerant(BcRead("lss", "k"))), BcTolerant(BcWrite("cmd", BcBack("alias"), BcNothing)), BcAcquire(BcRead("chr", "k")),
       BcWrite("cmd", BcBack("alias"), BcNothing), BcIf(FALSE), BcTolerant(BcIf(TRUE))>>,
     <<[captureAs |-> "k", verb |-> "peripheralName"] @@ BcStep, [gatt |-> "chr", encoding |-> "u8", verb |-> "firmware"] @@ BcStep,
       BcWrite("cmd", [kind |-> "template", slots |-> <<"k", "ok">>], BcNothing), BcTolerant(BcIf(FALSE)), BcOp("delay")>>,
     <<BcAwait("read", FALSE, BcEq("v", 2), BcNothing, BcNothing, <<BcFence(1)>>), BcSend, BcTolerant(BcSend)>>,
     <<BcFence(1), BcAwait("notify", TRUE, BcEq("v", 9), BcEq("v", 7), BcEvidence, <<BcSend>>), BcConfirms(BcSend)>>,
     <<BcFence(1), BcConfirms(BcRetry)>>,
     <<BcTolerant(BcConfig), BcConfirms(BcAuth), BcConfig, BcTolerant(BcAuth), BcTolerant(BcConfig)>>}}
BcQueues == {<<>>, <<BcBuffered(2)>>, <<BcCaused(1, 1), BcCaused(2, 2)>>, <<BcCaused(1, 1), BcCaused(9, 1), BcCaused(2, 3)>>,
             <<BcBuffered(1), BcCaused(1, 1), BcCaused(0, 1), BcCaused(9, 1)>>}
BcCameras == {BcQueue(q) : q \in BcQueues} \cup
             {BcScript(<<BcW(101), BcI(102), BcW(103), BcI(104)>>), BcScript(<<BcW(101), BcI(104)>>),
              [BcCamera EXCEPT !.mtuFails = TRUE, !.name = BcNothing]}
BcSlots == [BcUnbound EXCEPT !["k"] = <<8>>, !["ok"] = <<1, 2, 3>>]
BcScenarios ==
  [plan : BcPlans, responder : BcCameras, scope : {BcUnbound}, encodings : {BcUnbound}, params : {BcSlots}] \cup
  [plan : BcPlans, responder : {BcCamera}, scope : {[BcUnbound EXCEPT !["k"] = [bytes |-> <<1>>, printed |-> "u32"]]},
   encodings : {[BcUnbound EXCEPT !["k"] = "u32"]}, params : {BcUnbound}]
BcNames == {<<7>>, <<8>>}

BleWalk == INSTANCE BleCamera WITH
  Scenarios <- BcScenarios, Uuids <- BcUuids, Keys <- BcKeys, HostNames <- BcNames,
  MaxIters <- 4, MaxInits <- 1, Nothing <- BcNothing,
  scn <- v1, at <- v2, ctx <- v3, init <- v4

(* PtpIpWalk ******************************************************************)

\* Plans and engine answers for the PTP/IP reference walker.
PwSlots == {"a", "h", "off", "len", "rt"}
PwR(code) == [kind |-> "response", code |-> code, decodes |-> FALSE, whole |-> FALSE, val |-> <<>>]
PwD(val, good) == [kind |-> "data", code |-> "ok", decodes |-> good, whole |-> TRUE, val |-> val]
PwS(good, whole) == [kind |-> "stream", code |-> "ok", decodes |-> good, whole |-> whole, val |-> <<1, 2>>]
PwSilence == [PwR("none") EXCEPT !.kind = "silence"]
PwClose == [PwR("none") EXCEPT !.kind = "close"]
PwAnswers == [openSession |-> {PwR("ok"), PwR("busy")}, closeSession |-> {PwR("ok"), PwClose}, set |-> {PwR("ok"), PwR("busy")},
              get |-> {PwD(<<1>>, TRUE), PwD(<<1, 2>>, TRUE), PwD(<<>>, FALSE), PwR("busy"), PwSilence},
              op |-> {PwD(<<1, 2, 3>>, TRUE), PwD(<<1>>, FALSE), PwS(TRUE, TRUE), PwS(FALSE, TRUE), PwS(TRUE, FALSE), PwR("ok"), PwR("busy"), PwSilence},
              quick |-> {PwR("ok"), PwR("busy"), PwSilence}]
PwStep == [verb |-> "none", tolerant |-> FALSE, repeat |-> 1, body |-> <<>>, other |-> <<>>]
PwTol(s) == [s EXCEPT !.tolerant = TRUE]
PwV(v) == [verb |-> v] @@ PwStep
PwSet(v, slot) == [value |-> v, slot |-> slot, prop |-> "p", skip |-> FALSE, malformed |-> FALSE, verb |-> "set"] @@ PwStep
PwGet(coll, b, fb) == [prop |-> "p", collection |-> coll, bind |-> b, fallback |-> fb, verb |-> "get"] @@ PwStep
PwEcho == [prop |-> "p", bind |-> "none", verb |-> "echo"] @@ PwStep
PwSend(op, params, caps) == [op |-> op, params |-> params, captures |-> caps, verb |-> "send"] @@ PwStep
PwCap(src, b) == [source |-> src, bind |-> b]
PwP(slot, sh) == [slot |-> slot, shift |-> sh]
PwQuick(slot) == PwSend("quick", <<PwP(slot, 0)>>, <<>>)
PwRetry(codes, dec, n, body, fb) == [codes |-> codes, decode |-> dec, attempts |-> n, body |-> body, other |-> fb, verb |-> "retry"] @@ PwStep
PwAwait(ev, poll, body) == [event |-> ev, thenPoll |-> poll, prop |-> "p", until |-> 2, body |-> body, verb |-> "await"] @@ PwStep
PwEach(body) == [over |-> "h", bind |-> "off", body |-> body, verb |-> "forEach"] @@ PwStep
PwChunk(body) == [total |-> "a", size |-> 1, bind |-> "off", length |-> "len", body |-> body, verb |-> "chunk"] @@ PwStep
PwIf(body, other) == [slot |-> "a", equals |-> 2, body |-> body, other |-> other, verb |-> "if"] @@ PwStep
PwPlans ==
  {<<PwSet("literal", "rt"), PwTol(PwSet("runtime", "rt")), [PwSet("runtime", "a") EXCEPT !.skip = TRUE]>>,
   <<PwSet("runtime", "a")>>, <<[PwSet("runtime", "rt") EXCEPT !.malformed = TRUE]>>, <<PwV("none")>>,
   <<PwGet(FALSE, "a", {"busy"}), PwIf(<<PwTol(PwQuick("a"))>>, <<PwTol(PwEcho)>>)>>,
   <<PwTol(PwGet(TRUE, "h", {})), PwEach(<<PwTol(PwQuick("off")), PwTol(PwGet(FALSE, "none", {}))>>)>>,
   <<PwGet(TRUE, "h", {}), PwTol(PwEach(<<PwQuick("off")>>)), PwTol(PwEcho)>>,
   <<PwSend("op", <<PwP("rt", 1)>>, <<PwCap("transactionId", "len"), PwCap("array", "h"), PwCap("word", "a")>>), PwTol(PwEach(<<PwQuick("len")>>))>>,
   <<PwTol(PwSend("op", <<>>, <<PwCap("objectSize", "a")>>)), PwChunk(<<PwTol(PwQuick("len"))>>)>>,
   <<PwTol(PwSend("op", <<>>, <<PwCap("word", "a")>>)), PwTol(PwChunk(<<PwQuick("off")>>)), PwQuick("rt")>>,
   <<PwSend("op", <<PwP("rt", 0)>>, <<>>)>>,
   <<PwTol(PwRetry({"busy"}, TRUE, 2, <<PwSend("op", <<>>, <<PwCap("objectSize", "a")>>)>>, <<>>)), PwIf(<<>>, <<PwV("reopen")>>)>>,
   <<PwRetry({"busy"}, FALSE, 2, <<PwGet(FALSE, "a", {}), PwAwait("none", TRUE, <<PwTol(PwQuick("a"))>>)>>, <<PwTol(PwV("close"))>>)>>,
   <<PwTol(PwRetry({"busy"}, FALSE, 1, <<PwQuick("a")>>, <<PwQuick("rt")>>)), PwTol(PwQuick("rt"))>>,
   <<PwTol(PwAwait("e", TRUE, <<>>)), PwTol(PwAwait("f", FALSE, <<>>))>>, <<PwAwait("e", FALSE, <<>>)>>, <<PwAwait("f", TRUE, <<>>)>>,
   <<PwV("channel"), PwTol(PwV("reopen")), [PwTol(PwQuick("rt")) EXCEPT !.repeat = 2], PwV("close")>>}
PwParams == [s \in PwSlots |-> IF s = "rt" THEN 4 ELSE -1]
PwScenarios == [plan : PwPlans, answers : {PwAnswers}, params : {PwParams}, session : BOOLEAN, volatile : {TRUE}, live : BOOLEAN,
                ready : {TRUE}, events : {{"e"}}, loopOnly : {{"off"}}] \cup
               [plan : {<<PwV("channel")>>}, answers : {PwAnswers}, params : {PwParams}, session : {TRUE}, volatile : {FALSE}, live : {TRUE},
                ready : {FALSE}, events : {{}}, loopOnly : {{"off"}}]

PtpIpWalker == INSTANCE PtpIpWalk WITH
  Scenarios <- PwScenarios, Slots <- PwSlots, Props <- {"p"}, MaxAwaitIters <- 2,
  MaxForEachIters <- 2, MaxChunkIters <- 2, MaxWord <- 3,
  scn <- v1, at <- v2, ctx <- v3, verdict <- v4

(* SimTui *********************************************************************)

TuiCatalogs == { <<[id |-> "a", responder |-> TRUE], [id |-> "b", responder |-> FALSE], [id |-> "c", responder |-> TRUE]>>,
                 <<[id |-> "a", responder |-> TRUE], [id |-> "a", responder |-> TRUE]>> }
TuiDigits == <<"1">>
TuiRoutes == {<<"operator", "quit">>, <<"actions", "a">>, <<"actions", "b">>}

Tui == INSTANCE SimTui WITH
  Catalogs <- TuiCatalogs, Digits <- TuiDigits, Keys <- {"s", "q", "esc", "x"},
  PluginKeys <- {"x", "s"}, Routes <- TuiRoutes, EventLimit <- 1, MaxVersion <- 2,
  MaxFails <- 1, MaxRequests <- 1, MaxKeys <- 2,
  args <- v1, sim <- v2, ui <- v3, app <- v4, http <- v5, shared <- v6, hist <- v7

ASSUME TuiConstants == Tui!ConsoleAssumption

(* TuiPlugins *****************************************************************)

TpMan(id, spawn) == [major |-> 1, text_ok |-> TRUE, id |-> id, endpoint |-> ~ spawn, spawn |-> spawn, loopback |-> TRUE,
   panels |-> <<[id |-> "p", rows |-> 1]>>,
   actions |-> <<[id |-> "go", hotkey |-> "x", method |-> "POST"], [id |-> "stop", hotkey |-> "q", method |-> "POST"]>>]
TpBad(m) == { [m EXCEPT !.major = 2], [m EXCEPT !.text_ok = FALSE], [m EXCEPT !.spawn = ~ @], [m EXCEPT !.loopback = FALSE],
   [m EXCEPT !.panels = @ \o @], [m EXCEPT !.panels = <<[id |-> "p", rows |-> 2]>>], [m EXCEPT !.actions = <<@[1], @[1]>>],
   [m EXCEPT !.actions = <<[@[1] EXCEPT !.method = "PUT"]>>] }
TpManifests == {TpMan(1, FALSE), [TpMan(2, FALSE) EXCEPT !.panels = <<>>, !.actions = <<[id |-> "go", hotkey |-> "x", method |-> "POST"], [id |-> "on", hotkey |-> "y", method |-> "POST"]>>],
                [TpMan(2, FALSE) EXCEPT !.loopback = FALSE]}
TpFile(m) == [kind |-> "file", manifest |-> m]
TpUrl == [kind |-> "url", manifest |-> TpMan(1, FALSE)]
TpSources == {TpFile(TpMan(i, s)) : i \in {1, 2}, s \in BOOLEAN} \cup {TpUrl}
TpStarts == {<<a, b>> : a \in TpSources, b \in TpSources} \cup {<<TpFile(m)>> : m \in TpBad(TpMan(1, FALSE)) \cup TpBad(TpMan(1, TRUE))}

Plugins == INSTANCE TuiPlugins WITH
  Starts <- TpStarts, Manifests <- TpManifests, CoreKeys <- {"q", "s"}, Contents <- {0, 1},
  MaxPanels <- 2, MaxActions <- 2, MaxRows <- 1, MaxRefreshes <- 3,
  sources <- v1, phase <- v2, plugins <- v3, children <- v4, hist <- v5

ASSUME PluginsConstants == Plugins!PluginAssumption

(* ObservationReview **********************************************************)

\* Observation bundles: two runs, one operation and one property seen in two scopes.
OrHeader(run, rec) ==
  [kind |-> "header", run |-> run, rec |-> rec, ord |-> 0, sound |-> TRUE, camera |-> "x1",
   interfaces |-> 1, sameInterface |-> FALSE, clocks |-> <<"k1", "k2">>, maps |-> {<<"k1", "k2">>},
   arts |-> <<[id |-> "f", length |-> 3]>>, loss |-> FALSE]
OrRecord(kind) ==
  [kind |-> kind, run |-> "a", rec |-> "r1", ord |-> 1, sound |-> TRUE, clock |-> "k1",
   ctx |-> <<"wifi", "m1">>, ranges |-> <<>>, payload |-> <<>>, claims |-> <<>>, outcome |-> "none",
   response |-> "none", partial |-> FALSE, link |-> "none", conn |-> "c1", sess |-> "s1", tid |-> 1, endpoints |-> "e1",
   subject |-> "none", code |-> "camera", supported |-> TRUE, complete |-> TRUE, version |-> "v1",
   ptype |-> "none", access |-> "none", descriptor |-> "none", labels |-> {}, rows |-> {},
   profiles |-> {}, name |-> "none", native |-> "none"]
OrClaim(basis, effect, readback) == [basis |-> basis, effect |-> effect, readback |-> readback]
OrReadback(baseline, request, observed, clock) ==
  <<[baseline |-> baseline, request |-> request, observed |-> observed, clock |-> clock]>>
OrOp == [OrRecord("cap") EXCEPT !.subject = "operation", !.code = "op"]
OrProp == [OrRecord("cap") EXCEPT !.subject = "property", !.code = "p", !.ptype = "u8"]
OrPtp == [OrRecord("ptp") EXCEPT !.outcome = "ok", !.response = "ok"]
OrPayload(length, inline, streams, ranges) ==
  <<[length |-> length, inline |-> inline, streams |-> streams, ranges |-> ranges]>>
OrFile(offset, length) == [art |-> "f", offset |-> offset, length |-> length]
OrPart(offset, length) == [offset |-> offset, length |-> length]
OrFacts ==
  {OrOp, [OrOp EXCEPT !.ctx = <<"wifi", "m2">>, !.name = "shoot"],
   [OrOp EXCEPT !.complete = FALSE, !.ctx = <<"wifi", "m2">>, !.name = "fire"],
   [OrOp EXCEPT !.supported = FALSE, !.ctx = <<"usb", "m2">>],
   [OrOp EXCEPT !.supported = FALSE],
   OrProp, [OrProp EXCEPT !.ptype = "u16", !.ctx = <<"wifi", "m2">>],
   [OrProp EXCEPT !.ptype = "none", !.access = "gs2", !.complete = FALSE, !.descriptor = "range"],
   [OrProp EXCEPT !.descriptor = "untyped", !.access = "readWrite"],
   [OrProp EXCEPT !.labels = {<<1, "one">>}, !.name = "speed"],
   [OrProp EXCEPT !.labels = {<<1, "uno">>}],
   [OrProp EXCEPT !.native = "Speed"], [OrProp EXCEPT !.native = "Tempo", !.ctx = <<"wifi", "m2">>],
   [OrProp EXCEPT !.rows = {[value |-> 1, type |-> "u8", label |-> "one"]}],
   [OrProp EXCEPT !.rows = {[value |-> 1, type |-> "u8", label |-> "uno"]}],
   [OrProp EXCEPT !.profiles = {[scope |-> <<"wifi", "m1">>, rows |-> {1}]}],
   [OrProp EXCEPT !.profiles = {[scope |-> <<"wifi", "m1">>, rows |-> {2}]}, !.ctx = <<"wifi", "m2">>],
   [OrRecord("cap") EXCEPT !.subject = "identity"],
   [OrRecord("cap") EXCEPT !.subject = "identity", !.version = "v2"]}
OrOthers ==
  {[OrPtp EXCEPT !.outcome = o, !.response = r] :
     o \in {"ok", "nonOk", "timeout", "incomplete"}, r \in {"none", "ok", "refused"}}
  \cup {[OrPtp EXCEPT !.claims = <<OrClaim("control", e, b)>>] :
          e \in {"confirmed", "ackNoEffect", "refused", "clamp", "unknown"},
          b \in {<<>>, OrReadback(0, 1, 1, "k1"), OrReadback(0, 1, 0, "k2"), OrReadback(0, 1, 2, "k3")}}
  \cup {[OrOp EXCEPT !.claims = <<OrClaim("descriptor", e, <<>>)>>] : e \in {"unknown", "confirmed"}}
  \cup {[OrPtp EXCEPT !.payload = p] :
          p \in {OrPayload(2, i, <<>>, <<>>) : i \in {"ok", "odd", "short", "other", "none"}}
                \cup {OrPayload(2, "none", s, <<>>) :
                        s \in {<<OrPart(0, 1), OrPart(1, 1)>>, <<OrPart(1, 1)>>, <<OrPart(0, 5)>>}}
                \cup {OrPayload(3, "ok", <<>>, <<>>),
                      OrPayload(2, "none", <<OrPart(0, 2)>>, <<OrFile(0, 1), OrFile(1, 1)>>),
                      OrPayload(2, "none", <<OrPart(0, 2)>>, <<OrFile(2, 2)>>)}}
  \cup {[OrRecord("http") EXCEPT !.outcome = o, !.response = r] :
          o \in {"ok", "timeout", "incomplete"}, r \in {"none", "ok"}}
  \cup {[OrRecord("ble") EXCEPT !.outcome = o] : o \in {"ok", "incomplete"}}
  \cup {[OrPtp EXCEPT !.partial = TRUE], [OrPtp EXCEPT !.clock = "k3"], [OrPtp EXCEPT !.ord = 0],
        [OrPtp EXCEPT !.sound = FALSE], [OrPtp EXCEPT !.run = "b"], [OrPtp EXCEPT !.rec = "h"],
        [OrOp EXCEPT !.supported = FALSE, !.complete = FALSE],
        [kind |-> "bad", code |-> "O001"]}
OrEvents == {[OrRecord("event") EXCEPT !.rec = "r2", !.ord = n, !.link = l, !.sess = s] :
               n \in {1, 2}, l \in {"none", "r1", "r3"}, s \in {"s1", "s2"}}
OrHeaders ==
  {[OrHeader("a", "h") EXCEPT !.loss = TRUE], [OrHeader("a", "h") EXCEPT !.clocks = <<>>],
   [OrHeader("a", "h") EXCEPT !.clocks = <<"k1", "k1">>], [OrHeader("a", "h") EXCEPT !.ord = 1],
   [OrHeader("a", "h") EXCEPT !.interfaces = 0],
   [OrHeader("a", "h") EXCEPT !.interfaces = 2, !.sameInterface = TRUE]}
OrMoved(r) == [r EXCEPT !.run = "b"]
OrInputs ==
  {<< <<OrHeader("a", "h"), x>>, <<OrHeader("b", "h"), OrMoved(y)>> >>  :
     x \in {f \in OrFacts : f.complete /\ (f.supported \/ f.ctx[1] = "usb") /\ f.version = "v1"
                             /\ f.ptype # "u16" /\ <<1, "uno">> \notin f.labels /\ f.rows = {}},
     y \in OrFacts}
  \cup {<< <<OrHeader("a", "h"), x>> >> : x \in OrOthers}
  \cup {<< <<OrHeader("a", "h"), OrPtp, e>> >> :
          e \in OrEvents \cup {[OrPtp EXCEPT !.rec = "r2", !.ord = 2, !.endpoints = p] : p \in {"e1", "e2"}}}
  \cup {<< <<h, OrPtp>> >> : h \in OrHeaders}
  \cup {<< <<>> >>, << <<OrPtp>> >>, << <<OrPtp, OrHeader("a", "h")>> >>,
        << <<OrHeader("a", "h"), [OrOp EXCEPT !.rec = "r:1"]>>,
           <<OrHeader("a:r", "h"), [OrOp EXCEPT !.run = "a:r", !.rec = "1", !.ctx = <<"usb", "m2">>]>> >>,
        << <<OrHeader("a", "h")>>, <<OrHeader("a", "h")>> >>,
        << <<OrHeader("a", "h")>>, <<[OrHeader("b", "h") EXCEPT !.camera = "x2"]>> >>}
OrEntry(name, ptype) ==
  [name |-> name, ptype |-> ptype, access |-> "none", descriptor |-> "none", modes |-> {"m1"},
   connections |-> {"wifi"}, labels |-> {<<1, "a">>}, rows |-> {}, profiles |-> {}, scopes |-> {},
   asserted |-> "none", ptp_name |-> IF ptype = "none" THEN "none" ELSE "Speed", sourced |-> "none"]
OrBases ==
  {[camera |-> "none", modes |-> {}, entries |-> << >>],
   [camera |-> "x1", modes |-> {"m1"},
    entries |-> (<<"operation", "op">> :> OrEntry("shoot", "none")) @@
                (<<"property", "p">> :> OrEntry("speed", "u8"))]}

Reviewer == INSTANCE ObservationReview WITH
  Inputs <- OrInputs, Bases <- OrBases, MaxInline <- 2, MaxLength <- 3,
  phase <- v1, bundles <- v2, proposal <- v3, review <- v4, base <- v5, manifest <- v6,
  todo <- v7

ASSUME ReviewerConstants == Reviewer!ReviewAssumption

(* PropertyEngine *************************************************************)

\* A selector with two modes, a status that operations settle, a setting that loses its
\* value in one mode and is silently refused in a state, a composite and a counter.
PeProp(initial, max) ==
  [initial |-> initial, max |-> max, writable |-> FALSE, gated |-> FALSE, computed |-> FALSE,
   members |-> <<>>, enum |-> <<>>, dispositions |-> {}, profiles |-> {}]
PeScope(kind, modes, when) == [kind |-> kind, connections |-> {"wifi"}, modes |-> modes, when |-> when]
PeProps ==
  [sel |-> [PeProp(0, 1) EXCEPT !.writable = TRUE],
   af  |-> PeProp(-1, 1),
   x   |-> [PeProp(0, 1) EXCEPT !.writable = TRUE, !.enum = <<0, 1>>,
              !.dispositions = {PeScope("valueless", {<<"shoot">>}, <<"af", 1>>),
                                PeScope("silent", {<<"shoot">>}, <<>>)},
              !.profiles = {[connection |-> "any", mode |-> <<"shoot">>, rows |-> {[raw |-> 0, aliases |-> {1}, store |-> 0]}],
                            [connection |-> "wifi", mode |-> <<>>, rows |-> {[raw |-> 0, aliases |-> {}, store |-> 3]}]}],
   d   |-> [PeProp(-1, 0) EXCEPT !.members = <<[code |-> "af", max |-> 1, accepts |-> {0, 1}, fallback |-> 0],
                                                [code |-> "x", max |-> 0, accepts |-> {1}, fallback |-> 0]>>],
   n   |-> [PeProp(-1, 0) EXCEPT !.computed = TRUE, !.gated = TRUE]]
PeOp ==
  [advertisedOnly |-> FALSE, gated |-> FALSE, connections |-> {}, modes |-> {}, requires |-> <<>>, handler |-> "none",
   property |-> "x", effects |-> <<>>, emits |-> <<>>, dispositions |-> {}]
PeOps ==
  [focus |-> [PeOp EXCEPT !.effects = <<[prop |-> "af", value |-> 1, param |-> 0, settle |-> 0]>>,
                          !.emits = <<[code |-> "done", param |-> 0]>>,
                          !.dispositions = {PeScope("silent", {}, <<"af", 1>>)}],
   defer |-> [PeOp EXCEPT !.effects = <<[prop |-> "af", value |-> 0, param |-> 1, settle |-> 2]>>,
                          !.emits = <<[code |-> "moved", param |-> 1]>>, !.modes = {<<"shoot">>}],
   desc  |-> [PeOp EXCEPT !.handler = "getDesc", !.modes = {<<"idle">>}],
   value |-> [PeOp EXCEPT !.handler = "getValue"],
   set   |-> [PeOp EXCEPT !.handler = "setProp"],
   size  |-> [PeOp EXCEPT !.handler = "objectSize", !.gated = TRUE],
   step  |-> [PeOp EXCEPT !.handler = "propertyStep"],
   stop  |-> [PeOp EXCEPT !.handler = "terminate"],
   start |-> [PeOp EXCEPT !.handler = "initiate", !.requires = <<"af", 1>>],
   other |-> [PeOp EXCEPT !.advertisedOnly = TRUE],
   usb   |-> [PeOp EXCEPT !.connections = {"usb"}]]
PeModes == <<[path |-> <<"shoot", "still">>, detect |-> <<"sel", 1>>]>>
PeLive == {<<"shoot", "still">>}
PeArming == <<"sel", 1>>
PeSizes == <<5>>
PeGuess == <<"shoot", "still">>

Engine == INSTANCE PropertyEngine WITH
  PropTable <- PeProps, OpTable <- PeOps, ModeTable <- PeModes, Connection <- "wifi",
  LiveModes <- PeLive, GuessedMode <- PeGuess, StoreSizes <- PeSizes, Transitions <- {"af"},
  SizeLimit <- 4, Arming <- PeArming, Values <- {0, 1}, MaxEvents <- 1, MaxQueued <- 1,
  MaxManaged <- 3, Budgets <- {1, 2},
  cam <- v1, aux <- v2, ap <- v3, last <- v4

ASSUME EngineConstants == Engine!EngineAssumption

(* Discovery ******************************************************************)

\* A baseline and two models of a family, two cameras of one model, a USB body and a PCSS
\* body; adverts differ in state, identity and in what the platform supplies.
DiNone == [k \in {} |-> <<>>]
DiPay(len, min, bytes, bits) == [length |-> len, minLength |-> min, assertByte |-> bytes, assertBits |-> bits]
DiAny == DiPay(<<>>, 0, {}, {})
DiMfg(p) == [op |-> "mfg", company |-> <<7>>, payload |-> p]
DiAll(s) == [op |-> "all", of |-> s]
DiName(how, n) == [op |-> "name", how |-> how, name |-> n]
DiCap(name, source, at, len, transform, enc) ==
  [name |-> name, source |-> source, type |-> 9, uuid |-> "s", at |-> at, length |-> len,
   transform |-> transform, encoding |-> enc]
DiT(op, at, len) == [op |-> op, at |-> at, length |-> len, mask |-> 15, shift |-> 0, byte |-> 0]
DiSig(require, discoverable, scope, capture, reconnect) ==
  [kind |-> "ble", require |-> require, discoverable |-> discoverable, scope |-> scope,
   capture |-> capture, reconnect |-> reconnect, connection |-> "wifi", name |-> "", service |-> ""]
DiPcss == [DiSig(DiAny, TRUE, DiNone, <<>>, <<>>) EXCEPT !.kind = "pcss", !.name = "n", !.service = "s",
                                                       !.connection = "lan"]
DiRoute(d) == <<[identity |-> {"id", "kind"}, mechanism |-> d, disposition |-> d]>>
DiId == DiCap("id", "mfg", 1, <<2>>, <<DiT("reverse", 0, <<>>), DiT("bits", 0, <<>>)>>, "u16le")
DiSub == DiCap("kind", "record", 0, <<>>, <<DiT("padRight", 2, <<>>), DiT("slice", 0, <<1>>)>>, "u8")
DiSerial == DiCap("sn", "service", 0, <<>>, <<DiT("dropPrefix", 1, <<>>), DiT("appendNul", 0, <<>>)>>, "cstring")
\* State byte 1: pairing; 2: standby; 3: awake.
DiState(n) == DiMfg(DiPay(<<>>, 3, {[index |-> 0, equals |-> n]}, {}))
DiAwake == DiAll(<<DiMfg(DiPay(<<>>, 3, {}, {[offset |-> 0, mask |-> 3, equals |-> 3]})),
                   [op |-> "not", of |-> <<[op |-> "uuid", uuid |-> "x"]>>]>>)
DiBody(id, fallback, sigs) ==
  [id |-> id, fallback |-> fallback, signatures |-> sigs,
   plans |-> [ble |-> ("join" :> [length |-> 2, persist |-> {"id", "kind"}]) @@
                      ("wake" :> [length |-> 1, persist |-> {}]) @@
                      ("ready" :> [length |-> 2, persist |-> {}]),
              usb |-> ("claim" :> [length |-> 1, persist |-> {}])]]
DiModels ==
  <<DiBody("base", TRUE, <<DiSig(DiAll(<<DiMfg(DiAny), [op |-> "tx", min |-> 0, max |-> 9]>>), TRUE,
                                 "kind" :> <<4>>, <<DiId>>, <<>>)>>),
    DiBody("a", FALSE, <<DiSig(DiState(2), FALSE, DiNone, <<DiId, DiSub>>, DiRoute("wake")),
                         DiSig(DiAwake, TRUE, DiNone, <<DiId, DiSub, DiSerial>>, DiRoute("ready")),
                         DiSig(DiAll(<<DiMfg(DiAny), DiName("prefix", <<"A">>)>>), TRUE,
                               "kind" :> <<5>>, <<DiId>>, <<>>), DiPcss>>),
    DiBody("b", FALSE, <<DiSig(DiAll(<<DiName("contains", <<"B">>), DiMfg(DiAny)>>), TRUE,
                               "kind" :> <<5>>, <<>>, DiRoute("ready"))>>)>>
DiConn(est, kind) ==
  [establishment |-> est, kind |-> kind, available |-> TRUE, platforms |-> {},
   discovery |-> [mechanism |-> "none", auto |-> FALSE, platforms |-> {}, vid |-> 0, pid |-> <<>>]]
DiUsb(pid) ==
  [DiConn(<<"claim">>, "usb") EXCEPT !.discovery =
     [mechanism |-> "usb", auto |-> TRUE, platforms |-> {"mac"}, vid |-> 1, pid |-> pid]]
DiBodies ==
  [base |-> ("wifi" :> DiConn(<<"join">>, "ptpip")),
   \* One connection of a has the name of a mechanism, and establishes by another.
   a |-> ("wifi" :> DiConn(<<"join">>, "ptpip")) @@ ("lan" :> DiConn(<<>>, "pcss")) @@
         ("usb" :> DiUsb(<<2>>)) @@ ("wake" :> DiConn(<<"join">>, "ptpip")),
   b |-> ("wifi" :> DiConn(<<"join">>, "ptpip")) @@ ("usb" :> DiUsb(<<3>>)) @@
         ("usbAny" :> DiUsb(<<>>))]
DiFacts(mfg, name, tx, records) ==
  [mfg |-> mfg, name |-> name, tx |-> tx, records |-> records, uuids |-> <<"u">>,
   services |-> <<[uuid |-> "s", payload |-> <<7, 8, 0, 9>>]>>]
DiAd(cam, state, id, names, txs, recs) ==
  {[kind |-> "ble", cam |-> cam,
    facts |-> DiFacts(<<[company |-> 7, payload |-> <<state, 0, id>>]>>, n, t, r)] :
      n \in names, t \in txs, r \in recs}
DiR == <<[type |-> 9, payload |-> <<5>>]>>
DiObservations ==
  UNION {DiAd("c1", s, 1, {<<<<"A", "1">>>>}, {<<>>, <<3>>}, {<<>>, DiR}) : s \in {1, 2, 3}}
  \cup UNION {DiAd("c2", s, 2, {<<<<"A", "1">>>>}, {<<3>>}, {DiR}) : s \in {1, 2, 3}}
  \cup DiAd("c3", 1, 1, {<<>>, <<<<"A", "B">>>>, <<<<"B">>>>}, {<<3>>}, {<<>>})
  \cup {[kind |-> "pcss", cam |-> "c1", addr |-> "ip", name |-> n, service |-> "s"] : n \in {"n", "m"}}
  \cup {[kind |-> "usb", cam |-> "c1", platform |-> p, vid |-> v, pid |-> q,
         info |-> [maker |-> "f", model |-> i]] :
          p \in {"mac", "ios"}, v \in {1}, q \in {2, 3, 4}, i \in {"A", "B"}}
DiIdentities ==
  [base |-> [maker |-> "", model |-> "B"], a |-> [maker |-> "f", model |-> "A"],
   b |-> [maker |-> "f", model |-> "B"]]
DiPrimary == [name |-> "A", identity |-> DiIdentities.a]

Finder == INSTANCE Discovery WITH
  Models <- DiModels, Bodies <- DiBodies, Observations <- DiObservations,
  Identities <- DiIdentities, Primary <- DiPrimary, MaxPad <- 4,
  host <- v1, obs <- v2

ASSUME FinderConstants == Finder!IndexAssumption

(* ControlServer **************************************************************)

\* Heads and bodies on either side of their limits, and the header lines that matter.
CsLine(kind, value) == [kind |-> kind, value |-> value]
CsText(head, sent, lines, bad, closes) ==
  [head |-> head, sent |-> sent, lines |-> lines, badLine |-> bad, closes |-> closes]
CsLen(n) == <<CsLine("contentLength", {n})>>
CsTexts ==
  {CsText(h, s, CsLen(n), FALSE, TRUE) : h \in {0, 1, 2, 3}, s \in {2, 4, 5}, n \in {2, 3}}
  \cup {CsText(2, 3, l, b, c) : c \in BOOLEAN, b \in {FALSE, TRUE},
          l \in {<<>>, <<CsLine("plain", {})>>, <<CsLine("malformed", {})>>, CsLen(1) \o CsLen(1),
                 <<CsLine("contentLength", {})>>, <<CsLine("transferEncoding", {})>>}}
  \cup {CsText(0, 0, <<>>, FALSE, TRUE)}
CsRoutes == {[name |-> n, good |-> TRUE] : n \in {"advance", "action", "patch", "shutdown"}}
CsOthers == {[name |-> n, good |-> g] : n \in {"read", "subscribe", "action", "patch"}, g \in BOOLEAN}
CsPlain == [texts |-> {CsText(1, 1, <<>>, FALSE, FALSE)}, routes |-> CsRoutes]
CsPatch == [CsPlain EXCEPT !.routes = {[name |-> n, good |-> TRUE] : n \in {"action", "patch"}}]
CsSilent == [texts |-> {}, routes |-> {}]
\* One client sends every text, or two send plain requests, one for everything, while
\* commands run and their session ends.
CsAsks ==
  {"c1" :> [texts |-> CsTexts, routes |-> CsOthers] @@ "c2" :> CsSilent @@ "command" :> {},
   "c1" :> CsPlain @@ "c2" :> CsPatch @@ "command" :> {"operate", "end"}}

Control == INSTANCE ControlServer WITH
  Clients <- {"c1", "c2"}, Asks <- CsAsks, MaxHeader <- 2, MaxRequest <- 4, Chunk <- 3,
  Permits <- 2, MaxVersion <- 2,
  asks <- v1, conns <- v2, engine <- v3, aux <- v4, sync <- v5, signal <- v6, records <- v7,
  server <- v8

ASSUME ControlConstants == Control!ControlAssumption

(* ServerBind *****************************************************************)

\* One manifest per rule of Server::bind, and command lines with and without overrides.
SbPorts(c, e, l) == [command |-> c, event |-> e, liveview |-> l]
SbManifest ==
  [camera |-> "x", schemaSupported |-> TRUE, selected |-> TRUE, shape |-> "app82", framing |-> "compressed",
   guid |-> "none", ports |-> SbPorts(<<1>>, <<2>>, <<3>>), eventFraming |-> "standard", retries |-> <<>>,
   knock |-> FALSE, enumerates |-> FALSE, declared |-> [event |-> TRUE, liveview |-> FALSE],
   props |-> ("p" :> [type |-> "u8"]) @@ ("q" :> [type |-> "str"]) @@ ("r" :> [type |-> ""])]
SbStandard == [SbManifest EXCEPT !.shape = "standardPtpIp", !.framing = "standard", !.camera = "y",
                                 !.enumerates = TRUE, !.declared = [event |-> FALSE, liveview |-> TRUE]]
SbManifests ==
  {SbManifest, SbStandard, [SbStandard EXCEPT !.ports = SbPorts(<<1>>, <<1>>, <<>>)],
   [SbManifest EXCEPT !.ports = SbPorts(<<1>>, <<1>>, <<3>>)], [SbManifest EXCEPT !.schemaSupported = FALSE],
   [SbManifest EXCEPT !.selected = FALSE], [SbManifest EXCEPT !.framing = "usb"],
   [SbManifest EXCEPT !.shape = "legacyApp82", !.framing = "usb"],
   [SbManifest EXCEPT !.shape = "legacyApp82", !.framing = "usb", !.guid = "unusable"],
   [SbManifest EXCEPT !.shape = "legacyApp82", !.framing = "usb", !.guid = "fixed", !.retries = <<1>>],
   [SbManifest EXCEPT !.eventFraming = "compressed"],
   [SbManifest EXCEPT !.shape = "pcssKnock", !.knock = TRUE, !.ports = SbPorts(<<1>>, <<>>, <<>>)],
   [SbManifest EXCEPT !.ports = SbPorts(<<>>, <<2>>, <<>>)]}
SbAt(p) == <<[host |-> "lo", port |-> p]>>
SbConfig == [command |-> <<>>, event |-> <<>>, liveview |-> <<>>, knock |-> <<>>, fails |-> 0, enqueue |-> 0,
             control |-> [host |-> "lo", port |-> 9]]
SbConfigs ==
  {SbConfig} \cup {[SbConfig EXCEPT !.command = c, !.event = e] : c \in {SbAt(0), SbAt(4)}, e \in {SbAt(0), SbAt(4)}}
  \cup {[SbConfig EXCEPT !.liveview = SbAt(0)], [SbConfig EXCEPT !.knock = SbAt(9)], [SbConfig EXCEPT !.fails = 1],
        [SbConfig EXCEPT !.fails = 2], [SbConfig EXCEPT !.enqueue = 1], [SbConfig EXCEPT !.control.port = 1],
        [SbConfig EXCEPT !.control.port = 2]}
SbValue(t, n) == [text |-> t, number |-> {n} \ {-1}]
SbOverlay(phase, props) == [schema |-> "startup", profileFits |-> TRUE, connectionFits |-> TRUE, phase |-> phase, props |-> props]
SbOverlays ==
  {<<>>, <<SbOverlay("streaming", ("p" :> SbValue(FALSE, 255)) @@ ("q" :> SbValue(TRUE, -1)))>>,
   <<SbOverlay("", ("p" :> SbValue(TRUE, 7)) @@ ("q" :> SbValue(TRUE, 7)))>>,
   <<SbOverlay("", "p" :> SbValue(TRUE, -1))>>, <<SbOverlay("", "q" :> SbValue(FALSE, 7))>>,
   <<SbOverlay("", ("p" :> SbValue(FALSE, 256)) @@ ("r" :> SbValue(FALSE, 256)))>>,
   <<SbOverlay("", "z" :> SbValue(FALSE, 1))>>, <<SbOverlay("gone", "r" :> SbValue(FALSE, 0))>>,
   <<[SbOverlay("", "r" :> SbValue(FALSE, 65535)) EXCEPT !.schema = "other"]>>,
   <<[SbOverlay("", "r" :> SbValue(FALSE, 0)) EXCEPT !.profileFits = FALSE]>>}
SbKinds == [u8 |-> [least |-> 0, most |-> 255], u16 |-> [least |-> 0, most |-> 65535],
            i8 |-> [least |-> 0 - 128, most |-> 127]]

Bind == INSTANCE ServerBind WITH
  Manifests <- SbManifests, Configs <- SbConfigs, Overlays <- SbOverlays, Kinds <- SbKinds,
  MaxStarts <- 2,
  start <- v1, held <- v2, bundle <- v3, state <- v4, starts <- v5

ASSUME BindConstants == Bind!StartAssumption

(* MediaStore *****************************************************************)

MsPic == [magic |-> TRUE, off |-> 2, len |-> 20, soi |-> TRUE,
          segs |-> <<[fill |-> 1, id |-> "alone", len |-> 0, exif |-> {}],
                     [fill |-> 0, id |-> "app1", len |-> 12, exif |-> {[off |-> 2, len |-> 2, soi |-> TRUE]}],
                     [fill |-> 0, id |-> "eoi", len |-> 0, exif |-> {}]>>]
MsPlain == [MsPic EXCEPT !.segs[2].exif = {}]
MsBare == [MsPic EXCEPT !.magic = FALSE]

MsFile(size, pic) == [kind |-> "file", size |-> size, gen |-> 0, pic |-> pic, to |-> <<>>]
MsDir == [kind |-> "dir", size |-> 0, gen |-> 0, pic |-> MsBare, to |-> <<>>]
MsLink(to) == [kind |-> "link", size |-> 0, gen |-> 0, pic |-> MsBare, to |-> to]

\* A folder with a picture and a raw file, beside a link back to the root or to the folder,
\* and a link that leaves the card; and a card with one object of each format and size.
MsCards ==
  {<<10>> :> MsDir @@ <<10, 12>> :> MsFile(24, MsPic) @@ <<20>> :> MsLink(t) @@ <<31>> :> MsLink(<<0>>)
     : t \in {<<>>, <<10>>}} \cup
  {<<11>> :> MsFile(s, MsBare) @@ <<12>> :> MsFile(23, MsPlain) @@ <<13>> :> MsFile(3, MsBare)
     : s \in {8, 7}}

MsFiles == {MsFile(1, MsBare), MsFile(12, MsPic), MsFile(30, [MsPic EXCEPT !.off = 4])}

Media == INSTANCE MediaStore WITH
  Cards <- MsCards, Files <- MsFiles, MaxLinks <- 2, Ceiling <- 7, HeaderLen <- 2,
  Offsets <- {0, 3, 9}, Lengths <- {2, 5}, ChunkBytes <- 2, MaxChanges <- 1,
  card <- v1, scanned <- v2, table <- v3, job <- v4, changes <- v5

ASSUME MediaConstants == Media!CardAssumption

(* PlanCheck ******************************************************************)

Pk == INSTANCE PlanCheck WITH
  Manifests <- {}, MaxJobs <- {}, manifest <- v1, verdict <- v2, at <- v3, job <- v4,
  stack <- v5, coll <- v6, err <- v7, last <- v8

PkDo(verb) == [Pk!Step EXCEPT !.does = {verb}]
PkGot(source, bind, codes) == [source |-> source, bind |-> bind, fallback |-> codes]
PkSend == PkDo("sendOp")
PkArray(b) == [PkDo("getProp") EXCEPT !.captures = <<PkGot("ptpU32Array", b, {})>>]
PkRetry(body, other) ==
  [PkDo("retry") EXCEPT !.steps = body, !.fallback = other, !.codes = {"busy"}, !.max = 2]
PkIf(then, other) == [PkDo("if") EXCEPT !.steps = then, !.else = other, !.reads = {"n"}]
PkNumber(codes) == [PkDo("getProp") EXCEPT !.captures = <<PkGot("propValue", "n", codes)>>]
PkEach(b) == [PkDo("loop") EXCEPT !.steps = <<[PkSend EXCEPT !.reads = {"h"}]>>, !.collection = {b}, !.binds = {"h"}]
PkAwait(source) == [PkDo("awaitUntil") EXCEPT !.steps = <<PkSend>>, !.source = source]
PkOpen == PkDo("openChannel")
PkRuntime == [PkDo("setProp") EXCEPT !.slot = {"iso"}, !.skips = TRUE]

\* Steps that bind a collection on some ways only, and steps around them.
PkFirst ==
  {PkArray("a"), PkRetry(<<PkArray("a")>>, {}), PkRetry(<<PkArray("a")>>, {<<PkArray("a")>>}),
   PkRetry(<<PkArray("a")>>, {<<PkSend>>}), [PkRetry(<<PkArray("a")>>, {}) EXCEPT !.tolerant = TRUE],
   PkIf(<<PkArray("a")>>, <<PkArray("a")>>), PkIf(<<PkArray("a")>>, <<>>),
   [PkIf(<<PkArray("a")>>, <<PkArray("a")>>) EXCEPT !.tolerant = TRUE],
   PkNumber({<<"busy">>})}
PkSecond == {PkSend, [PkSend EXCEPT !.tolerant = TRUE], PkAwait("event"), PkAwait("poll"), PkOpen}
PkThird == {PkEach("a"), PkOpen, [PkDo("loop") EXCEPT !.steps = <<PkSend>>, !.tolerant = TRUE, !.reads = {"n"}, !.binds = {"n"}]}

PkAct(id, first, end) ==
  [id |-> id, named |-> TRUE, version |-> 1, ms |-> 5, bind |-> "span", name |-> "", meta |-> 1,
   first |-> first, end |-> end]
PkEntry(from, to, kind, steps) ==
  [from |-> from, to |-> to, kind |-> kind, steps |-> steps, activities |-> <<>>]
PkConn(entries, actions) ==
  [ownership |-> "initiatorOwned", delivery |-> "reliable", establishment |-> {"pair"}, modes |-> {"m"},
   sentinel |-> TRUE, bindings |-> [r \in {"command", "event"} |->
     [port |-> IF r = "command" THEN 1 ELSE 2, after |-> IF r = "event" THEN {"op"} ELSE {}]],
   activities |-> <<>>, entries |-> entries, actions |-> actions, enables |-> <<>>]
PkOn(c) == [schema |-> "camera-config/v1", operations |-> [o \in {"op"} |-> {"x"}], connections |-> [i \in {"x"} |-> c]]

\* Plans of three steps after one that binds a number.
PkPlans ==
  {PkOn(PkConn(<<[PkEntry({}, "m", "ptp", <<PkNumber({}), x, y, z>>) EXCEPT
      !.activities = <<PkAct("p", 0, 2), PkAct("q", 2, 4)>>]>>, <<>>)) : x \in PkFirst, y \in PkSecond, z \in PkThird}

\* Plans that no check refuses and no walk ends well.
PkUnfit ==
  {PkOn([PkConn(<<PkEntry({}, "m", "ptp", <<PkSend, st>>)>>, <<>>) EXCEPT !.ownership = "daemonAttached", !.sentinel = FALSE])
     : st \in {PkDo("closeSession"), PkDo("reopenSession"), PkOpen}} \cup
  {PkOn([PkConn(<<PkEntry({}, "m", "ptp", <<PkSend, PkRetry(<<st>>, {})>>)>>, <<>>) EXCEPT !.sentinel = FALSE])
     : st \in {[PkArray("a") EXCEPT !.captures = <<PkGot("ptpU32Array", "a", {}), PkGot("propValue", "n", {})>>],
       [PkNumber({}) EXCEPT !.stream = TRUE], [PkNumber({}) EXCEPT !.ptype = "u8a"], [PkDo("readEcho") EXCEPT !.captures = <<PkGot("u32Le", "n", {})>>],
       [PkSend EXCEPT !.captures = <<PkGot("propValue", "n", {})>>], [PkSend EXCEPT !.captures = <<PkGot("objectInfo", "n", {})>>],
       [PkSend EXCEPT !.reads = {"n"}], PkIf(<<>>, <<PkSend>>), [PkDo("setProp") EXCEPT !.fits = FALSE], [PkAwait("poll") EXCEPT !.ptype = "str"],
       [PkAwait("poll") EXCEPT !.stream = TRUE, !.captures = <<PkGot("propValue", "n", {})>>], PkDo("closeSession")}} \cup
  {PkOn(PkConn(<<PkEntry({}, "m", "ptp", <<[PkNumber({}) EXCEPT !.ptype = t], PkIf(<<PkSend>>, <<>>)>>)>>, <<>>)) : t \in {"u16", "str"}}

\* An action with values, events that get lost, a way out with and without a way back in,
\* spans that leave a step out, and edges between connections.
PkAction(required, ptype) ==
  [steps |-> <<[PkRuntime EXCEPT !.ptype = ptype], PkOpen, [PkRuntime EXCEPT !.skips = FALSE, !.slot = {"f"}]>>,
   activities |-> <<>>, params |-> [s \in {"iso", "f"} |-> [required |-> required, kind |-> "u64"]]]
PkOut(cold) ==
  PkConn(<<PkEntry({"m"}, "n", "reestablish", <<PkSend>>), PkEntry({}, "m", "instruction", <<>>)>> \o
         IF cold THEN <<PkEntry({}, "n", "ptp", <<PkSend>>)>> ELSE <<>>, <<>>)
PkEdge(to) == [to |-> to, mechanism |-> {"pair"}, instruction |-> FALSE, params |-> FALSE, mode |-> {"m"}]
PkOthers ==
  {PkOn(PkConn(<<>>, <<PkAction(r, t)>>)) : r \in BOOLEAN, t \in {"u8", "u64", "str"}} \cup
  {PkOn([PkConn(<<PkEntry({}, "m", "ptp", <<PkAwait(s)>>)>>, <<>>) EXCEPT !.delivery = d])
     : s \in {"event", "eventThenPoll", "poll"}, d \in {"none", "bestEffort"}} \cup
  {PkOn(PkOut(c)) : c \in BOOLEAN} \cup
  {PkOn(PkConn(<<[PkEntry({}, "m", "ptp", <<PkSend, PkSend>>) EXCEPT !.activities = <<PkAct("p", 0, n)>>]>>, <<>>))
     : n \in {1, 2}} \cup
  {[PkOn(PkConn(<<>>, <<>>)) EXCEPT !.connections =
     [i \in {"x", "y"} |-> [PkConn(<<>>, <<>>) EXCEPT !.enables = <<PkEdge(t)>>]]] : t \in {"x", "y", "z"}}

Checks == INSTANCE PlanCheck WITH
  Manifests <- PkPlans \cup PkUnfit \cup PkOthers, MaxJobs <- 2,
  manifest <- v1, verdict <- v2, at <- v3, job <- v4, stack <- v5, coll <- v6, err <- v7,
  last <- v8

ASSUME ChecksConstants == Checks!PlanAssumption

(* ConfigLoad *****************************************************************)

Cl == INSTANCE ConfigLoad WITH
  Indexes <- {}, MaxUses <- {}, index <- v1, state <- v2, resolved <- v3, use <- v4

ClDo(verb, out) == [Cl!Step EXCEPT !.verb = verb, !.out = out]
ClRead == ClDo("read", {"k"})
ClWrite == ClDo("write", {})
ClInterrupt == ClDo("interrupt", {"i"})
ClRetry(steps, after) == [Cl!Step EXCEPT !.verb = "retry", !.steps = steps, !.onFailure = after]
ClAwait == [ClDo("await", {"w"}) EXCEPT !.steps = <<ClRead>>, !.evidence = <<ClDo("read", {"e"})>>]

ClSpan(id, sequence, first, end) ==
  [id |-> id, version |-> 1, meta |-> 1, sequence |-> sequence, first |-> first, end |-> end]
ClEst(steps) ==
  [steps |-> steps, ready |-> <<>>, persist |-> {"s"}, params |-> {"p"},
   activities |-> <<ClSpan("a", "steps", 0, Len(steps))>>]

ClConn ==
  [kind |-> "ptpip", establishment |-> {"pair"}, delivery |-> "reliable", knock |-> {}, gates |-> {},
   activities |-> <<>>, enables |-> <<>>, entries |-> <<>>, actions |-> <<>>, roles |-> [r \in {"command", "event"} |-> 1]]
ClBody(c) == [schema |-> TRUE, contract |-> TRUE, connections |-> [i \in {"x"} |-> c], transfer |-> {}]
ClModel(id, body, est) ==
  [id |-> id, body |-> {body}, ble |-> {[n \in {"pair"} |-> est]}, usb |-> {[n \in {"pair"} |-> est]},
   policy |-> TRUE, signatures |-> <<>>]
ClIndex(models) == [parses |-> TRUE, models |-> models]
ClOne(c, steps) == ClIndex(<<ClModel("m", ClBody(c), ClEst(steps))>>)

\* Plans with every kind of step, under the gates that name their facts.
ClPlans ==
  {<<ClRead>>, <<ClWrite, ClAwait>>, <<ClRetry(<<ClWrite>>, <<ClRead>>)>>, <<ClRetry(<<ClRead>>, <<ClInterrupt>>)>>,
   <<[Cl!Step EXCEPT !.verb = "if", !.steps = <<ClRead>>, !.else = <<ClInterrupt>>]>>,
   <<[ClDo("acquire", {"w"}) EXCEPT !.from = <<ClRead>>], ClDo("firmware", {"f"})>>}
ClGates ==
  {ClOne([ClConn EXCEPT !.gates = g, !.kind = k, !.delivery = d], steps) :
     g \in {{}, {"k"}, {"s"}, {"w"}, {"e"}}, k \in {"ptpip", "usb"}, d \in {"none", "reliable"}, steps \in ClPlans}

\* A connection that is left and established again, with its parameters or others.
ClLeft ==
  {ClOne([ClConn EXCEPT !.entries = <<[reestablishes |-> TRUE, params |-> p, activities |-> <<>>]>>, !.establishment = e], <<ClRead>>) :
     p \in {{}, {"p"}}, e \in {{}, {"pair"}, {"other"}}} \cup
  {ClOne([ClConn EXCEPT !.enables = <<[mechanism |-> {"pair"}, params |-> p]>>], <<ClRead>>) : p \in {{}, {"p"}, {"q"}}}

\* Activities of the connection beside those of the plan; spans that leave a step out.
ClActs ==
  {ClOne([ClConn EXCEPT !.activities = <<[id |-> i, version |-> 1, meta |-> x]>>, !.kind = k], <<ClRead>>) :
     i \in {"a", "b"}, x \in {1, 2}, k \in {"ptpip", "usb"}} \cup
  {ClOne([ClConn EXCEPT
     !.entries = <<[reestablishes |-> FALSE, params |-> {}, activities |-> <<[id |-> i, version |-> 1, meta |-> x]>>]>>,
     !.actions = <<[activities |-> <<[id |-> "b", version |-> 1, meta |-> 1]>>]>>], <<ClRead>>) :
     i \in {"a", "b"}, x \in {1, 2}} \cup
  {ClIndex(<<ClModel("m", ClBody(ClConn), [ClEst(<<ClRead>>) EXCEPT !.ready = <<ClDo("firmware", {})>>,
     !.activities = <<ClSpan("r", "ready", 0, 1)>> \o @])>>)} \cup
  {ClIndex(<<ClModel("m", ClBody(ClConn), [ClEst(<<ClRead, ClRead>>) EXCEPT !.activities[1].end = n])>>) : n \in {1, 2}}

\* Two models, of which one lets its camera start transfers and come back.
ClRoute(mechanism) == [mechanism |-> mechanism, identity |-> {"serial"}]
ClSignature(route) ==
  [kind |-> "ble", connection |-> "x", camera |-> "n", captures |-> {"serial"}, route |-> route]
ClTransfer(connection, recovers) ==
  {[connection |-> connection, role |-> "event", recovers |-> recovers, codes |-> TRUE]}
ClTwo ==
  {ClIndex(<<ClModel("m", ClBody([ClConn EXCEPT !.roles["event"] = 2]), ClEst(<<ClRead>>)),
             [ClModel("n", [ClBody(ClConn) EXCEPT !.transfer = t], ClEst(<<ClRead>>)) EXCEPT
                !.signatures = s, !.policy = p]>>) :
     t \in {ClTransfer("x", TRUE), ClTransfer("x", FALSE), ClTransfer("y", FALSE)}, p \in BOOLEAN,
     s \in {<<>>, <<ClSignature({ClRoute("pair")})>>, <<ClSignature({ClRoute("other")})>>}} \cup
  {ClIndex(<<ClModel("m", [ClBody([ClConn EXCEPT !.roles["event"] = 0]) EXCEPT
     !.transfer = ClTransfer("x", FALSE)], ClEst(<<ClRead>>))>>)} \cup
  {ClIndex(<<[ClModel("m", ClBody([ClConn EXCEPT !.knock = {k}]), ClEst(<<ClRead>>)) EXCEPT
     !.signatures = <<[ClSignature({}) EXCEPT !.kind = "pcss"]>>]>>) : k \in {"n", "o"}}

Load == INSTANCE ConfigLoad WITH
  Indexes <- ClGates \cup ClLeft \cup ClActs \cup ClTwo, MaxUses <- 1,
  index <- v1, state <- v2, resolved <- v3, use <- v4

ASSUME LoadConstants == Load!LoadAssumption

(******************************************************************************)

vars == <<part, v1, v2, v3, v4, v5, v6, v7, v8>>

Unused == "unused"

TxInit == part = "transaction" /\ Tx!Init
  /\ v5 = Unused /\ v6 = Unused /\ v7 = Unused /\ v8 = Unused
PtpInit == part = "ptp" /\ Ptp!Init
  /\ v5 = Unused /\ v6 = Unused /\ v7 = Unused /\ v8 = Unused
BleInit == part = "ble" /\ Ble!Init
  /\ v6 = Unused /\ v7 = Unused /\ v8 = Unused
StreamingInit == part = "streaming" /\ Streaming!Init
  /\ v5 = Unused /\ v6 = Unused /\ v7 = Unused /\ v8 = Unused
NativeInit == part = "native" /\ Native!Init
  /\ v6 = Unused /\ v7 = Unused /\ v8 = Unused
SessionInit == part = "session" /\ Session!Init
  /\ v7 = Unused /\ v8 = Unused
ProbeInit == part = "probe" /\ Probe!Init
CliInit == part = "cli" /\ Cli!Init
TraceInit == part = "trace" /\ Trace!Init
  /\ v6 = Unused /\ v7 = Unused /\ v8 = Unused
BleWalkInit == part = "blewalk" /\ BleWalk!Init
  /\ v5 = Unused /\ v6 = Unused /\ v7 = Unused /\ v8 = Unused
PtpIpWalkerInit == part = "ptpipwalk" /\ PtpIpWalker!Init
  /\ v5 = Unused /\ v6 = Unused /\ v7 = Unused /\ v8 = Unused
TuiInit == part = "console" /\ Tui!Init
  /\ v8 = Unused
PluginsInit == part = "plugins" /\ Plugins!Init
  /\ v6 = Unused /\ v7 = Unused /\ v8 = Unused
ReviewerInit == part = "review" /\ Reviewer!Init
  /\ v8 = Unused
EngineInit == part = "engine" /\ Engine!Init
  /\ v5 = Unused /\ v6 = Unused /\ v7 = Unused /\ v8 = Unused
FinderInit == part = "discovery" /\ Finder!Init
  /\ v3 = Unused /\ v4 = Unused /\ v5 = Unused /\ v6 = Unused /\ v7 = Unused /\ v8 = Unused
ControlInit == part = "control" /\ Control!Init
BindInit == part = "bind" /\ Bind!Init
  /\ v6 = Unused /\ v7 = Unused /\ v8 = Unused
MediaInit == part = "media" /\ Media!Init
  /\ v6 = Unused /\ v7 = Unused /\ v8 = Unused
ChecksInit == part = "plans" /\ Checks!Init
LoadInit == part = "load" /\ Load!Init
  /\ v5 = Unused /\ v6 = Unused /\ v7 = Unused /\ v8 = Unused

Init ==
  \/ TxInit \/ PtpInit \/ BleInit \/ StreamingInit \/ NativeInit \/ SessionInit
  \/ ProbeInit \/ CliInit \/ TraceInit \/ BleWalkInit \/ PtpIpWalkerInit \/ TuiInit
  \/ PluginsInit \/ ReviewerInit \/ EngineInit \/ FinderInit \/ ControlInit \/ BindInit
  \/ MediaInit \/ ChecksInit \/ LoadInit

TxNext == part = "transaction" /\ Tx!Next /\ UNCHANGED <<part, v5, v6, v7, v8>>
PtpNext == part = "ptp" /\ Ptp!Next /\ UNCHANGED <<part, v5, v6, v7, v8>>
BleNext == part = "ble" /\ Ble!Next /\ UNCHANGED <<part, v6, v7, v8>>
StreamingNext == part = "streaming" /\ Streaming!Next /\ UNCHANGED <<part, v5, v6, v7, v8>>
NativeNext == part = "native" /\ Native!Next /\ UNCHANGED <<part, v6, v7, v8>>
SessionNext == part = "session" /\ Session!Next /\ UNCHANGED <<part, v7, v8>>
ProbeNext == part = "probe" /\ Probe!Next /\ UNCHANGED part
CliNext == part = "cli" /\ Cli!Next /\ UNCHANGED part
TraceNext == part = "trace" /\ Trace!Next /\ UNCHANGED <<part, v6, v7, v8>>
BleWalkNext == part = "blewalk" /\ BleWalk!Next /\ UNCHANGED <<part, v5, v6, v7, v8>>
PtpIpWalkerNext == part = "ptpipwalk" /\ PtpIpWalker!Next /\ UNCHANGED <<part, v5, v6, v7, v8>>
TuiNext == part = "console" /\ Tui!Next /\ UNCHANGED <<part, v8>>
PluginsNext == part = "plugins" /\ Plugins!Next /\ UNCHANGED <<part, v6, v7, v8>>
ReviewerNext == part = "review" /\ Reviewer!Next /\ UNCHANGED <<part, v8>>
EngineNext == part = "engine" /\ Engine!Next /\ UNCHANGED <<part, v5, v6, v7, v8>>
FinderNext == part = "discovery" /\ Finder!Next /\ UNCHANGED <<part, v3, v4, v5, v6, v7, v8>>
ControlNext == part = "control" /\ Control!Next /\ UNCHANGED part
BindNext == part = "bind" /\ Bind!Next /\ UNCHANGED <<part, v6, v7, v8>>
MediaNext == part = "media" /\ Media!Next /\ UNCHANGED <<part, v6, v7, v8>>
ChecksNext == part = "plans" /\ Checks!Next /\ UNCHANGED part
LoadNext == part = "load" /\ Load!Next /\ UNCHANGED <<part, v5, v6, v7, v8>>

Next ==
  \/ TxNext \/ PtpNext \/ BleNext \/ StreamingNext \/ NativeNext \/ SessionNext
  \/ ProbeNext \/ CliNext \/ TraceNext \/ BleWalkNext \/ PtpIpWalkerNext \/ TuiNext
  \/ PluginsNext \/ ReviewerNext \/ EngineNext \/ FinderNext \/ ControlNext \/ BindNext
  \/ MediaNext \/ ChecksNext \/ LoadNext

Spec == Init /\ [][Next]_vars

--------------------------------------------------------------------------------
\* A data phase that a client reports is the one the camera sent: the transaction core
\* hands over the payload exactly once, whole and within the size limits
\* (PtpTransaction!PayloadIsWhole), and the streaming executor writes to its sink no more
\* bytes than it announced, all of them if it succeeds, and leaves a usable command stream
\* only at a frame boundary (StreamingExecutor!StreamingIsExact).
DataPhasesAreWhole ==
  /\ part = "transaction" => Tx!TypeOK /\ Tx!PayloadIsWhole
  /\ part = "streaming" => Streaming!TypeOK /\ Streaming!StreamingIsExact


\* A walk of a BLE or USB plan reports each step it starts as ended exactly once, whatever
\* cancels it (BleExecutor!StepsAreReported), takes a rejection as proved only by evidence
\* of its own probe, and reads a configuration only in the session that the latest
\* authentication proved (NothingStale); its activities end with it, across a refinement
\* of the plan too, and it gives back a claimed interface exactly when it fails
\* (WalkEndsClean).
WalkIsReported ==
  part = "ble" => Ble!TypeOK /\ Ble!StepsAreReported /\ Ble!NothingStale /\ Ble!WalkEndsClean

\* The initiator's transport never uses a connection that a failed exchange has left in
\* the middle of a frame (NativeTransport!ConnectionIsSound), and a frame that it has
\* read is delivered, still queued or dropped by a call that fails (NothingReadIsLost).
ConnectionIsSound ==
  part = "native" => Native!TypeOK /\ Native!ConnectionIsSound /\ Native!NothingReadIsLost

\* However a run of the initiator ends, its account is true: a session's report is that of
\* the steps that ran (InitiatorSession!SessionIsAccounted), replaces no file and, when the
\* run ends with a verdict, is there whole, whereas a copy that failed may leave a part of
\* it (ReportIsPublished); a probe has tried to restore whatever it tried to set, and a
\* write reported restored is (InitiatorProbe!ProbeIsAccounted); and the process closes the
\* session it opened unless the bundle refused its action record, and has tried a stop of
\* live view exactly when it fails between a start and a stop of the command line
\* (InitiatorCli!ProcessEndsClean).
InitiatorEndsClean ==
  /\ part = "session" => Session!TypeOK /\ Session!SessionIsAccounted /\ Session!ReportIsPublished
  /\ part = "probe" => Probe!TypeOK /\ Probe!ProbeIsAccounted
  /\ part = "cli" => Cli!TypeOK /\ Cli!ProcessEndsClean

\* The trace of the initiator says what happened: transactions, ranges, links and ordinals
\* on disk are those of the exchange, also across a crash and a reopened bundle
\* (InitiatorTrace!TraceIsTrue).
TraceIsTrue ==
  part = "trace" => Trace!TypeOK /\ Trace!TraceIsTrue

\* The reference walkers of the simulator do what the plan says: the BLE walker confirms,
\* fences and aliases only what its camera delivered (BleCamera!WalkIsTrue), and the PTP/IP
\* walker tolerates, retries and captures exactly as the steps declare
\* (PtpIpWalk!PlanIsWalked); and a plan that the load checks accept fails in a walk for a
\* reason that the plan alone decides only where the checks do not look, which
\* PlanCheck!Overlooked lists (PlanCheck!AcceptedPlansRun).
PlansAreWalked ==
  /\ part = "blewalk" => BleWalk!TypeOK /\ BleWalk!WalkIsTrue
  /\ part = "ptpipwalk" => PtpIpWalker!TypeOK /\ PtpIpWalker!PlanIsWalked
  /\ part = "plans" => Checks!TypeOK /\ Checks!AcceptedPlansRun

\* The operator console shows what it was told: its panel ends with the simulator's state
\* however fetches and pushes cross, a state acknowledged over HTTP is shown, and after a
\* quit over HTTP the operator starts at most one more action (SimTui!ConsoleIsHonest); a
\* plugin stays within its manifest, and no child outlives the registry but one refused as
\* a duplicate (TuiPlugins!PluginsAreContained).
ConsoleIsHonest ==
  /\ part = "console" => Tui!TypeOK /\ Tui!ConsoleIsHonest
  /\ part = "plugins" => Plugins!TypeOK /\ Plugins!PluginsAreContained

\* A reviewed manifest follows from the observations: the verdict on the bundles and the
\* proposal do not depend on their order, decisions are applied only to the proposal they
\* were made on, the manifest says what the base and the accepted candidates say, and a
\* name, row or profile is not refused for the order of the digests
\* (ObservationReview!ReviewIsFaithful).
ReviewIsFaithful ==
  part = "review" => Reviewer!TypeOK /\ Reviewer!ReviewIsFaithful

\* What the camera answers about its properties agrees with what it holds: descriptors,
\* values, refusals, deferred transitions, events and the descriptor budget
\* (PropertyEngine!SurfaceIsHonest); and about its card: the tree is the directory's, a reply
\* streams the announced bytes, and a thumbnail lies in its object (MediaStore!MediaIsHonest).
SurfaceIsHonest ==
  /\ part = "engine" => Engine!TypeOK /\ Engine!SurfaceIsHonest
  /\ part = "media" => Media!TypeOK /\ Media!MediaIsHonest

\* A host that recognises, joins and later rejoins a camera stays with that camera, through
\* handles that remain valid, save a reconnect plan whose mechanism has the name of a connection
\* (Discovery!DiscoveryIsSound).
DiscoveryIsSound ==
  part = "discovery" => Finder!TypeOK /\ Finder!DiscoveryIsSound

\* The control server reads a request the same however it is fragmented, records the actions
\* it did, changes nothing when it refuses but for a patch whose listener refused to follow,
\* and leaves the listener and the subscribers with the state of the last change that was
\* announced: the end of a session is not (ControlServer!ControlIsSound).
ControlIsSound ==
  part = "control" => Control!TypeOK /\ Control!ControlIsSound

\* A service that runs has bound what its manifest declares, no two sockets listening on one
\* address, with its startup state applied whole; one that fails holds nothing and leaves on
\* disk at most a bundle, which a later start takes up only when it is whole and of the same
\* camera (ServerBind!StartIsSound).
\* A configuration that a host loads can be used: its plans, gates, routes and transfers lead
\* somewhere (ConfigLoad!LoadedStoreIsUsable).
StartIsSound ==
  /\ part = "bind" => Bind!TypeOK /\ Bind!StartIsSound
  /\ part = "load" => Load!TypeOK /\ Load!LoadedStoreIsUsable
================================================================================
