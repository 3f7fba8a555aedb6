------------------------------ MODULE Discovery -------------------------------
(***************************************************************************)
(* Recognising cameras and coming back to them: the manufacturer index of  *)
(* crates/camera-protocol-ffi/src/mfg_index.rs, the advert predicates and  *)
(* captures of crates/camera-config/src/index/eval.rs, and the store calls *)
(* of crates/camera-protocol-ffi/src/lib.rs through which a host scans,    *)
(* establishes, refines its plan and reconnects.                           *)
(*                                                                         *)
(* A string is the sequence of its characters and a payload the sequence   *)
(* of its bytes; an optional value is a sequence of at most one.  A plan   *)
(* handle is the pair of model and selector it is split into: neither has  *)
(* a colon.  What the host does between the calls is external.             *)
(***************************************************************************)
EXTENDS Integers, Sequences, FiniteSets, SequencesExt, FiniteSetsExt, Bitwise

CONSTANTS Models,        \* the index's models, in declaration order
          Bodies,        \* model id -> connection id -> its configuration
          Observations,  \* what a scan may see, with the camera it comes from
          Identities,    \* model id -> manufacturer and model of its DeviceInfo
          Primary,       \* the store's first manifest: its camera's name and identity
          MaxPad         \* longest payload a padding transform may ask for

IndexAssumption ==
  /\ MaxPad \in Nat
  /\ \A i, j \in DOMAIN Models : Models[i].id = Models[j].id => i = j

VARIABLES host,  \* phase, what was recognised, the plan and where its walk is, what was saved
          obs    \* the observation being answered, and the answer

vars == <<host, obs>>

-----------------------------------------------------------------------------
\* Adverts: predicates, captures and transforms.

Le(bytes) == FoldRight(LAMBDA b, n : b + 256 * n, bytes, 0)  \* eval.rs:120-122
ToLe(n, width) == [i \in 1..width |-> (n \div 256 ^ (i - 1)) % 256]

\* The bytes a mask needs, at least one.
MaskWidth(mask) == IF mask < 256 THEN 1 ELSE IF mask < 65536 THEN 2 ELSE 3  \* eval.rs:108-110

payload_holds(p, bytes) ==
  /\ p.length = <<>> \/ Len(bytes) = p.length[1]
  /\ Len(bytes) >= p.minLength
  /\ \A a \in p.assertByte : a.index < Len(bytes) /\ bytes[a.index + 1] = a.equals
  /\ \A a \in p.assertBits :
       LET end == a.offset + MaskWidth(a.mask)
       IN  /\ end <= Len(bytes)
           /\ Le(SubSeq(bytes, a.offset + 1, end)) & a.mask = a.equals

\* eval.rs:64-77
HasPart(name, part) == \E i \in 0..Len(name) : IsPrefix(part, SubSeq(name, i + 1, Len(name)))

\* A field the platform did not supply makes its predicate false.
RECURSIVE eval_predicate(_, _)
eval_predicate(p, f) ==
  CASE p.op = "all" -> \A i \in DOMAIN p.of : eval_predicate(p.of[i], f)
    [] p.op = "any" -> \E i \in DOMAIN p.of : eval_predicate(p.of[i], f)
    [] p.op = "not" -> ~ eval_predicate(p.of[1], f)
    [] p.op = "mfg" -> /\ f.mfg # <<>>
                       /\ p.company = <<>> \/ p.company[1] = f.mfg[1].company
                       /\ payload_holds(p.payload, f.mfg[1].payload)
    [] p.op = "uuid" -> p.uuid \in Range(f.uuids)
    [] p.op = "service" -> \E s \in Range(f.services) :
                             s.uuid = p.uuid /\ payload_holds(p.payload, s.payload)
    [] p.op = "name" -> /\ f.name # <<>>
                        /\ \/ p.how = "equals" /\ f.name[1] = p.name
                           \/ p.how = "prefix" /\ IsPrefix(p.name, f.name[1])
                           \/ p.how = "contains" /\ HasPart(f.name[1], p.name)
    [] p.op = "tx" -> f.tx # <<>> /\ f.tx[1] >= p.min /\ f.tx[1] <= p.max
    [] p.op = "record" -> \E r \in Range(f.records) :
                            r.type = p.type /\ payload_holds(p.payload, r.payload)

advert_matches(sig, f) == eval_predicate(sig.require, f)  \* eval.rs:32-36

\* The bytes from at, length of them or the rest; none when they are not all there.
window(bytes, at, length) ==  \* eval.rs:271-283
  LET end == IF length = <<>> THEN Len(bytes) ELSE at + length[1]
  IN  IF at > Len(bytes) \/ end > Len(bytes) THEN <<>> ELSE <<SubSeq(bytes, at + 1, end)>>

\* The text of a byte in hexadecimal, the ten being upper or lower case.
Hex(byte, ten) ==
  [i \in 1..2 |-> LET d == IF i = 1 THEN byte \div 16 ELSE byte % 16
                  IN  IF d < 10 THEN 48 + d ELSE ten + d - 10]
UuidText(bytes) ==  \* eval.rs:226-244
  FlattenSeq([i \in 1..16 |-> Hex(bytes[i], 65) \o IF i \in {4, 6, 8, 10} THEN <<45>> ELSE <<>>])

IntegerSized(bytes) == Len(bytes) \in 1..8  \* eval.rs:258-269

apply_one(bytes, t) ==
  CASE t.op = "slice" -> window(bytes, t.at, t.length)
    [] t.op = "dropPrefix" -> window(bytes, t.at, <<>>)
    [] t.op = "reverse" -> <<Reverse(bytes)>>
    [] t.op = "appendNul" -> <<Append(bytes, 0)>>
    [] t.op = "padRight" ->
         IF Len(bytes) > t.at \/ t.at > MaxPad THEN <<>>
         ELSE <<[i \in 1..t.at |-> IF i <= Len(bytes) THEN bytes[i] ELSE t.byte]>>
    [] t.op = "uuid" -> IF Len(bytes) = 16 THEN <<UuidText(bytes)>> ELSE <<>>
    [] t.op = "bits" -> IF ~ IntegerSized(bytes) THEN <<>>
                        ELSE <<ToLe(shiftR(Le(bytes) & t.mask, t.shift), Len(bytes))>>
    [] t.op = "bitOr" -> IF ~ IntegerSized(bytes) THEN <<>>
                         ELSE <<ToLe(Le(bytes) | t.mask, Len(bytes))>>
    [] t.op = "bitAnd" -> IF ~ IntegerSized(bytes) THEN <<>>
                          ELSE <<ToLe(Le(bytes) & t.mask, Len(bytes))>>

RECURSIVE apply_transforms(_, _)
apply_transforms(bytes, chain) ==  \* eval.rs:199-208
  IF chain = <<>> THEN <<bytes>>
  ELSE LET one == apply_one(bytes, Head(chain))
       IN  IF one = <<>> THEN <<>> ELSE apply_transforms(one[1], Tail(chain))

hex_lower(bytes) == FlattenSeq([i \in DOMAIN bytes |-> Hex(bytes[i], 97)])  \* eval.rs:321-328

\* The scope's string for bytes.  A numeral is one element, its value; text is ASCII.
decode_bytes(bytes, encoding) ==  \* eval.rs:285-319
  LET Text(b) == IF \E i \in DOMAIN b : b[i] > 127 THEN <<>> ELSE <<b>>
      ends == {i \in DOMAIN bytes : bytes[i] = 0}
  IN  CASE encoding = "u8" -> IF Len(bytes) = 1 THEN <<bytes>> ELSE <<>>
        [] encoding = "u16le" -> IF Len(bytes) = 2 THEN <<<<Le(bytes)>>>> ELSE <<>>
        [] encoding = "u16be" -> IF Len(bytes) = 2 THEN <<<<Le(Reverse(bytes))>>>> ELSE <<>>
        [] encoding = "bytes" -> <<hex_lower(bytes)>>
        [] encoding = "text" -> Text(bytes)
        [] encoding = "cstring" ->
             Text(IF ends = {} THEN bytes ELSE SubSeq(bytes, 1, Min(ends) - 1))

\* The first source of the kind a capture reads.
capture_source_bytes(cap, f) ==
  LET found == CASE cap.source = "mfg" -> [i \in DOMAIN f.mfg |-> f.mfg[i].payload]
                 [] cap.source = "record" ->
                      LET rs == SelectSeq(f.records, LAMBDA r : r.type = cap.type)
                      IN  [i \in DOMAIN rs |-> rs[i].payload]
                 [] cap.source = "service" ->
                      LET ss == SelectSeq(f.services, LAMBDA s : s.uuid = cap.uuid)
                      IN  [i \in DOMAIN ss |-> ss[i].payload]
                 [] cap.source = "name" -> f.name
  IN  IF found = <<>> THEN <<>> ELSE <<found[1]>>

OnSome(found, Then(_)) == IF found = <<>> THEN <<>> ELSE Then(found[1])

\* What one capture yields; a failure anywhere skips it.
Captured(cap, f) ==  \* eval.rs:129-160
  OnSome(OnSome(OnSome(capture_source_bytes(cap, f),
    LAMBDA b : window(b, cap.at, cap.length)),
    LAMBDA b : apply_transforms(b, cap.transform)),
    LAMBDA b : decode_bytes(b, cap.encoding))

\* Literal facts, and what captures add or replace.
Merged(literals, got) ==  \* eval.rs:134-159
  LET hits == {cap \in DOMAIN got : got[cap] # <<>>}
  IN  [k \in DOMAIN literals \cup {cap.name : cap \in hits} |->
         IF \E cap \in hits : cap.name = k
         THEN got[CHOOSE cap \in hits : cap.name = k][1] ELSE literals[k]]

\* The facts of a matched signature.
advert_scope(sig, f) == Merged(sig.scope, [cap \in Range(sig.capture) |-> Captured(cap, f)])

-----------------------------------------------------------------------------
\* Recognition.

NoScope == [k \in {} |-> <<>>]
NoMatch == [kind |-> "noMatch", models |-> <<>>, connection |-> "", scope |-> NoScope, sure |-> TRUE]

ModelAt(id) == Models[CHOOSE i \in DOMAIN Models : Models[i].id = id]  \* mfg_index.rs:1557
Known(id) == \E i \in DOMAIN Models : Models[i].id = id

\* The first signature of a kind that fits, per model and in file order.
FirstOf(sigs, hits) == IF hits = {} THEN <<>> ELSE <<sigs[Min(hits)]>>  \* mfg_index.rs:1282-1302
FirstFit(model, Fits(_)) ==
  FirstOf(model.signatures, {i \in DOMAIN model.signatures : Fits(model.signatures[i])})

\* Variant in which a reconnect-only signature falls through to a broader one.
FallsThrough(model, f) ==
  FirstFit(model, LAMBDA s : s.kind = "ble" /\ s.discoverable /\ advert_matches(s, f))

\* The signature a model answers an advert with, when that one is discoverable.
BleMatch(model, f) ==  \* mfg_index.rs:1281-1302
  OnSome(FirstFit(model, LAMBDA s : s.kind = "ble" /\ advert_matches(s, f)),
         LAMBDA s : IF s.discoverable THEN <<s>> ELSE <<>>)

\* A baseline is dropped when something more specific matches.
Closest(matches) ==  \* mfg_index.rs:1304-1319
  IF \E m \in Range(matches) : ~ m.model.fallback
  THEN SelectSeq(matches, LAMBDA m : ~ m.model.fallback) ELSE matches

\* The literal facts all signatures agree on.
intersect_scope(sigs) ==
  LET first == sigs[1].scope
      shared == {k \in DOMAIN first : \A i \in DOMAIN sigs :
                   k \in DOMAIN sigs[i].scope /\ sigs[i].scope[k] = first[k]}
  IN  [k \in shared |-> first[k]]

Matched(models, Sig(_)) ==
  SelectSeq([i \in DOMAIN models |-> [model |-> models[i], sig |-> Sig(models[i])]],
            LAMBDA m : m.sig # <<>>)

Ids(matches) == [i \in DOMAIN matches |-> matches[i].model.id]  \* mfg_index.rs:1358-1365

\* None, a candidate with its connection, or several to choose from.
Recognition(matches, Scope(_)) ==
  CASE matches = <<>> -> NoMatch
    [] Len(matches) = 1 ->
         [NoMatch EXCEPT !.kind = "candidate", !.models = Ids(matches), !.scope = Scope(matches),
                         !.connection = matches[1].sig[1].connection]
    [] OTHER ->
         [NoMatch EXCEPT !.kind = "disambiguate", !.models = Ids(matches), !.scope = Scope(matches)]

\* A single match also captures facts of the advert.
MatchScope(matches, f) ==  \* mfg_index.rs:1323-1352
  IF Len(matches) = 1 THEN advert_scope(matches[1].sig[1], f)
  ELSE intersect_scope([i \in DOMAIN matches |-> matches[i].sig[1]])

recognize_ble(models, f) ==
  Recognition(Closest(Matched(models, LAMBDA m : BleMatch(m, f))), LAMBDA found : MatchScope(found, f))

recognize_pcss(models, o) ==
  Recognition(Matched(models, LAMBDA m :
                FirstFit(m, LAMBDA s : s.kind = "pcss" /\ s.name = o.name /\ s.service = o.service)),
              LAMBDA found : [cameraIpv4 |-> <<o.addr>>, cameraName |-> <<o.name>>])

\* mfg_index.rs:1527-1534
connection_platform_matches(c, platform) == c.platforms = {} \/ platform \in c.platforms

\* A connection that may announce itself by this attachment.
UsbFits(c, o) ==  \* mfg_index.rs:1462-1482
  /\ c.available /\ connection_platform_matches(c, o.platform)
  /\ c.discovery.mechanism = "usb" /\ c.discovery.auto
  /\ c.discovery.platforms = {} \/ o.platform \in c.discovery.platforms
  /\ c.discovery.vid = o.vid /\ (c.discovery.pid = <<>> \/ c.discovery.pid[1] = o.pid)

\* Every fitting connection of every model counts; only a product id makes it sure.
UsbAnswer(models, found, scope) ==  \* mfg_index.rs:1486-1524
  CASE found = <<>> -> NoMatch
    [] Len(found) = 1 ->
         [NoMatch EXCEPT !.kind = "candidate", !.models = <<models[found[1][1]].id>>,
            !.connection = found[1][2], !.scope = scope,
            !.sure = Bodies[models[found[1][1]].id][found[1][2]].discovery.pid # <<>>]
    [] OTHER -> [NoMatch EXCEPT !.kind = "disambiguate", !.scope = scope,
                                !.models = [i \in DOMAIN found |-> models[found[i][1]].id]]

recognize_usb_attachment(models, o) ==
  UsbAnswer(models,
    SetToSeq({<<i, c>> \in (DOMAIN models) \X UNION {DOMAIN Bodies[m] : m \in DOMAIN Bodies} :
                /\ models[i].id \in DOMAIN Bodies /\ c \in DOMAIN Bodies[models[i].id]
                /\ UsbFits(Bodies[models[i].id][c], o)}),
    [usbProductId |-> <<o.pid>>])

recognize(models, o) ==
  CASE o.kind = "ble" -> recognize_ble(models, o.facts)
    [] o.kind = "pcss" -> recognize_pcss(models, o)
    [] o.kind = "usb" -> recognize_usb_attachment(models, o)

\* The identity of a model's body, or of the first manifest when that camera is named.
Expected(id) ==  \* camera-protocol-ffi/lib.rs:2719-2724
  IF id \in DOMAIN Identities THEN {Identities[id]}
  ELSE IF id = Primary.name THEN {Primary.identity} ELSE {}

\* Names are compared without case or punctuation; an empty expectation confirms nothing.
confirm_device_info(id, info) ==
  \E e \in Expected(id) : e.maker # "" /\ e.model # "" /\ e = info

-----------------------------------------------------------------------------
\* Plans.

NoPlan == [model |-> "", selector |-> "", registry |-> "", mechanism |-> "", length |-> 0,
           persist |-> {}]

\* The connection's kind selects the registry.
build_establishment(id, selector, mechanism, connectionKind) ==
  LET registry == IF connectionKind = "usb" THEN "usb" ELSE "ble"
      plans == IF Known(id) THEN ModelAt(id).plans[registry] ELSE NoScope
  IN  IF mechanism \notin DOMAIN plans THEN <<>>
      ELSE <<[NoPlan EXCEPT !.model = id, !.selector = selector, !.registry = registry,
                !.mechanism = mechanism, !.length = plans[mechanism].length,
                !.persist = plans[mechanism].persist]>>

establishment(id, connection) ==  \* camera-protocol-ffi/lib.rs:2778-2812
  IF id \notin DOMAIN Bodies \/ connection \notin DOMAIN Bodies[id] THEN <<>>
  ELSE LET c == Bodies[id][connection]
       IN  IF c.establishment = <<>> THEN <<>>
           ELSE build_establishment(id, connection, c.establishment[1], c.kind)

\* The plan a handle stands for: a connection's, or the mechanism of that name.
HandlePlan(id, selector) ==  \* camera-protocol-ffi/lib.rs:4031-4052
  IF id \notin DOMAIN Bodies THEN <<>>
  ELSE IF selector \in DOMAIN Bodies[id] THEN establishment(id, selector)
  ELSE build_establishment(id, selector, selector, "")

refine_establishment(id, selector, nextStep) ==
  LET plan == HandlePlan(id, selector)
  IN  CASE plan = <<>> -> "unknownPlan"
        [] plan # <<>> /\ nextStep > plan[1].length -> "invalidNextStep"
        [] OTHER -> "noChange"

-----------------------------------------------------------------------------
\* Reconnecting.

NoDecision == [kind |-> "noMatch", plan |-> NoPlan, scope |-> NoScope]  \* mfg_index.rs:163-176

\* Variant in which one matching fact is enough.
AnyFact(route, scope, saved) ==
  \E k \in route.identity : k \in DOMAIN scope /\ k \in DOMAIN saved /\ scope[k] = saved[k]

\* Every identity fact was observed, was saved and is the same.
SameCamera(route, scope, saved) ==
  /\ route.identity # {}
  /\ \A k \in route.identity : k \in DOMAIN scope /\ k \in DOMAIN saved /\ scope[k] = saved[k]

Decide(id, f, first) ==  \* mfg_index.rs:1588-1613
  IF first = <<>> THEN NoDecision
  ELSE LET route == first[1].reconnect[1]
           plan  == build_establishment(id, route.mechanism, route.mechanism, "")
       IN  IF plan = <<>> THEN NoDecision
           ELSE [kind |-> route.disposition, plan |-> plan[1], scope |-> advert_scope(first[1], f)]

\* The first signature with a route, a matching advert and the saved identity decides.
reconnect_decision(id, f, saved) ==
  IF ~ Known(id) THEN NoDecision
  ELSE Decide(id, f, FirstFit(ModelAt(id), LAMBDA s :
                       /\ s.kind = "ble" /\ s.reconnect # <<>> /\ advert_matches(s, f)
                       /\ SameCamera(s.reconnect[1], advert_scope(s, f), saved)))

recognize_ready_for_reconnect(models, f, saved) ==
  LET ready == SelectSeq(models, LAMBDA m : reconnect_decision(m.id, f, saved).kind = "ready")
      pairs == [i \in DOMAIN ready |-> [model |-> ready[i]]]
  IN  Ids(Closest(pairs))

-----------------------------------------------------------------------------
\* The host: one camera is recognised, established, saved and come back to.

Idle == [phase |-> "idle", model |-> "", connection |-> "", scope |-> NoScope, plan |-> NoPlan,
         at |-> 0, refined |-> "noChange", saved |-> NoScope, savedModel |-> "", camera |-> "",
         linked |-> ""]
Nothing == [kind |-> "none", cam |-> ""]

Init == host = Idle /\ obs = [seen |-> Nothing, answer |-> NoMatch]

\* A candidate is taken up; of several the user picks one and its connection.
Recognize ==
  /\ host.phase = "idle"
  /\ \E o \in Observations :
       \E answer \in {recognize(Models, o)} :
         /\ obs' = [seen |-> o, answer |-> answer]
         /\ \/ answer.kind = "noMatch" /\ UNCHANGED host
            \/ \E id \in Range(answer.models) :
                 \E c \in (IF answer.kind = "candidate" THEN {answer.connection}
                           ELSE IF id \in DOMAIN Bodies THEN DOMAIN Bodies[id] ELSE {}) :
                   host' = [host EXCEPT !.phase = "found", !.model = id, !.connection = c,
                                        !.scope = answer.scope, !.camera = o.cam]

\* A vendor-level attachment is dropped unless DeviceInfo confirms the model.
Confirm ==
  /\ host.phase = "found"
  /\ \/ obs.answer.sure /\ host' = [host EXCEPT !.phase = "confirmed"]
     \/ /\ ~ obs.answer.sure
        /\ host' = IF confirm_device_info(host.model, obs.seen.info)
                   THEN [host EXCEPT !.phase = "confirmed"] ELSE Idle
  /\ UNCHANGED obs

Establish ==
  /\ host.phase = "confirmed"
  /\ \E plan \in {establishment(host.model, host.connection)} :
       host' = IF plan = <<>> THEN Idle
               ELSE [host EXCEPT !.phase = "walking", !.plan = plan[1], !.at = 0]
  /\ UNCHANGED obs

\* Mid-walk the host asks whether the rest of the plan changes.
Refine ==
  /\ host.phase \in {"walking", "rejoining"}
  /\ host' = [host EXCEPT !.refined = refine_establishment(host.plan.model, host.plan.selector, host.at)]
  /\ UNCHANGED obs

\* Finishing an establishment saves the facts its plan names; finishing a reconnect links.
Walk ==
  /\ host.phase \in {"walking", "rejoining"}
  /\ host' = CASE host.at < host.plan.length -> [host EXCEPT !.at = @ + 1]
               [] host.at = host.plan.length /\ host.phase = "walking" ->
                    [host EXCEPT !.phase = "away", !.savedModel = host.model, !.plan = NoPlan, !.at = 0,
                       !.refined = "noChange",
                       !.saved = [k \in DOMAIN host.scope \cap host.plan.persist |-> host.scope[k]]]
               [] OTHER -> [host EXCEPT !.phase = "away", !.plan = NoPlan, !.at = 0, !.refined = "noChange"]
  /\ UNCHANGED obs

\* A saved camera is looked for: a wake plan is walked and the scan goes on, a ready one links.
Reconnect ==
  /\ host.phase = "away"
  /\ \E o \in {x \in Observations : x.kind = "ble"} :
       \E decision \in {reconnect_decision(host.savedModel, o.facts, host.saved)} :
         /\ obs' = [seen |-> o, answer |-> NoMatch]
         /\ host' = IF decision.kind = "noMatch" THEN [host EXCEPT !.linked = ""]
                    ELSE [host EXCEPT !.phase = "rejoining", !.plan = decision.plan, !.at = 0,
                                      !.linked = o.cam]

Forget == host.phase = "away" /\ host' = Idle /\ obs' = [seen |-> Nothing, answer |-> NoMatch]

Next == Recognize \/ Confirm \/ Establish \/ Refine \/ Walk \/ Reconnect \/ Forget

Spec == Init /\ [][Next]_vars

-----------------------------------------------------------------------------
\* Properties.

\* The host's phase, plan and place in it fit together.
TypeOK ==
  /\ host.phase \in {"idle", "found", "confirmed", "walking", "rejoining", "away"}
  /\ host.at \in 0..host.plan.length
  /\ host.phase \in {"walking", "rejoining"} => host.plan.model # ""

\* A reconnect is only ever to the camera that was saved (reconnect_decision, identity).
RejoinsTheSaved ==
  host.linked # "" => host.linked = host.camera

\* A reconnect's handle names its mechanism, and the body has a connection of that name: the
\* handle then stands for the connection's plan (camera-protocol-ffi/lib.rs:4036-4043).
Shadowed(plan) ==
  host.phase = "rejoining" /\ plan.selector \in DOMAIN Bodies[plan.model]

\* A plan the store handed out is one it recognises again, at every step of its walk, and as
\* the same plan, unless it is a reconnect's and a connection has its mechanism's name
\* (refine_establishment, build_establishment).
HandlesStayValid ==
  (host.phase \in {"walking", "rejoining"} /\ ~ Shadowed(host.plan)) =>
    /\ host.refined = "noChange"
    /\ HandlePlan(host.plan.model, host.plan.selector) = <<host.plan>>

\* What is recognised does not depend on the order in which models are declared, and a
\* baseline is never named beside a more specific model (recognize_ble, Closest).
RecognitionIsStable ==
  LET o == obs.seen
  IN  o.kind # "none" =>
        \A one \in {recognize(Models, o)}, other \in {recognize(Reverse(Models), o)} :
          /\ one.kind = other.kind /\ Range(one.models) = Range(other.models)
          /\ one.scope = other.scope
          /\ o.kind = "ble" =>
               \A id, id2 \in Range(one.models) : ModelAt(id).fallback = ModelAt(id2).fallback

\* An advert whose first signature for a model only serves reconnecting does not announce
\* that model (recognize_ble, the break).
ReconnectOnlyIsHidden ==
  obs.seen.kind = "ble" =>
    \A i \in DOMAIN Models :
      \A first \in {FirstFit(Models[i], LAMBDA s : s.kind = "ble" /\ advert_matches(s, obs.seen.facts))} :
        first # <<>> /\ ~ first[1].discoverable
          => Models[i].id \notin Range(recognize(Models, obs.seen).models)

\* The advisory profiles of a ready advert are ready, and include the saved model unless a
\* more specific one is ready too (recognize_ready_for_reconnect).
ReadyAgrees ==
  (host.phase = "away" /\ obs.seen.kind = "ble") =>
    \A ids \in {Range(recognize_ready_for_reconnect(Models, obs.seen.facts, host.saved))} :
      /\ \A id \in ids : reconnect_decision(id, obs.seen.facts, host.saved).kind = "ready"
      /\ reconnect_decision(host.savedModel, obs.seen.facts, host.saved).kind = "ready" =>
           host.savedModel \in ids \/ ModelAt(host.savedModel).fallback

\* What discovery promises.
DiscoveryIsSound ==
  /\ RejoinsTheSaved /\ HandlesStayValid /\ RecognitionIsStable
  /\ ReconnectOnlyIsHidden /\ ReadyAgrees
===============================================================================
