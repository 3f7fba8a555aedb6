--------------------------- MODULE ObservationReview ---------------------------
(***************************************************************************)
(* From observation bundles to a reviewed manifest                         *)
(* (crates/camera-config/src/generate.rs): bundles are validated as a      *)
(* whole, a valid set becomes a proposal of candidates linked to their     *)
(* records, a review decides every candidate, and the accepted ones are    *)
(* applied to a copy of the base manifest.                                 *)
(*                                                                         *)
(* Texts and hex codes are flagged sound or not; a digest is the content   *)
(* it digests, so that candidates, which the code sorts by digest, are     *)
(* applied in any order within a pass.  Optional values are "none" or, for *)
(* structures, a sequence of at most one.                                  *)
(***************************************************************************)
EXTENDS Integers, Sequences, FiniteSets, SequencesExt, FiniteSetsExt

CONSTANTS Inputs,     \* the sequences of bundles that may be handed in
          Bases,      \* curated manifests to apply to
          MaxInline,  \* payload bytes that may be inlined (MAX_INLINE_PAYLOAD_BYTES)
          MaxLength   \* the largest length a counter holds (2^64 - 1 in the code)

ReviewAssumption == MaxInline \in Nat /\ MaxLength \in Nat

VARIABLES phase,     \* collect, reject, review, reviewed, apply, applied or refused
          bundles,   \* the lines of each bundle, in order
          proposal,  \* candidates, record links and digest
          review,    \* the digest it names, what its author saw, and the decisions
          base,      \* the manifest the review is applied to
          manifest,  \* its copy
          todo       \* candidates of each pass still to apply

vars == <<phase, bundles, proposal, review, base, manifest, todo>>

None == "none"

\* The codes whose condition holds.
Codes(conditions) == {code \in DOMAIN conditions : conditions[code]}

-----------------------------------------------------------------------------
\* Validation of one record against its bundle's header.

Clocks(h) == Range(h.clocks)  \* generate.rs:398-403
Artifacts(h) == {h.arts[i].id : i \in DOMAIN h.arts}  \* generate.rs:586-593
ArtifactLength(h, id) == (CHOOSE a \in Range(h.arts) : a.id = id).length  \* generate.rs:415-420

validate_header(h) ==
  Codes([O040 |-> h.interfaces = 0, O041 |-> h.clocks = <<>>, O043 |-> h.loss,
         O044 |-> h.interfaces > 1 /\ h.sameInterface,
         O045 |-> Cardinality(Clocks(h)) # Len(h.clocks),
         O046 |-> \E m \in h.maps : m[1] = m[2] \/ ~ {m[1], m[2]} \subseteq Clocks(h),
         O047 |-> Cardinality(Artifacts(h)) # Len(h.arts)])

validate_range(r, h) ==
  IF r.art \notin Artifacts(h) THEN {"O070"}
  ELSE Codes([O071 |-> r.length = 0 \/ r.offset + r.length > MaxLength
                       \/ r.offset + r.length > ArtifactLength(h, r.art)])

\* The sum of the artifact ranges wraps at the counter's width.
\* generate.rs:1223-1228
TotalLength(ranges) == FoldSeq(LAMBDA r, sum : sum + r.length, 0, ranges) % (MaxLength + 1)

\* Where the first n stream ranges end; one that overflows is passed over.
StreamEnd(streams, n) ==  \* generate.rs:1182-1199
  FoldLeft(LAMBDA end, r : IF r.offset + r.length > MaxLength THEN end ELSE r.offset + r.length,
           0, SubSeq(streams, 1, n))

validate_payload(p, h) ==
  UNION {validate_range(p.ranges[i], h) : i \in DOMAIN p.ranges}
  \cup Codes([O086 |-> \E i \in DOMAIN p.streams : p.streams[i].length = 0
                         \/ p.streams[i].offset # StreamEnd(p.streams, i - 1),
              O087 |-> \E i \in DOMAIN p.streams :
                         p.streams[i].offset + p.streams[i].length > MaxLength,
              O088 |-> p.streams # <<>> /\ StreamEnd(p.streams, Len(p.streams)) # p.length])
  \cup (IF p.inline # None
        THEN Codes([O080 |-> p.length > MaxInline, O081 |-> p.inline = "odd",
                    O082 |-> p.inline = "short", O083 |-> p.inline \in {"short", "other"}])
        ELSE IF p.length = 0 THEN {}
        ELSE Codes([O084 |-> p.streams = <<>>,
                    O085 |-> p.ranges # <<>> /\ TotalLength(p.ranges) # p.length]))

\* Basis, effect and readback of a control claim; outcome is None for a capability.
validate_orthogonal_claims(outcome, c) ==
  LET seen == c.readback # <<>>
      rb   == c.readback[1]
      ok   == outcome \in {None, "ok"}
  IN  IF c.basis = "descriptor"
      THEN Codes([O111 |-> c.effect # "unknown" \/ seen])
      ELSE Codes(
        [O112 |-> c.effect = "confirmed" /\ ~ (seen /\ rb.request = rb.observed /\ ok),
         O113 |-> /\ c.effect = "ackNoEffect"
                  /\ ~ (seen /\ rb.observed = rb.baseline /\ rb.observed # rb.request /\ ok),
         O114 |-> c.effect = "refused" /\ (seen \/ outcome \notin {None, "nonOk"}),
         O115 |-> c.effect = "clamp" /\ ~ (seen /\ rb.request # rb.observed /\ ok),
         O116 |-> c.effect = "unknown" /\ seen])

ReadbackClock(r, h) ==
  UNION {LET clock == r.claims[i].readback[1].clock
         IN  Codes([O031 |-> clock \notin Clocks(h),
                    O032 |-> clock \in Clocks(h) /\ clock # r.clock
                             /\ ~ \E m \in h.maps : {m[1], m[2]} = {clock, r.clock}]) :
           i \in {j \in DOMAIN r.claims : r.claims[j].readback # <<>>}}

PtpOutcome(r) ==
  Codes([O101 |-> r.outcome = "ok" /\ r.response # "ok",
         O102 |-> r.outcome = "nonOk" /\ r.response # "refused",
         O103 |-> r.outcome \in {"timeout", "abort"} /\ r.response # None,
         O104 |-> r.outcome = "incomplete",
         O110 |-> r.partial])

\* transactions: those of the bundle, which an event may refer to.
EventLink(r, transactions) ==  \* generate.rs:674-692
  LET linked == {t \in transactions : t.rec = r.link}
  IN  Codes([O120 |-> r.link # None /\ linked = {},
             O121 |-> \E t \in linked : <<t.conn, t.sess>> # <<r.conn, r.sess>>])

ExchangeOutcome(r) ==
  Codes([O130 |-> r.outcome = "ok" /\ r.response = None,
         O131 |-> r.outcome \in {"timeout", "abort"} /\ r.response # None,
         O132 |-> r.outcome = "incomplete"])

CapabilityClaim(r) ==
  Codes([O117 |-> r.subject # "identity" /\ ~ r.supported /\ ~ r.complete,
         O119 |-> \E row \in r.rows : row.type # r.ptype])

validate_record(r, h, transactions) ==
  UNION {validate_range(r.ranges[i], h) : i \in DOMAIN r.ranges}
  \cup UNION {validate_payload(r.payload[i], h) : i \in DOMAIN r.payload}
  \cup UNION {validate_orthogonal_claims(r.outcome, r.claims[i]) : i \in DOMAIN r.claims}
  \cup ReadbackClock(r, h)
  \cup CASE r.kind = "ptp" -> PtpOutcome(r)
         [] r.kind = "event" -> EventLink(r, transactions)
         [] r.kind = "http" -> ExchangeOutcome(r)
         [] r.kind = "ble" -> Codes([O100 |-> r.outcome = "incomplete"])
         [] r.kind = "cap" -> CapabilityClaim(r)
         [] OTHER -> {}

-----------------------------------------------------------------------------
\* Validation of a bundle and of all bundles: the codes of each line.

Parsed(b) == {i \in DOMAIN b : b[i].kind # "bad"}  \* generate.rs:425-431
Headers(b) == {i \in DOMAIN b : b[i].kind = "header"}  \* generate.rs:364-370

validate_bundle(b) ==
  IF Cardinality(Headers(b)) # 1
  THEN [i \in DOMAIN b |-> {"O010"} \cup (IF b[i].kind = "bad" THEN {b[i].code} ELSE {})]
  ELSE LET at   == CHOOSE i \in Headers(b) : TRUE
           h    == b[at]
           Own  == {i \in Parsed(b) : b[i].run = h.run}
           Ptps == {b[i] : i \in {j \in Own : b[j].kind = "ptp"}}
           Twice(i, Same(_, _)) == i \in Own /\ \E j \in Own \ {i} : Same(b[i], b[j])
           SameTransaction(x, y) ==
             /\ x.kind = "ptp" /\ y.kind = "ptp"
             /\ <<x.conn, x.sess, x.endpoints, x.tid>> = <<y.conn, y.sess, y.endpoints, y.tid>>
           OfLine(i) ==
             Codes([O011 |-> i = at /\ at # 1,
                    O012 |-> i = at /\ h.ord # 0,
                    O014 |-> b[i].run # h.run,
                    O020 |-> Twice(i, LAMBDA x, y : x.rec = y.rec),
                    O021 |-> Twice(i, LAMBDA x, y : x.ord = y.ord),
                    O022 |-> Twice(i, SameTransaction),
                    O023 |-> i # at /\ b[i].ord = 0,
                    O050 |-> ~ b[i].sound])
             \cup (IF i = at THEN validate_header(h)
                   ELSE Codes([O030 |-> b[i].clock \notin Clocks(h)])
                        \cup validate_record(b[i], h, Ptps))
       IN  [i \in DOMAIN b |-> IF b[i].kind = "bad" THEN {b[i].code} ELSE OfLine(i)]

Places(bs) == UNION {{<<k, i>> : i \in DOMAIN bs[k]} : k \in DOMAIN bs}  \* generate.rs:210-224
At(bs, p) == bs[p[1]][p[2]]  \* generate.rs:226-256

DuplicateRun(bs, p) ==  \* generate.rs:513-529
  /\ At(bs, p).kind = "header"
  /\ \E q \in Places(bs) \ {p} : At(bs, q).kind = "header" /\ At(bs, q).run = At(bs, p).run

option_conflicts(x, y) == x # None /\ y # None /\ x # y  \* generate.rs:1091-1093

\* What two facts on one property may not disagree on, whatever their scopes.
capability_subjects_conflict_across_scopes(x, y) ==
  /\ x.subject = "property"
  /\ \/ option_conflicts(x.ptype, y.ptype)
     \/ option_conflicts(x.access, y.access)
     \/ option_conflicts(x.descriptor, y.descriptor)
     \/ \E l \in x.labels, m \in y.labels : l[1] = m[1] /\ l[2] # m[2]
     \/ \E l \in x.profiles, m \in y.profiles : l.scope = m.scope /\ l.rows # m.rows

capability_subjects_conflict(x, y) ==
  \/ x.subject = "identity" /\ x.version # y.version
  \/ x.subject # "identity" /\ x.supported # y.supported
  \/ capability_subjects_conflict_across_scopes(x, y)

Facts(bs, p) ==
  {q \in Places(bs) : /\ At(bs, q).kind = "cap"
                      /\ At(bs, q).subject = At(bs, p).subject /\ At(bs, q).code = At(bs, p).code}

\* Variant that only compares a fact with those before it.
FirstComeConflicts(bs, p) ==
  IF At(bs, p).kind # "cap" THEN {}
  ELSE Codes([O400 |-> \E q \in Facts(bs, p) :
                         /\ q[1] < p[1] /\ At(bs, q).ctx = At(bs, p).ctx
                         /\ capability_subjects_conflict(At(bs, q), At(bs, p))])

\* All facts of a group are rejected when two of them conflict.
validate_conflicts(bs, p) ==
  IF At(bs, p).kind # "cap" THEN {}
  ELSE LET group == Facts(bs, p)
           scope == {q \in group : At(bs, q).ctx = At(bs, p).ctx}
       IN  Codes([O400 |-> \E q, r \in scope : capability_subjects_conflict(At(bs, q), At(bs, r)),
                  O401 |-> \E q, r \in group :
                             /\ At(bs, q).ctx # At(bs, r).ctx
                             /\ capability_subjects_conflict_across_scopes(At(bs, q), At(bs, r))])

MissingHeader == [kind |-> "bundle:missing-header"]  \* generate.rs:350-359

\* The rejections of every line, as <<line, code>>; an empty bundle has no line and
\* one of its own.
validate_bundles(bs) ==
  {<<MissingHeader, "O010">> : k \in {j \in DOMAIN bs : bs[j] = <<>>}}
  \cup UNION {{<<At(bs, p), code>> :
                 code \in validate_bundle(bs[p[1]])[p[2]] \cup validate_conflicts(bs, p)
                          \cup (IF DuplicateRun(bs, p) THEN {"O013"} ELSE {})} : p \in Places(bs)}

-----------------------------------------------------------------------------
\* propose.

Identity(r) == r.run \o ":" \o r.rec  \* generate.rs:312-322

Records(bs) == {At(bs, p) : p \in Places(bs)}  \* generate.rs:264-271

\* A candidate is its assertion; the records and scopes that support it are merged.
Candidate(assertion, records, scopes) ==  \* generate.rs:1509-1525
  [assertion |-> assertion, sources |-> {Identity(r) : r \in records}, scopes |-> scopes]

\* generate.rs:1299-1303
Caps(bs, subject) == {r \in Records(bs) : r.kind = "cap" /\ r.subject = subject}

\* The one value the records of a group assert; validation left no second one.
Asserted(group, Field(_)) ==
  LET values == {Field(r) : r \in group} \ {None}
  IN  IF values = {} THEN None ELSE CHOOSE v \in values : TRUE

Groups(bs, subject) ==
  {{r \in Caps(bs, subject) : <<r.code, r.supported, r.complete>> = key} :
     key \in {<<r.code, r.supported, r.complete>> : r \in Caps(bs, subject)}}

Scopes(group) == {r.ctx : r \in group}  \* generate.rs:1400-1411

\* One record of a group, for what its members have in common.
Of(group) == CHOOSE r \in group : TRUE  \* generate.rs:1394-1396

SupportCandidates(bs, subject) ==
  {Candidate([kind |-> subject, code |-> Of(g).code, supported |-> Of(g).supported,
              complete |-> Of(g).complete, ptype |-> Asserted(g, LAMBDA r : r.ptype),
              access |-> Asserted(g, LAMBDA r : r.access), scopes |-> Scopes(g)], g, {}) :
     g \in Groups(bs, subject)}

DescriptorCandidates(bs) ==  \* generate.rs:1442-1458
  {Candidate([kind |-> "descriptor", code |-> Of(g).code, supported |-> Of(g).supported,
              complete |-> Of(g).complete, descriptor |-> Asserted(g, LAMBDA r : r.descriptor),
              scopes |-> Scopes(g)], g, {}) :
     g \in {h \in Groups(bs, "property") : \E r \in h : r.descriptor # None}}

LabelCandidates(bs) ==  \* generate.rs:1459-1475
  {Candidate([kind |-> "labels", code |-> Of(g).code, supported |-> Of(g).supported,
              complete |-> Of(g).complete, labels |-> UNION {r.labels : r \in g},
              scopes |-> Scopes({r \in g : r.labels # {}})], {r \in g : r.labels # {}}, {}) :
     g \in {h \in Groups(bs, "property") : \E r \in h : r.labels # {}}}

\* generate.rs:1306-1320
Named(bs) == {r \in Caps(bs, "operation") \cup Caps(bs, "property") : r.name # None}

NameCandidates(bs) ==
  {Candidate([kind |-> "name", subject |-> s.subject, code |-> s.code, name |-> s.name],
             {r \in Named(bs) : <<r.subject, r.code, r.name>> = <<s.subject, s.code, s.name>>}, {}) :
     s \in Named(bs)}

SourceNativeCandidates(bs) ==  \* generate.rs:1349-1358
  {Candidate([kind |-> "native", code |-> s.code, name |-> s.native],
             {r \in Caps(bs, "property") : r.code = s.code /\ r.native = s.native}, {}) :
     s \in {r \in Caps(bs, "property") : r.native # None}}

RowCandidates(bs) ==  \* generate.rs:1359-1369
  UNION {{Candidate([kind |-> "row", code |-> s.code, row |-> row],
                    {r \in Caps(bs, "property") : r.code = s.code /\ row \in r.rows}, {}) :
            row \in s.rows} : s \in Caps(bs, "property")}

ProfileCandidates(bs) ==
  UNION {{LET rs == {r \in Caps(bs, "property") : r.code = s.code /\ profile \in r.profiles}
          IN  Candidate([kind |-> "profile", code |-> s.code, profile |-> profile], rs, Scopes(rs)) :
            profile \in s.profiles} : s \in Caps(bs, "property")}

HeaderRecords(bs) == {r \in Records(bs) : r.kind = "header"}  \* generate.rs:1251-1266

IdentityCandidates(bs) ==  \* generate.rs:1267-1278
  {Candidate([kind |-> "identity", camera |-> h.camera], HeaderRecords(bs), {}) :
     h \in HeaderRecords(bs)}

Candidates(bs) ==
  IdentityCandidates(bs) \cup SupportCandidates(bs, "operation")
  \cup SupportCandidates(bs, "property") \cup DescriptorCandidates(bs)
  \cup LabelCandidates(bs) \cup NameCandidates(bs) \cup SourceNativeCandidates(bs)
  \cup RowCandidates(bs) \cup ProfileCandidates(bs)

Linked(cs, identity) == {c.assertion : c \in {d \in cs : identity \in d.sources}}

propose(bs) ==  \* generate.rs:1499-1507
  LET cs    == Candidates(bs)
      links == [id \in {Identity(r) : r \in Records(bs)} |-> Linked(cs, id)]
  IN  [candidates |-> cs, links |-> links, digest |-> <<cs, links>>,
       unique |-> Cardinality(DOMAIN links) = Cardinality(Records(bs))]

\* unique: no two record dispositions have one identity.
require_proposal_integrity(p) ==
  /\ p.unique
  /\ \A c, d \in p.candidates : c.assertion = d.assertion => c = d
  /\ \A c \in p.candidates :
       /\ c.sources # {} /\ c.sources \subseteq DOMAIN p.links
       /\ \A id \in c.sources : c.assertion \in p.links[id]
  /\ \A id \in DOMAIN p.links : \A a \in p.links[id] :
       \E c \in p.candidates : c.assertion = a /\ id \in c.sources
  /\ p.digest = <<p.candidates, p.links>>

-----------------------------------------------------------------------------
\* apply_candidate: the manifest after it, or Conflict.

Conflict == [conflict |-> TRUE]  \* generate.rs:164-180

is_semantic_candidate(a) == a.kind \in {"name", "native", "row", "profile"}  \* generate.rs:1635-1644

Modes(scopes) == {s[2] : s \in scopes}  \* generate.rs:1799-1804
Connections(scopes) == {s[1] : s \in scopes}  \* generate.rs:1805-1810

\* An entry not in the base has its generated name; an operation, the modes and
\* connections of the candidate that creates it.
NewEntry(a) ==  \* generate.rs:1811-1837
  LET within == IF a.kind = "operation" THEN a.scopes ELSE {}
  IN  [name |-> "raw", asserted |-> None, ptp_name |-> None, sourced |-> None, ptype |-> None,
       access |-> None, descriptor |-> None, modes |-> Modes(within),
       connections |-> Connections(within), labels |-> {}, rows |-> {}, profiles |-> {},
       scopes |-> {}]

\* generate.rs:1929-1931
Key(a) == <<IF a.kind = "operation" THEN "operation" ELSE "property", a.code>>

Put(m, key, entry) ==  \* generate.rs:1932-1955
  [m EXCEPT !.entries = [k \in DOMAIN m.entries \cup {key} |->
                           IF k = key THEN entry ELSE m.entries[k]]]

WithModes(m, modes) == [m EXCEPT !.modes = @ \cup modes]  \* generate.rs:2292-2300

apply_identity(m, a) ==
  IF m.camera \notin {None, a.camera} THEN Conflict ELSE [m EXCEPT !.camera = a.camera]

\* The two access values a manifest can hold; any other asserts none.
\* generate.rs:2284-2290
parse_property_access(access) == IF access \in {"readOnly", "readWrite"} THEN access ELSE None

OrElse(value, default) == IF value = None THEN default ELSE value  \* generate.rs:1956-1964

Supports(a) == a.kind \in {"operation", "property", "descriptor", "labels"}

\* generate.rs:1811-1814
Entry(m, a) == IF Key(a) \in DOMAIN m.entries THEN m.entries[Key(a)] ELSE NewEntry(a)

\* A candidate that asserts no support changes nothing.
apply_operation(m, a) ==
  IF ~ a.supported THEN m
  ELSE WithModes(Put(m, Key(a), [Entry(m, a) EXCEPT !.scopes = @ \cup a.scopes]), Modes(a.scopes))

\* A descriptor whose values are neither integers nor strings is refused.
apply_property(m, a) ==
  IF ~ a.supported THEN m
  ELSE IF a.kind = "descriptor" /\ a.descriptor = "untyped" THEN Conflict
  ELSE LET new == [Entry(m, a) EXCEPT
                     !.scopes = @ \cup a.scopes,
                     !.ptype = IF a.kind = "property" THEN OrElse(a.ptype, @) ELSE @,
                     !.access = IF a.kind = "property"
                                THEN OrElse(parse_property_access(a.access), @) ELSE @,
                     !.descriptor = IF a.kind = "descriptor" THEN a.descriptor ELSE @,
                     !.labels = IF a.kind = "labels"
                                THEN {l \in @ : \A n \in a.labels : n[1] # l[1]} \cup a.labels
                                ELSE @]
       IN  WithModes(Put(m, Key(a), new), Modes(a.scopes))

\* Variant in which an observed name replaces a curated one.
RenamesCurated(m, a) ==
  LET key == <<a.subject, a.code>>
  IN  IF key \notin DOMAIN m.entries THEN Conflict
      ELSE Put(m, key, [m.entries[key] EXCEPT !.name = a.name, !.asserted = a.name])

\* A curated name is kept: only the generated one, or the same, gives way.
NameConflicts(e, name) == e.name \notin {"raw", name} \/ e.asserted \notin {None, name}

apply_name(m, a) ==
  LET key == <<a.subject, a.code>>
  IN  IF key \notin DOMAIN m.entries THEN Conflict
      ELSE IF NameConflicts(m.entries[key], a.name) THEN Conflict
      ELSE Put(m, key, [m.entries[key] EXCEPT !.name = a.name, !.asserted = a.name])

\* A source-native name, curated or asserted, is never replaced by another.
apply_source_native(m, a) ==
  LET key == <<"property", a.code>>
  IN  IF key \notin DOMAIN m.entries THEN Conflict
      ELSE IF ~ {m.entries[key].ptp_name, m.entries[key].sourced} \subseteq {None, a.name} THEN Conflict
      ELSE Put(m, key, [m.entries[key] EXCEPT !.ptp_name = a.name, !.sourced = a.name])

apply_row(m, a) ==
  LET key == <<"property", a.code>>
  IN  IF key \notin DOMAIN m.entries THEN Conflict
      ELSE LET e == m.entries[key]
           IN  IF e.ptype # a.row.type
                  \/ \E r \in e.rows : r.value = a.row.value /\ r.label # a.row.label
               THEN Conflict
               ELSE Put(m, key, [e EXCEPT !.rows = @ \cup {a.row}])

apply_profile(m, c) ==
  LET a == c.assertion
      key == <<"property", a.code>>
  IN  IF key \notin DOMAIN m.entries THEN Conflict
      ELSE LET e == m.entries[key]
           IN  WithModes(Put(m, key, [e EXCEPT !.profiles =
                             {p \in @ : p.scope # a.profile.scope} \cup {a.profile}]), Modes(c.scopes))

apply_candidate(m, c) ==  \* generate.rs:1757-1761
  LET a == c.assertion
  IN  CASE a.kind = "identity" -> apply_identity(m, a)
        [] a.kind = "name" -> apply_name(m, a)
        [] a.kind = "native" -> apply_source_native(m, a)
        [] a.kind = "row" -> apply_row(m, a)
        [] a.kind = "profile" -> apply_profile(m, c)
        [] a.kind = "operation" -> apply_operation(m, a)
        [] OTHER -> apply_property(m, a)

-----------------------------------------------------------------------------
\* The workflow.

NoProposal == [candidates |-> {}, links |-> << >>, digest |-> <<{}, << >>>>, unique |-> TRUE]

NoReview == [schema |-> TRUE, digest |-> NoProposal.digest, seen |-> {}, accepts |-> << >>]

Init ==  \* generate.rs:1583-1587
  /\ phase = "collect"
  /\ bundles \in Inputs
  /\ proposal = NoProposal
  /\ review = NoReview
  /\ base \in Bases
  /\ manifest = base
  /\ todo = {}

\* Validation rejects the whole input or none of it.
Propose ==
  /\ phase = "collect"
  /\ IF validate_bundles(bundles) = {}
     THEN /\ phase' = "review"
          /\ proposal' = propose(bundles)
     ELSE /\ phase' = "reject"
          /\ UNCHANGED proposal
  /\ UNCHANGED <<bundles, review, base, manifest, todo>>

\* A proposal edited after it was made no longer matches its digest or its links.
Edited ==
  /\ phase = "review" /\ require_proposal_integrity(proposal)
  /\ \E c \in proposal.candidates :
       LET cs == proposal.candidates \ {c}
       IN  proposal' \in {[proposal EXCEPT !.candidates = cs],
                          [proposal EXCEPT !.candidates = cs, !.digest = <<cs, proposal.links>>]}
  /\ UNCHANGED <<phase, bundles, review, base, manifest, todo>>

Ids(candidates) == {c.assertion : c \in candidates}  \* generate.rs:1518

\* A review is written for a proposal: it names its digest and decides its candidates,
\* or leaves one out, or has another schema (those two with nothing accepted).
Write ==
  /\ phase = "review"
  /\ \E decided \in {Ids(proposal.candidates)} \cup {Ids(proposal.candidates) \ {a} : a \in Ids(proposal.candidates)},
        schema \in BOOLEAN :
       \E accepted \in IF schema /\ decided = Ids(proposal.candidates) THEN SUBSET decided ELSE {{}} :
         review' = [schema |-> schema, digest |-> proposal.digest, seen |-> proposal.candidates,
                    accepts |-> [a \in decided |-> a \in accepted]]
  /\ phase' = "reviewed"
  /\ UNCHANGED <<bundles, proposal, base, manifest, todo>>

\* The proposal is made again, from some of the bundles, after its review was written (one
\* that accepts all of it).
Proposed ==
  /\ phase = "reviewed" /\ proposal.digest = review.digest /\ Len(bundles) > 1
  /\ \A a \in DOMAIN review.accepts : review.accepts[a]
  /\ \E k \in DOMAIN bundles : proposal' = propose(<<bundles[k]>>)
  /\ UNCHANGED <<phase, bundles, review, base, manifest, todo>>

\* Variant that trusts the candidates a review covers.
CoversOnly(r, p) == r.schema /\ DOMAIN r.accepts = Ids(p.candidates)

\* The review is of this schema, of this proposal and decides all of its candidates.
Covers(r, p) ==
  /\ r.schema
  /\ r.digest = p.digest
  /\ DOMAIN r.accepts = Ids(p.candidates)

\* apply_review's checks come before any change.
Review ==
  /\ phase = "reviewed"
  /\ IF require_proposal_integrity(proposal) /\ Covers(review, proposal)
     THEN /\ phase' = "apply"
          /\ todo' = {c \in proposal.candidates : review.accepts[c.assertion]}
     ELSE /\ phase' = "refused"
          /\ UNCHANGED todo
  /\ UNCHANGED <<bundles, proposal, review, base, manifest>>

\* Variant with a single pass.
OnePass == todo

\* Candidates that add entries come before those that name them.
Ready ==
  LET first == {c \in todo : ~ is_semantic_candidate(c.assertion)}
  IN  IF first # {} THEN first ELSE todo

Apply ==
  /\ phase = "apply"
  /\ \E c \in Ready :
       LET m == apply_candidate(manifest, c)
       IN  IF m = Conflict
           THEN /\ phase' = "refused"
                /\ manifest' = base
                /\ todo' = {}
           ELSE /\ manifest' = m
                /\ todo' = todo \ {c}
                /\ UNCHANGED phase
  /\ UNCHANGED <<bundles, proposal, review, base>>

\* The finished manifest must load like any other.
Finish ==
  /\ phase = "apply" /\ todo = {}
  /\ \/ phase' = "applied" /\ UNCHANGED manifest
     \/ phase' = "refused" /\ manifest' = base
  /\ UNCHANGED <<bundles, proposal, review, base, todo>>

Next == Propose \/ Edited \/ Write \/ Proposed \/ Review \/ Apply \/ Finish

Spec == Init /\ [][Next]_vars

-----------------------------------------------------------------------------
\* Properties.

\* The variables have their types; a refused review leaves the base as it was.
TypeOK ==
  /\ phase \in {"collect", "reject", "review", "reviewed", "apply", "applied", "refused"}
  /\ bundles \in Inputs
  /\ todo \subseteq proposal.candidates
  /\ (phase \in {"reject", "refused"} => manifest = base)

Accepted == {a \in DOMAIN review.accepts : review.accepts[a]}

\* The verdict on a set of bundles does not depend on the order they are given in:
\* the same lines are rejected for the same reasons (validate_bundles sorts its
\* report and compares every pair of facts).
VerdictIgnoresOrder ==
  phase \in {"reject", "review"} => validate_bundles(Reverse(bundles)) = validate_bundles(bundles)

\* Every proposal made from valid bundles passes the integrity check that guards its
\* application unless two records have one identity, and is the same for the bundles in
\* another order (propose, require_proposal_integrity).
ProposalIsSound ==
  LET made == propose(bundles)
  IN  phase = "review" =>
        /\ propose(Reverse(bundles)) = made
        /\ made.unique => require_proposal_integrity(made)

\* What is applied was decided by someone who saw it: the candidates of the proposal, with
\* the records and scopes that support them, are those its review was written for, so
\* that decisions made on another proposal, even one that asserts the same, are never
\* applied (apply_review, require_proposal_integrity).
DecisionsBind ==
  phase \in {"apply", "applied"} =>
    /\ proposal.candidates = review.seen
    /\ {c.assertion : c \in todo} \subseteq Accepted

Support(key) == {a \in Accepted : Supports(a) /\ a.supported /\ Key(a) = key}

\* What the accepted candidates say, without any order, of the fields of an entry.
Expected(key) ==
  LET Names   == {a \in Accepted : a.kind = "name" /\ <<a.subject, a.code>> = key}
      Asserting(kind) == {a \in Accepted : a.kind = kind /\ <<"property", a.code>> = key}
      Before  == IF key \in DOMAIN base.entries THEN base.entries[key] ELSE NewEntry([kind |-> "none"])
      Labels  == UNION {a.labels : a \in {s \in Support(key) : s.kind = "labels"}}
      Profiles == {a.profile : a \in Asserting("profile")}
      The(kind, Field(_), default) ==
        LET values == {Field(a) : a \in {s \in Support(key) : s.kind = kind}} \ {None}
        IN  IF values = {} THEN default ELSE CHOOSE v \in values : TRUE
  IN  [scopes |-> Before.scopes \cup UNION {a.scopes : a \in Support(key)},
       ptype  |-> The("property", LAMBDA a : a.ptype, Before.ptype),
       access |-> The("property", LAMBDA a : parse_property_access(a.access), Before.access),
       descriptor |-> The("descriptor", LAMBDA a : a.descriptor, Before.descriptor),
       name   |-> IF Names = {} THEN Before.name ELSE (CHOOSE a \in Names : TRUE).name,
       ptp_name |-> IF Asserting("native") = {} THEN Before.ptp_name
                    ELSE (CHOOSE a \in Asserting("native") : TRUE).name,
       profiles |-> {p \in Before.profiles : \A q \in Profiles : q.scope # p.scope} \cup Profiles,
       labels |-> {l \in Before.labels : \A n \in Labels : n[1] # l[1]} \cup Labels,
       rows   |-> Before.rows \cup {a.row : a \in Asserting("row")}]

\* The modes and connections of an entry are the base's.  Those of a new operation are of
\* one of its accepted candidates, the first by digest, when it has several (a complete
\* and a partial inventory): the one thing in which the order of the digests shows.
Within(key) ==
  LET e == manifest.entries[key]
      Place(f) == <<f.modes, f.connections>>
  IN  IF key \in DOMAIN base.entries THEN Place(e) = Place(base.entries[key])
      ELSE \E a \in Support(key) : Place(e) = Place(NewEntry(a))

\* The camera and the modes of the applied manifest.
ModesAndCamera ==
  LET cameras == {a.camera : a \in {b \in Accepted : b.kind = "identity"}}
      scopes  == UNION {c.scopes : c \in {d \in proposal.candidates : d.assertion \in Accepted}}
                 \cup UNION {a.scopes : a \in {b \in Accepted : Supports(b) /\ b.supported}}
  IN  /\ manifest.modes = base.modes \cup Modes(scopes)
      /\ IF cameras = {} THEN manifest.camera = base.camera ELSE {manifest.camera} = cameras

\* An applied manifest says what the base and the accepted candidates say, whatever the
\* order in which their digests sort them (but see Within); a candidate that was not
\* accepted leaves no trace, and a curated name is never replaced (apply_review).
ManifestIsEarned ==
  phase = "applied" =>
    /\ DOMAIN manifest.entries =
         DOMAIN base.entries \cup {Key(a) : a \in {s \in Accepted : Supports(s) /\ s.supported}}
    /\ \A key \in DOMAIN manifest.entries :
         /\ \A field \in DOMAIN Expected(key) : manifest.entries[key][field] = Expected(key)[field]
         /\ Within(key)
    /\ \A key \in DOMAIN base.entries :
         base.entries[key].name # "raw" => manifest.entries[key].name = base.entries[key].name
    /\ ModesAndCamera

\* A name, row or profile is refused for want of its entry only when neither the base
\* nor any accepted candidate provides it, never because of the order of the digests
\* (the two passes of apply_review).
RefusalIsReal ==
  phase = "apply" =>
    \A c \in Ready :
      is_semantic_candidate(c.assertion) =>
        LET key == <<IF c.assertion.kind = "name" THEN c.assertion.subject ELSE "property",
                     c.assertion.code>>
        IN  key \in DOMAIN manifest.entries
            \/ ~ \E a \in Accepted : Supports(a) /\ a.supported /\ Key(a) = key

\* What the workflow promises.
ReviewIsFaithful ==
  VerdictIgnoresOrder /\ ProposalIsSound /\ DecisionsBind /\ ManifestIsEarned /\ RefusalIsReal
===============================================================================
