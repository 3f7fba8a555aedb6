------------------------------- MODULE Faults -------------------------------
(***************************************************************************)
(* Fault injection on the command channel: a registry of rules, each with  *)
(* a selector that counts the matching transactions and is armed for a     *)
(* window of them, and a mutation.  The engine selects a rule and mutates  *)
(* the reply under its lock; the service writes the phases of the reply    *)
(* as the wire plan of the mutation says, and records a trace event.       *)
(*                                                                         *)
(* A selector is the set of requests it matches, with its skip and its     *)
(* count.  The body of a data phase is what became of the real one.        *)
(***************************************************************************)
EXTENDS Naturals, Sequences, FiniteSets, FiniteSetTheorems, WellFoundedInduction,
        NaturalsInduction, TLAPS

CONSTANTS
  Conns,       \* command tasks
  Requests,
  Selectors,   \* records: match, skip, count
  Used,        \* the mutations that rules are installed with
  Kinds,       \* the kinds of answers that operations give
  Forever,     \* the count of a selector that is never exhausted
  MaxSeen,     \* the largest value of the counters, which saturate
  MaxRules,    \* bound: rules installed in all
  MaxOps       \* bound: transactions in all

Mutations ==
  {"failResponse", "closeCommand", "closeData", "closeResponse", "delayData",
   "delayResponse", "suppressData", "suppressResponse", "truncateData", "replaceData",
   "replaceTransactionId", "dataFraming", "propertyReadback"}

ASSUME FaultAssumption ==
  /\ IsFiniteSet(Conns)
  /\ MaxSeen \in Nat /\ MaxRules \in Nat /\ MaxOps \in Nat
  /\ Forever \notin Nat
  /\ Selectors \subseteq [match : SUBSET Requests, skip : Nat, count : Nat \cup {Forever}]
  /\ Used \subseteq Mutations

VARIABLES
  next_id,
  rules,       \* a sequence of records: id, selector, mutation, seen, applied
  last,        \* last_applied: the id of a rule, or 0
  tx,          \* the reply each command task has to write
  done,        \* history: the last reply it wrote
  events,      \* history: the number of ptpip.fault.applied events
  aborted,     \* history: faulted transactions that ended before their reply
  faulted,     \* history: transactions a rule applied to
  ops,         \* history: transactions
  occ,         \* history: of each rule, the transactions it matched
  hits,        \* history: of each rule, the occurrences it applied to
  ceded        \* history: of each rule, the occurrences another one applied to

faultVars == <<next_id, rules, last, tx, done, events, aborted, faulted, ops, occ, hits, ceded>>

registry == <<next_id, rules, last>>
history  == <<events, aborted, faulted, ops, occ, hits, ceded>>

\* What an operation answers: a kind of reply, what its data is, and whether the
\* stream acknowledges a queue when it is complete.
Reply(kind, body, completion) == [kind |-> kind, body |-> body, completion |-> completion]

\* The answers of dispatch_operation.
Answers ==
  {a \in {Reply("response", "-", FALSE), Reply("data", "own", FALSE), Reply("stream", "own", FALSE),
           Reply("stream", "own", TRUE), Reply("none", "-", FALSE)} : a.kind \in Kinds}

NoTx == [mutation |-> "none", answer |-> Reply("none", "-", FALSE),
         reply |-> Reply("none", "-", FALSE), stage |-> "idle"]

Nothing == [mutation |-> "none", answer |-> Reply("none", "-", FALSE), phases |-> <<>>,
            body |-> "-", closed |-> FALSE, completion |-> FALSE, marker |-> "none"]

Ids == 1..MaxRules

FaultInit ==
  /\ next_id = 1
  /\ rules = <<>>
  /\ last = 0
  /\ tx = [c \in Conns |-> NoTx]
  /\ done = [c \in Conns |-> Nothing]
  /\ events = 0 /\ aborted = 0 /\ faulted = 0 /\ ops = 0
  /\ occ = [i \in Ids |-> 0]
  /\ hits = [i \in Ids |-> {}]
  /\ ceded = [i \in Ids |-> {}]

-----------------------------------------------------------------------------
\* Variant that puts the youngest rule first.
InsertFirst(s, mu) ==
  /\ next_id <= MaxRules
  /\ rules' = <<[id |-> next_id, selector |-> s, mutation |-> mu, seen |-> 0, applied |-> 0]>> \o rules
  /\ next_id' = next_id + 1
  /\ UNCHANGED <<last, tx, done, history>>

\* try_insert, with a mutation that is valid.
Insert(s, mu) ==
  /\ next_id <= MaxRules
  /\ rules' = Append(rules, [id |-> next_id, selector |-> s, mutation |-> mu, seen |-> 0, applied |-> 0])
  /\ next_id' = next_id + 1
  /\ UNCHANGED <<last, tx, done, history>>

\* retain, of a list in which one rule has the id.
Without(i) == [j \in 1..(Len(rules) - 1) |-> IF j < i THEN rules[j] ELSE rules[j + 1]]

Remove(id) ==
  /\ \E i \in 1..Len(rules) : rules[i].id = id /\ rules' = Without(i)
  /\ last' = IF last = id THEN 0 ELSE last
  /\ UNCHANGED <<next_id, tx, done, history>>

Clear ==
  /\ rules # <<>>
  /\ rules' = <<>>
  /\ last' = 0
  /\ UNCHANGED <<next_id, tx, done, history>>

-----------------------------------------------------------------------------
Saturating(n) == IF n < MaxSeen THEN n + 1 ELSE MaxSeen

Matches(rule, r) == r \in rule.selector.match

armed(s, seen) ==
  /\ seen >= s.skip
  /\ s.count = Forever \/ seen - s.skip < s.count

exhausted(s, seen) ==
  /\ s.count # Forever
  /\ seen >= (IF s.skip + s.count <= MaxSeen THEN s.skip + s.count ELSE MaxSeen)

\* The rules that are armed for a request, by their place in the registry.
Armed(r) ==
  {i \in 1..Len(rules) : Matches(rules[i], r) /\ armed(rules[i].selector, rules[i].seen)}

\* The first armed rule; 0 if there is none.
Selected(r) ==
  IF Armed(r) = {} THEN 0 ELSE CHOOSE i \in Armed(r) : \A j \in Armed(r) : i <= j

\* Variant that stops counting at the rule that applies.
CountedUpTo(r) ==
  [i \in 1..Len(rules) |->
     [rules[i] EXCEPT !.seen = IF Matches(rules[i], r) /\ (Selected(r) = 0 \/ i <= Selected(r))
                               THEN Saturating(@) ELSE @,
                      !.applied = IF i = Selected(r) THEN Saturating(@) ELSE @]]

\* apply: every matching rule counts, the selected one applies.
Counted(r) ==
  [i \in 1..Len(rules) |->
     [rules[i] EXCEPT !.seen = IF Matches(rules[i], r) THEN Saturating(@) ELSE @,
                      !.applied = IF i = Selected(r) THEN Saturating(@) ELSE @]]

\* Variant that truncates a stream and lets it acknowledge its queue.
MutatedKeeps(mu, a) ==
  CASE mu = "failResponse" -> Reply("response", "-", FALSE)
    [] mu = "closeCommand" -> Reply("close", "-", FALSE)
    [] mu = "suppressResponse" /\ a.kind = "response" -> Reply("none", "-", FALSE)
    [] mu = "truncateData" /\ a.kind \in {"data", "stream"} -> Reply(a.kind, "cut", a.completion)
    [] mu = "replaceData" /\ a.kind \in {"data", "stream"} -> Reply("data", "other", FALSE)
    [] mu = "propertyReadback" /\ a.kind = "data" -> Reply("data", "other", FALSE)
    [] OTHER -> a

\* on_operation: the reply a mutation makes of the answer.  The first two never ask
\* for the answer.  An answer with data stands for the read of a property the engine
\* knows, which is what propertyReadback replaces.
Mutated(mu, a) ==
  CASE mu = "failResponse" -> Reply("response", "-", FALSE)
    [] mu = "closeCommand" -> Reply("close", "-", FALSE)
    [] mu = "suppressResponse" /\ a.kind = "response" -> Reply("none", "-", FALSE)
    [] mu = "truncateData" /\ a.kind \in {"data", "stream"} -> Reply(a.kind, "cut", FALSE)
    [] mu = "replaceData" /\ a.kind \in {"data", "stream"} -> Reply("data", "other", FALSE)
    [] mu = "propertyReadback" /\ a.kind = "data" -> Reply("data", "other", FALSE)
    [] OTHER -> a

\* One transaction under the engine lock.
Operate(c, r, a) ==
  LET sel == Selected(r)
      mu == IF sel = 0 THEN "none" ELSE rules[sel].mutation
      id0 == IF sel = 0 THEN 0 ELSE rules[sel].id
      matching == {rules[i].id : i \in {j \in 1..Len(rules) : Matches(rules[j], r)}}
  IN  /\ tx[c].stage = "idle" /\ ops < MaxOps
      /\ rules' = Counted(r)
      /\ last' = IF sel = 0 THEN last ELSE id0
      /\ tx' = [tx EXCEPT ![c] = [mutation |-> mu, answer |-> a, reply |-> Mutated(mu, a),
                                  stage |-> "writing"]]
      /\ ops' = ops + 1
      /\ faulted' = IF sel = 0 THEN faulted ELSE faulted + 1
      /\ occ' = [id \in Ids |-> IF id \in matching THEN occ[id] + 1 ELSE occ[id]]
      /\ hits' = [id \in Ids |-> IF id = id0 THEN hits[id] \cup {occ'[id]} ELSE hits[id]]
      /\ ceded' = [id \in Ids |-> IF id0 # 0 /\ id \in matching \ {id0}
                                  THEN ceded[id] \cup {occ'[id]} ELSE ceded[id]]
      /\ UNCHANGED <<next_id, done, events, aborted>>

-----------------------------------------------------------------------------
HasData(reply) == reply.kind \in {"data", "stream"}

HasResponse(reply) == reply.kind \in {"response", "data", "stream"}

\* write_reply: the phases that go out.
Phases(mu, reply) ==
  LET stopped == mu = "closeData" /\ HasData(reply)
      data == IF HasData(reply) /\ mu # "suppressData" THEN <<"data">> ELSE <<>>
      response == IF HasResponse(reply) /\ mu \notin {"closeResponse", "suppressResponse"}
                  THEN <<"response">> ELSE <<>>
  IN  IF stopped THEN <<>> ELSE data \o response

Closes(mu, reply) ==
  \/ reply.kind = "close"
  \/ mu = "closeData" /\ HasData(reply)
  \/ mu = "closeResponse" /\ HasResponse(reply)

\* Whether the stream acknowledges its queue when the reply is out.
Completes(mu, reply) ==
  /\ reply.kind = "stream" /\ reply.completion
  /\ mu \notin {"closeData", "closeResponse", "suppressResponse", "suppressData"}

\* applied_wire_outcome, with applied_fault_marker for the mutations of the engine.
Marker(mu, reply) ==
  CASE mu \in {"closeData", "delayData", "suppressData", "dataFraming"} /\ ~ HasData(reply) -> "noDataPhase"
    [] mu \in {"closeResponse", "delayResponse", "suppressResponse"} /\ ~ HasResponse(reply) -> "noResponsePhase"
    [] mu = "replaceTransactionId" /\ ~ HasResponse(reply) -> "noWirePhase"
    [] OTHER -> mu

\* The reply is written, or the connection breaks after some of its phases.
Write(c) ==
  LET t == tx[c]
      all == Phases(t.mutation, t.reply)
  IN  /\ t.stage = "writing"
      /\ \E n \in 0..Len(all) :
           done' = [done EXCEPT ![c] =
             [mutation |-> t.mutation, answer |-> t.answer, phases |-> SubSeq(all, 1, n),
              body |-> t.reply.body,
              closed |-> n < Len(all) \/ Closes(t.mutation, t.reply),
              completion |-> n = Len(all) /\ Completes(t.mutation, t.reply),
              marker |-> IF n = Len(all) THEN Marker(t.mutation, t.reply) ELSE t.mutation]]
      /\ events' = IF t.mutation = "none" THEN events ELSE events + 1
      /\ tx' = [tx EXCEPT ![c] = NoTx]
      /\ UNCHANGED <<registry, aborted, faulted, ops, occ, hits, ceded>>

\* An auxiliary listener could not be moved: the task ends before it writes.
Abort(c) ==
  /\ tx[c].stage = "writing"
  /\ aborted' = IF tx[c].mutation = "none" THEN aborted ELSE aborted + 1
  /\ tx' = [tx EXCEPT ![c] = NoTx]
  /\ UNCHANGED <<registry, done, events, faulted, ops, occ, hits, ceded>>

\* The steps of some command tasks, with some of the rules and of the answers.
FaultStep(conns, selectors, mutations, answers) ==
  \/ \E s \in selectors, mu \in mutations : Insert(s, mu)
  \/ \E id \in Ids : Remove(id)
  \/ Clear
  \/ \E c \in conns : \/ \E r \in Requests, a \in answers : Operate(c, r, a)
                      \/ Write(c) \/ Abort(c)

FaultNext == FaultStep(Conns, Selectors, Used, Answers)

FaultSpec == FaultInit /\ [][FaultNext]_faultVars

-----------------------------------------------------------------------------
\* The registry has its types, and its ids are unique and ascending.
FaultTypeOK ==
  /\ next_id \in 1..(MaxRules + 1)
  /\ \A i \in 1..Len(rules) :
       /\ rules[i].id \in 1..(next_id - 1)
       /\ rules[i].seen \in 0..MaxSeen /\ rules[i].applied \in 0..rules[i].seen
       /\ \A j \in 1..(i - 1) : rules[j].id < rules[i].id
  /\ last \in 0..(next_id - 1)
  /\ \A c \in Conns : tx[c].mutation \in Mutations \cup {"none"}

\* The occurrences that the window of a selector asks for, of the first n.
Window(s, n) == {o \in 1..n : o > s.skip /\ (s.count = Forever \/ o <= s.skip + s.count)}

\* A rule applies to exactly the occurrences of its window, except the ones for which
\* an older rule was armed; the counters report just that, until they saturate.
\* They go on through the transactions of other rules and of other connections.
WindowIsExact ==
  \A i \in 1..Len(rules) :
    LET r == rules[i]
        window == Window(r.selector, occ[r.id])
    IN  occ[r.id] < MaxSeen =>
          /\ r.seen = occ[r.id] /\ r.applied = Cardinality(hits[r.id])
          /\ hits[r.id] \subseteq window
          /\ window \subseteq hits[r.id] \cup ceded[r.id]

\* The oldest rule cedes nothing of its window to a younger one.
OldestFirst ==
  \A i \in 1..Len(rules) :
    rules[i].id = 1 /\ occ[1] < MaxSeen => hits[1] = Window(rules[i].selector, occ[1])

\* Only the selected phase is missing: what reached the client is a beginning of the
\* phases of the answer without the suppressed one, a closed connection has nothing
\* after the close, and a mutation of a phase the answer does not have changes nothing.
OnlySelectedPhase ==
  \A c \in Conns :
    LET d == done[c]
        data == IF HasData(d.answer) THEN <<"data">> ELSE <<>>
        response == IF HasResponse(d.answer) THEN <<"response">> ELSE <<>>
        want == CASE d.mutation = "failResponse" -> <<"response">>
                  [] d.mutation = "closeCommand" -> <<>>
                  [] d.mutation = "suppressData" -> response
                  [] d.mutation \in {"suppressResponse", "closeResponse"} -> data
                  [] d.mutation = "closeData" /\ HasData(d.answer) -> <<>>
                  [] OTHER -> data \o response
    IN  IF d.closed THEN \E n \in 0..Len(want) : d.phases = SubSeq(want, 1, n)
        ELSE d.phases = want

\* A queue is acknowledged only for bytes that went out as they are, with their
\* response, whatever a rule did to the reply.
AcknowledgedWasDelivered ==
  \A c \in Conns :
    done[c].completion => done[c].phases = <<"data", "response">> /\ done[c].body = "own"

\* Each transaction that a rule applied to has one trace event, once its reply is
\* written or cannot be written; also if the rule was deleted meanwhile.
OneEventEach ==
  events + aborted + Cardinality({c \in Conns : tx[c].mutation # "none"}) = faulted

\* The windows, the order of the rules and the trace events together.
WindowsAreShared == WindowIsExact /\ OldestFirst /\ OneEventEach

\* What reaches the wire is what the mutation selects, and a queue counts an object as
\* delivered only if all its bytes went out unchanged.
RepliesAreFaithful == OnlySelectedPhase /\ AcknowledgedWasDelivered

\* The rules share the transactions out exactly: each takes its window less what older
\* ones took, the oldest takes all of it, and each application has one trace event.
WindowsAreExact == FaultTypeOK /\ WindowsAreShared

-----------------------------------------------------------------------------
(***************************************************************************)
(* The proofs.  WindowsHold rests on IInv: the rules are in the order of    *)
(* their ids (Registry), the history of each rule fits its counters and its *)
(* window (Counts, with FitsWindow for one rule), and every faulted transaction   *)
(* has its event or is still to have it (Events).  RepliesHold rests on     *)
(* Replies: what a task writes is a beginning of what the mutation leaves   *)
(* of the answer.                                                           *)
(***************************************************************************)

\* Every non-empty set of naturals has a least element.
LEMMA LeastElement ==
  ASSUME NEW T \in SUBSET Nat, T # {}
  PROVE  \E m \in T : \A k \in T : m <= k
<1> DEFINE R == {ss \in Nat \X Nat : ss[1] < ss[2]}
<1>1. IsWellFoundedOn(OpToRel(<, Nat), Nat)
  BY NatLessThanWellFounded
<1>2. OpToRel(<, Nat) = R
  BY DEF OpToRel
<1>3. IsWellFoundedOn(R, Nat)
  BY <1>1, <1>2
<1> HIDE DEF R
<1>4. PICK x \in T : \A y \in T : ~ (<<y, x>> \in R)
  BY <1>3, WFMin, Zenon
<1>5. ASSUME NEW k \in T
      PROVE  x <= k
  <2>1. x \in Nat /\ k \in Nat /\ <<k, x>> \notin R
    BY <1>4
  <2>2. ~ (k < x)
    BY <2>1 DEF R
  <2>. QED  BY <2>1, <2>2
<1>. QED  BY <1>5

-----------------------------------------------------------------------------
\* The rules of the registry.
Rule == [id : Nat, selector : Selectors, mutation : Mutations, seen : Nat, applied : Nat]

\* The rules are in the order of their ids, and their counters stay within the limit.
Registry ==
  /\ next_id \in Nat /\ 1 <= next_id /\ next_id <= MaxRules + 1
  /\ rules \in Seq(Rule)
  /\ \A i \in 1..Len(rules) :
       /\ 1 <= rules[i].id /\ rules[i].id < next_id
       /\ rules[i].seen <= MaxSeen /\ rules[i].applied <= rules[i].seen
  /\ \A i, j \in 1..Len(rules) : i < j => rules[i].id < rules[j].id
  /\ last \in Nat /\ last < next_id

\* A rule and its history: n matches, the ones that it took and the ones left to others.
FitsWindow(rule, n, taken, left) ==
  n < MaxSeen =>
    /\ rule.seen = n /\ rule.applied = Cardinality(taken)
    /\ taken \subseteq Window(rule.selector, n)
    /\ Window(rule.selector, n) \subseteq taken \cup left
    /\ rule.id = 1 => taken = Window(rule.selector, n)

\* The history of every rule is that of a rule, and a rule yet to come has none.
Counts ==
  /\ occ \in [Ids -> Nat] /\ hits \in [Ids -> SUBSET Nat] /\ ceded \in [Ids -> SUBSET Nat]
  /\ \A id \in Ids : IsFiniteSet(hits[id]) /\ \A o \in hits[id] : o <= occ[id]
  /\ \A id \in Ids : id >= next_id => occ[id] = 0 /\ hits[id] = {}
  /\ \A i \in 1..Len(rules) :
       FitsWindow(rules[i], occ[rules[i].id], hits[rules[i].id], ceded[rules[i].id])

\* The transactions under way and the replies that they make.
Started(mu, a) == [mutation |-> mu, answer |-> a, reply |-> Mutated(mu, a), stage |-> "writing"]

\* What a command task can have to write.
AllTx == {NoTx} \cup {Started(p[1], p[2]) : p \in (Mutations \cup {"none"}) \X Answers}

\* The faulted transactions that are under way.
Busy == {c \in Conns : tx[c].mutation # "none"}

\* Every faulted transaction has its event, ended without a reply, or is under way.
Events ==
  /\ tx \in [Conns -> AllTx]
  /\ events \in Nat /\ aborted \in Nat /\ faulted \in Nat
  /\ OneEventEach

\* One more occurrence: it is in the window exactly if the selector was armed for it.
LEMMA WindowGrows ==
  ASSUME FaultAssumption, NEW s \in Selectors, NEW n \in Nat
  PROVE  Window(s, n + 1) = IF armed(s, n) THEN Window(s, n) \cup {n + 1} ELSE Window(s, n)
<1>1. s.skip \in Nat /\ s.count \in Nat \cup {Forever}
  BY DEF FaultAssumption
<1>2. PICK k \in Nat : k = s.skip
  BY <1>1
<1>3. CASE s.count = Forever
  <2>1. armed(s, n) <=> n + 1 > k
    BY <1>2, <1>3 DEF armed
  <2>2. \A o : o \in Window(s, n + 1) <=> o \in 1..(n + 1) /\ o > k
    BY <1>2, <1>3 DEF Window
  <2>3. \A o : o \in Window(s, n) <=> o \in 1..n /\ o > k
    BY <1>2, <1>3 DEF Window
  <2>4. ASSUME NEW o
        PROVE  o \in Window(s, n + 1) <=> o \in Window(s, n) \/ (armed(s, n) /\ o = n + 1)
    BY <2>1, <2>2, <2>3
  <2>. QED  BY <2>4, Zenon
<1>4. CASE s.count # Forever
  <2>1. PICK m \in Nat : m = s.count
    BY <1>1, <1>4
  <2>2. armed(s, n) <=> n + 1 > k /\ n + 1 <= k + m
    BY <1>2, <1>4, <2>1 DEF armed
  <2>3. \A o : o \in Window(s, n + 1) <=> o \in 1..(n + 1) /\ o > k /\ o <= k + m
    BY <1>2, <1>4, <2>1 DEF Window
  <2>4. \A o : o \in Window(s, n) <=> o \in 1..n /\ o > k /\ o <= k + m
    BY <1>2, <1>4, <2>1 DEF Window
  <2>5. ASSUME NEW o
        PROVE  o \in Window(s, n + 1) <=> o \in Window(s, n) \/ (armed(s, n) /\ o = n + 1)
    BY <2>2, <2>3, <2>4
  <2>. QED  BY <2>5
<1>. QED  BY <1>3, <1>4

\* The selected rule is the first that is armed.
LEMMA SelectedIsFirst ==
  ASSUME Registry, NEW r \in Requests
  PROVE  /\ Selected(r) \in 0..Len(rules)
         /\ Selected(r) = 0 <=> Armed(r) = {}
         /\ Selected(r) # 0 => Selected(r) \in Armed(r)
         /\ \A j \in Armed(r) : Selected(r) <= j
<1>1. Len(rules) \in Nat
  BY DEF Registry
<1>2. CASE Armed(r) = {}
  BY <1>1, <1>2 DEF Selected
<1>3. CASE Armed(r) # {}
  <2>1. Armed(r) \in SUBSET Nat /\ \A i \in Armed(r) : i \in 1..Len(rules)
    BY <1>1 DEF Armed
  <2>2. \E i \in Armed(r) : \A j \in Armed(r) : i <= j
    BY <1>3, <2>1, LeastElement
  <2>3. Selected(r) \in Armed(r) /\ \A j \in Armed(r) : Selected(r) <= j
    BY <1>3, <2>2 DEF Selected
  <2>. QED  BY <1>1, <1>3, <2>1, <2>3
<1>. QED  BY <1>2, <1>3

\* A new rule comes last and has seen nothing.
LEMMA InsertKeeps ==
  ASSUME FaultAssumption, Registry, Counts, NEW s \in Selectors, NEW mu \in Used, Insert(s, mu)
  PROVE  Registry' /\ Counts'
<1> DEFINE new == [id |-> next_id, selector |-> s, mutation |-> mu, seen |-> 0, applied |-> 0]
           n == Len(rules)
<1>1. /\ next_id \in Nat /\ next_id >= 1 /\ next_id <= MaxRules /\ MaxRules \in Nat
      /\ MaxSeen \in Nat /\ n \in Nat /\ next_id' = next_id + 1
      /\ UNCHANGED <<last, occ, hits, ceded>>
  BY DEF Insert, Registry, FaultAssumption, history
<1>2. new \in Rule /\ new.id = next_id /\ new.seen = 0 /\ new.applied = 0 /\ new.selector = s
  BY <1>1 DEF Rule, FaultAssumption
<1>3. rules' = Append(rules, new)
  BY DEF Insert
<1> HIDE DEF new
<1>4. /\ rules' \in Seq(Rule) /\ Len(rules') = n + 1
      /\ \A i \in 1..n : rules'[i] = rules[i]
      /\ rules'[n + 1] = new
  BY <1>2, <1>3 DEF Registry
<1>5. \A i \in 1..n : rules[i] \in Rule /\ rules[i].id \in Nat
  <2>1. \A i \in 1..n : rules[i] \in Rule
    BY DEF Registry
  <2>. QED  BY <2>1 DEF Rule
<1> HIDE DEF n
<1>6. \A i \in 1..(n + 1) : i \in 1..n \/ i = n + 1
  BY <1>1
<1>7. Registry'
  <2>1. \A i \in 1..n :
       /\ 1 <= rules[i].id /\ rules[i].id < next_id'
       /\ rules[i].seen <= MaxSeen /\ rules[i].applied <= rules[i].seen
    BY <1>1, <1>5 DEF Registry, n
  <2>2. 1 <= new.id /\ new.id < next_id' /\ new.seen <= MaxSeen /\ new.applied <= new.seen
    BY <1>1, <1>2
  <2>3. \A i \in 1..Len(rules') :
       /\ 1 <= rules'[i].id /\ rules'[i].id < next_id'
       /\ rules'[i].seen <= MaxSeen /\ rules'[i].applied <= rules'[i].seen
    BY <1>4, <1>6, <2>1, <2>2
  <2>4. \A i, j \in 1..Len(rules') : i < j => rules'[i].id < rules'[j].id
    <3> SUFFICES ASSUME NEW i \in 1..(n + 1), NEW j \in 1..(n + 1), i < j
                 PROVE  rules'[i].id < rules'[j].id
      BY <1>4
    <3>1. i \in 1..n /\ rules'[i] = rules[i]
      BY <1>1, <1>4
    <3>2. CASE j \in 1..n
      BY <1>4, <3>1, <3>2 DEF Registry, n
    <3>3. CASE j = n + 1
      BY <1>2, <1>4, <3>1, <3>3 DEF Registry, n
    <3>. QED  BY <1>6, <3>2, <3>3
  <2>5. next_id' \in Nat /\ 1 <= next_id' /\ next_id' <= MaxRules + 1
    BY <1>1
  <2>6. last' \in Nat /\ last' < next_id'
    BY <1>1 DEF Registry
  <2>. QED  BY <1>4, <2>3, <2>4, <2>5, <2>6, Zenon DEF Registry
<1>8. Counts'
  <2>1. Ids = 1..MaxRules /\ next_id \in Ids
    BY <1>1 DEF Ids
  <2>2. occ[next_id] = 0 /\ hits[next_id] = {}
    BY <1>1, <2>1 DEF Counts
  <2>3. Window(s, 0) = {}
    BY DEF Window
  <2>4. FitsWindow(new, 0, {}, ceded[next_id])
    <3>1. Cardinality({}) = 0
      BY FS_EmptySet
    <3>. QED  BY <1>2, <2>3, <3>1 DEF FitsWindow
  <2>5. \A i \in 1..n : FitsWindow(rules[i], occ[rules[i].id], hits[rules[i].id], ceded[rules[i].id])
    BY DEF Counts, n
  <2>6. \A i \in 1..Len(rules') :
          FitsWindow(rules'[i], occ'[rules'[i].id], hits'[rules'[i].id], ceded'[rules'[i].id])
    <3> SUFFICES ASSUME NEW i \in 1..(n + 1)
                 PROVE  FitsWindow(rules'[i], occ[rules'[i].id], hits[rules'[i].id], ceded[rules'[i].id])
      BY <1>1, <1>4
    <3>1. CASE i \in 1..n
      BY <1>4, <2>5, <3>1
    <3>2. CASE i = n + 1
      BY <1>2, <1>4, <2>2, <2>4, <3>2, Zenon
    <3>. QED  BY <1>6, <3>1, <3>2, Zenon
  <2>7. \A id \in Ids : id >= next_id' => occ'[id] = 0 /\ hits'[id] = {}
    BY <1>1, <2>1 DEF Counts
  <2>. QED  BY <1>1, <2>6, <2>7, Zenon DEF Counts
<1>. QED  BY <1>7, <1>8

\* Rules that are left out do not disturb the others.
LEMMA RemoveKeeps ==
  ASSUME FaultAssumption, Registry, Counts, NEW id \in Ids, Remove(id)
  PROVE  Registry' /\ Counts'
<1> DEFINE n == Len(rules)
           At(k, j) == IF j < k THEN j ELSE j + 1
<1>1. PICK k \in 1..n : rules' = Without(k)
  BY DEF Remove
<1>2. UNCHANGED <<next_id, occ, hits, ceded>> /\ (last' = last \/ last' = 0)
  BY DEF Remove, history
<1>3. n \in Nat /\ n >= 1 /\ \A i \in 1..n : rules[i] \in Rule
  BY DEF Registry
<1>4. rules' \in Seq(Rule) /\ Len(rules') = n - 1
      /\ \A j \in 1..(n - 1) : At(k, j) \in 1..n /\ rules'[j] = rules[At(k, j)]
  <2>1. \A j \in 1..(n - 1) : At(k, j) \in 1..n
    BY <1>3
  <2>2. rules' = [j \in 1..(n - 1) |-> rules[At(k, j)]]
    BY <1>1 DEF Without
  <2>3. rules' \in [1..(n - 1) -> Rule]
    BY <1>3, <2>1, <2>2
  <2>4. n - 1 \in Nat
    BY <1>3
  <2> HIDE DEF At, n
  <2>5. rules' \in Seq(Rule) /\ Len(rules') = n - 1
    BY <2>3, <2>4
  <2>6. \A j \in 1..(n - 1) : rules'[j] = rules[At(k, j)]
    BY <2>2, Zenon
  <2>. QED  BY <2>1, <2>5, <2>6
<1>5. \A i, j \in 1..(n - 1) : i < j => At(k, i) < At(k, j)
  BY <1>3
<1> HIDE DEF At, n
<1>6. \A i, j \in 1..Len(rules') : i < j => rules'[i].id < rules'[j].id
  BY <1>4, <1>5, Zenon DEF Registry, n
<1>7. \A i \in 1..Len(rules') :
       /\ 1 <= rules'[i].id /\ rules'[i].id < next_id'
       /\ rules'[i].seen <= MaxSeen /\ rules'[i].applied <= rules'[i].seen
  BY <1>2, <1>4, Zenon DEF Registry, n
<1>8. last' \in Nat /\ last' < next_id'
  BY <1>2 DEF Registry
<1>9. Registry'
  BY <1>2, <1>4, <1>6, <1>7, <1>8, Zenon DEF Registry
<1>10. \A i \in 1..Len(rules') :
         FitsWindow(rules'[i], occ'[rules'[i].id], hits'[rules'[i].id], ceded'[rules'[i].id])
  BY <1>2, <1>4, Zenon DEF Counts, n
<1>11. Counts'
  BY <1>2, <1>10, Zenon DEF Counts
<1>. QED  BY <1>9, <1>11

\* Clearing the registry forgets the rules and keeps the numbers.
LEMMA ClearKeeps ==
  ASSUME FaultAssumption, Registry, Counts, Clear
  PROVE  Registry' /\ Counts'
<1>1. rules' = <<>> /\ last' = 0 /\ UNCHANGED <<next_id, occ, hits, ceded>>
  BY DEF Clear, history
<1>2. rules' \in Seq(Rule) /\ Len(rules') = 0
  BY <1>1
<1>3. last' \in Nat /\ last' < next_id'
  BY <1>1 DEF Registry
<1>. QED  BY <1>1, <1>2, <1>3 DEF Registry, Counts

\* One more match of a rule that may still count it: it takes the occurrence, or
\* leaves it to the rule that does, or its window does not want it.
LEMMA FitsGrows ==
  ASSUME FaultAssumption, NEW s \in Selectors, NEW n \in Nat, NEW id \in Nat,
         NEW rule, NEW rule2, NEW taken \in SUBSET Nat, NEW left, NEW left2,
         rule.selector = s, rule2.selector = s, rule.id = id, rule2.id = id,
         rule.applied \in Nat, rule2.applied \in Nat,
         IsFiniteSet(taken), \A o \in taken : o <= n,
         FitsWindow(rule, n, taken, left), left \subseteq left2,
         n + 1 < MaxSeen => rule2.seen = n + 1,
         NEW taken2,
         \/ /\ armed(s, n) /\ taken2 = taken \cup {n + 1}
            /\ n + 1 < MaxSeen => rule2.applied = rule.applied + 1
         \/ /\ taken2 = taken
            /\ n + 1 < MaxSeen => rule2.applied = rule.applied
            /\ ~ armed(s, n) \/ (id # 1 /\ n + 1 \in left2)
  PROVE  FitsWindow(rule2, n + 1, taken2, left2)
<1> SUFFICES ASSUME n + 1 < MaxSeen
             PROVE  /\ rule2.applied = Cardinality(taken2)
                    /\ taken2 \subseteq Window(s, n + 1)
                    /\ Window(s, n + 1) \subseteq taken2 \cup left2
                    /\ id = 1 => taken2 = Window(s, n + 1)
  BY Zenon DEF FitsWindow
<1>1. MaxSeen \in Nat /\ n < MaxSeen
  BY DEF FaultAssumption
<1>2. /\ rule.seen = n /\ rule.applied = Cardinality(taken)
      /\ taken \subseteq Window(s, n)
      /\ Window(s, n) \subseteq taken \cup left
      /\ id = 1 => taken = Window(s, n)
  BY <1>1, Zenon DEF FitsWindow
<1>3. Window(s, n + 1) = IF armed(s, n) THEN Window(s, n) \cup {n + 1} ELSE Window(s, n)
  BY WindowGrows, Zenon
<1>4. CASE armed(s, n) /\ taken2 = taken \cup {n + 1} /\ rule2.applied = rule.applied + 1
  <2>1. n + 1 \notin taken
    <3>1. ~ (n + 1 <= n)
      OBVIOUS
    <3>. QED  BY <3>1, Zenon
  <2>2. Cardinality(taken2) = Cardinality(taken) + 1
    BY <1>4, <2>1, FS_AddElement, Zenon
  <2>. QED  BY <1>2, <1>3, <1>4, <2>2, Zenon
<1>5. CASE /\ taken2 = taken /\ rule2.applied = rule.applied
           /\ ~ armed(s, n) \/ (id # 1 /\ n + 1 \in left2)
  BY <1>2, <1>3, <1>5, Zenon
<1>. QED  BY <1>4, <1>5, Zenon

\* One transaction: every matching rule counts it, and the first that is armed takes it.
LEMMA OperateKeeps ==
  ASSUME FaultAssumption, Registry, Counts, NEW c \in Conns, NEW q \in Requests,
         NEW a \in Answers, Operate(c, q, a)
  PROVE  Registry' /\ Counts'
<1> DEFINE n == Len(rules)
           sel == Selected(q)
           id0 == IF sel = 0 THEN 0 ELSE rules[sel].id
           matching == {rules[i].id : i \in {j \in 1..n : Matches(rules[j], q)}}
<1>1. /\ rules' = Counted(q)
      /\ last' = IF sel = 0 THEN last ELSE id0
      /\ occ' = [id \in Ids |-> IF id \in matching THEN occ[id] + 1 ELSE occ[id]]
      /\ hits' = [id \in Ids |-> IF id = id0 THEN hits[id] \cup {occ'[id]} ELSE hits[id]]
      /\ ceded' = [id \in Ids |-> IF id0 # 0 /\ id \in matching \ {id0}
                                  THEN ceded[id] \cup {occ'[id]} ELSE ceded[id]]
      /\ UNCHANGED next_id
  BY Zenon DEF Operate
<1>2. /\ n \in Nat /\ MaxSeen \in Nat /\ MaxRules \in Nat
      /\ next_id \in Nat /\ next_id <= MaxRules + 1
      /\ \A i \in 1..n : rules[i] \in Rule
      /\ \A i \in 1..n : /\ 1 <= rules[i].id /\ rules[i].id < next_id
                         /\ rules[i].seen <= MaxSeen /\ rules[i].applied <= rules[i].seen
      /\ \A i, j \in 1..n : i < j => rules[i].id < rules[j].id
      /\ last \in Nat /\ last < next_id
  BY SMTT(30) DEF Registry, FaultAssumption
<1>3. \A i \in 1..n : /\ rules[i].id \in Nat /\ rules[i].seen \in Nat /\ rules[i].applied \in Nat
                      /\ rules[i].selector \in Selectors /\ rules[i].id \in Ids
  <2> SUFFICES ASSUME NEW i \in 1..n
               PROVE  /\ rules[i].id \in Nat /\ rules[i].seen \in Nat /\ rules[i].applied \in Nat
                      /\ rules[i].selector \in Selectors /\ rules[i].id \in Ids
    OBVIOUS
  <2>1. /\ rules[i].id \in Nat /\ rules[i].seen \in Nat /\ rules[i].applied \in Nat
        /\ rules[i].selector \in Selectors
    BY <1>2, Zenon DEF Rule
  <2>. QED  BY <1>2, <2>1 DEF Ids
<1>4. \A i, j \in 1..n : rules[i].id = rules[j].id => i = j
  <2> SUFFICES ASSUME NEW i \in 1..n, NEW j \in 1..n, rules[i].id = rules[j].id, i < j
               PROVE  FALSE
    BY <1>2
  <2>. QED  BY <1>2, <1>3
<1>5. /\ sel \in 0..n
      /\ sel = 0 <=> Armed(q) = {}
      /\ sel # 0 => sel \in Armed(q)
      /\ \A j \in Armed(q) : sel <= j
  BY SelectedIsFirst, Zenon
<1>6. \A i : i \in Armed(q) <=> /\ i \in 1..n /\ Matches(rules[i], q)
                               /\ armed(rules[i].selector, rules[i].seen)
  BY DEF Armed
<1>7. \A i \in 1..n : rules[i].id \in matching <=> Matches(rules[i], q)
  BY <1>4, Zenon
<1>8. \A i \in 1..n : rules[i].id = id0 <=> i = sel
  <2> SUFFICES ASSUME NEW i \in 1..n
               PROVE  rules[i].id = id0 <=> i = sel
    OBVIOUS
  <2>1. CASE sel = 0
    <3>1. rules[i].id # 0 /\ i # 0
      BY <1>2, <1>3
    <3>. QED  BY <2>1, <3>1, Zenon
  <2>2. CASE sel # 0
    <3>1. sel \in 1..n
      BY <1>5, <1>6, <2>2, Zenon
    <3>. QED  BY <1>4, <2>2, <3>1, Zenon
  <2>. QED  BY <2>1, <2>2, Zenon
<1>9. /\ sel # 0 => id0 \in Nat /\ 1 <= id0 /\ id0 < next_id /\ id0 \in matching
      /\ sel = 0 => id0 = 0
  <2>1. sel # 0 => sel \in 1..n /\ Matches(rules[sel], q)
    BY <1>5, <1>6, Zenon
  <2>. QED  BY <1>2, <1>3, <1>7, <2>1, Zenon
<1>10. Len(rules') = n /\ rules' \in Seq(Rule) /\ (\A i \in 1..n : rules'[i] \in Rule)
       /\ \A i \in 1..n :
            rules'[i] = [rules[i] EXCEPT !.seen = IF Matches(rules[i], q) THEN Saturating(@) ELSE @,
                                         !.applied = IF i = sel THEN Saturating(@) ELSE @]
  <2>1. \A x \in Nat : Saturating(x) \in Nat
    BY <1>2 DEF Saturating
  <2> DEFINE New(i) == [rules[i] EXCEPT !.seen = IF Matches(rules[i], q) THEN Saturating(@) ELSE @,
                                        !.applied = IF i = sel THEN Saturating(@) ELSE @]
  <2>2. rules' = [i \in 1..n |-> New(i)]
    BY <1>1, Zenon DEF Counted
  <2>3. \A i \in 1..n : New(i) \in Rule
    BY <1>2, <1>3, <2>1, Zenon DEF Rule
  <2> HIDE DEF New, n
  <2>4. rules' \in [1..n -> Rule]
    BY <2>2, <2>3
  <2>5. rules' \in Seq(Rule) /\ Len(rules') = n
    BY <1>2, <2>4
  <2>6. \A i \in 1..n : rules'[i] = New(i)
    BY <2>2, Zenon
  <2>. QED  BY <2>3, <2>5, <2>6, ZenonT(30) DEF New
<1>11. \A i \in 1..n :
         /\ rules'[i].id = rules[i].id /\ rules'[i].selector = rules[i].selector
         /\ rules'[i].seen = IF Matches(rules[i], q) THEN Saturating(rules[i].seen) ELSE rules[i].seen
         /\ rules'[i].applied = IF i = sel THEN Saturating(rules[i].applied) ELSE rules[i].applied
         /\ rules'[i].seen \in Nat /\ rules'[i].applied \in Nat
  <2> SUFFICES ASSUME NEW i \in 1..n
               PROVE  /\ rules'[i].id = rules[i].id /\ rules'[i].selector = rules[i].selector
                      /\ rules'[i].seen = IF Matches(rules[i], q) THEN Saturating(rules[i].seen) ELSE rules[i].seen
                      /\ rules'[i].applied = IF i = sel THEN Saturating(rules[i].applied) ELSE rules[i].applied
                      /\ rules'[i].seen \in Nat /\ rules'[i].applied \in Nat
    OBVIOUS
  <2>1. rules[i] \in Rule /\ rules'[i] \in Rule
    BY <1>2, <1>10, Zenon
  <2>. QED  BY <1>10, <2>1, ZenonT(30) DEF Rule
<1> HIDE DEF n, sel, id0, matching
<1>12. \A i \in 1..n : rules'[i].seen <= MaxSeen /\ rules'[i].applied <= rules'[i].seen
  <2> SUFFICES ASSUME NEW i \in 1..n
               PROVE  rules'[i].seen <= MaxSeen /\ rules'[i].applied <= rules'[i].seen
    OBVIOUS
  <2>1. i = sel => Matches(rules[i], q)
    BY <1>2, <1>5, <1>6, SMTT(30)
  <2>. QED  BY <1>2, <1>3, <1>11, <2>1 DEF Saturating
<1>13. Registry'
  <2>1. last' \in Nat /\ last' < next_id'
    BY <1>1, <1>2, <1>9, Zenon
  <2>2. \A i \in 1..n : 1 <= rules'[i].id /\ rules'[i].id < next_id'
    BY <1>1, <1>2, <1>11, Zenon
  <2>3. \A i, j \in 1..n : i < j => rules'[i].id < rules'[j].id
    BY <1>2, <1>11, Zenon
  <2>4. 1 <= next_id'
    BY <1>1, Zenon DEF Registry
  <2>. QED  BY <1>1, <1>2, <1>10, <1>12, <2>1, <2>2, <2>3, <2>4, Zenon DEF Registry
<1>14. /\ occ \in [Ids -> Nat] /\ hits \in [Ids -> SUBSET Nat] /\ ceded \in [Ids -> SUBSET Nat]
       /\ \A id \in Ids : IsFiniteSet(hits[id]) /\ \A o \in hits[id] : o <= occ[id]
       /\ \A id \in Ids : id >= next_id => occ[id] = 0 /\ hits[id] = {}
       /\ \A i \in 1..n : FitsWindow(rules[i], occ[rules[i].id], hits[rules[i].id], ceded[rules[i].id])
  BY Zenon DEF Counts, n
<1>15. \A id \in Ids :
         /\ occ'[id] = IF id \in matching THEN occ[id] + 1 ELSE occ[id]
         /\ hits'[id] = IF id = id0 THEN hits[id] \cup {occ'[id]} ELSE hits[id]
         /\ ceded'[id] = IF id0 # 0 /\ id \in matching \ {id0}
                         THEN ceded[id] \cup {occ'[id]} ELSE ceded[id]
  BY <1>1, Zenon
<1>16. occ' \in [Ids -> Nat] /\ hits' \in [Ids -> SUBSET Nat] /\ ceded' \in [Ids -> SUBSET Nat]
  <2>1. ASSUME NEW id \in Ids
        PROVE  occ'[id] \in Nat /\ hits'[id] \in SUBSET Nat /\ ceded'[id] \in SUBSET Nat
    <3>1. occ[id] \in Nat /\ hits[id] \in SUBSET Nat /\ ceded[id] \in SUBSET Nat
      BY <1>14, Zenon
    <3>2. occ'[id] = occ[id] + 1 \/ occ'[id] = occ[id]
      BY <1>15, Zenon
    <3>3. hits'[id] = hits[id] \cup {occ'[id]} \/ hits'[id] = hits[id]
      BY <1>15, Zenon
    <3>4. ceded'[id] = ceded[id] \cup {occ'[id]} \/ ceded'[id] = ceded[id]
      BY <1>15, Zenon
    <3>5. occ'[id] \in Nat
      BY <3>1, <3>2
    <3>. QED  BY <3>1, <3>3, <3>4, <3>5, Zenon
  <2>. QED  BY <1>1, <2>1, Zenon
<1>17. \A id \in Ids : IsFiniteSet(hits'[id]) /\ \A o \in hits'[id] : o <= occ'[id]
  <2> SUFFICES ASSUME NEW id \in Ids
               PROVE  IsFiniteSet(hits'[id]) /\ \A o \in hits'[id] : o <= occ'[id]
    OBVIOUS
  <2>1. occ[id] \in Nat /\ occ'[id] \in Nat /\ occ[id] <= occ'[id] /\ hits[id] \in SUBSET Nat
    BY <1>14, <1>15, <1>16
  <2>2. \A o \in hits[id] : o <= occ'[id]
    BY <1>14, <2>1
  <2>3. IsFiniteSet(hits[id] \cup {occ'[id]})
    BY <1>14, FS_AddElement, Zenon
  <2>4. hits'[id] = hits[id] \cup {occ'[id]} \/ hits'[id] = hits[id]
    BY <1>15, Zenon
  <2>5. IsFiniteSet(hits[id])
    BY <1>14, Zenon
  <2>6. \A o \in hits[id] \cup {occ'[id]} : o <= occ'[id]
    BY <2>1, <2>2, SMTT(30)
  <2>. QED  BY <2>2, <2>3, <2>4, <2>5, <2>6, Zenon
<1>18. \A id \in Ids : id >= next_id' => occ'[id] = 0 /\ hits'[id] = {}
  <2> SUFFICES ASSUME NEW id \in Ids, id >= next_id
               PROVE  occ'[id] = 0 /\ hits'[id] = {}
    BY <1>1, Zenon
  <2>1. id \notin matching
    <3>1. \A i \in 1..n : rules[i].id < next_id
      BY <1>2, <1>3, Zenon
    <3>2. next_id \in Nat /\ \A i \in 1..n : rules[i].id \in Nat
      BY <1>2, <1>3, Zenon
    <3>3. id \in Nat
      BY DEF Ids
    <3>4. \A i \in 1..n : rules[i].id # id
      BY <3>1, <3>2, <3>3
    <3>. QED  BY <3>4, Zenon DEF matching, n
  <2>2. id # id0
    BY <1>2, <1>9, SMTT(30) DEF Ids
  <2>. QED  BY <1>14, <1>15, <2>1, <2>2, Zenon
<1>19. ASSUME NEW i \in 1..n
       PROVE  FitsWindow(rules'[i], occ'[rules'[i].id], hits'[rules'[i].id], ceded'[rules'[i].id])
  <2> DEFINE id == rules[i].id
             s == rules[i].selector
             o == occ[id]
  <2>1. /\ id \in Ids /\ id \in Nat /\ s \in Selectors /\ o \in Nat
        /\ rules'[i].id = id /\ rules'[i].selector = s
        /\ FitsWindow(rules[i], o, hits[id], ceded[id])
        /\ id \in matching <=> Matches(rules[i], q)
        /\ id = id0 <=> i = sel
    BY <1>3, <1>7, <1>8, <1>11, <1>14, Zenon
  <2>2. CASE ~ Matches(rules[i], q)
    <3>1. i # sel
      BY <1>2, <1>5, <1>6, <2>2, SMTT(30)
    <3>2. occ'[id] = o /\ hits'[id] = hits[id] /\ ceded'[id] = ceded[id]
      BY <1>15, <2>1, <2>2, <3>1, ZenonT(30)
    <3>3. rules'[i].seen = rules[i].seen /\ rules'[i].applied = rules[i].applied
      BY <1>11, <2>2, <3>1, Zenon
    <3> HIDE DEF id, s, o
    <3>. QED  BY <2>1, <3>2, <3>3, ZenonT(30) DEF FitsWindow, id, s
  <2>3. CASE Matches(rules[i], q)
    <3>1. occ'[id] = o + 1
      BY <1>15, <2>1, <2>3, ZenonT(30)
    <3>2. hits[id] \in SUBSET Nat /\ IsFiniteSet(hits[id]) /\ \A x \in hits[id] : x <= o
      BY <1>14, <2>1, Zenon
    <3>3. /\ rules[i].applied \in Nat /\ rules'[i].applied \in Nat
          /\ rules[i].seen \in Nat /\ rules[i].applied <= rules[i].seen
      BY <1>2, <1>3, <1>11, Zenon
    <3>4. o + 1 < MaxSeen => rules[i].seen = o
      <4> HIDE DEF id, s, o
      <4>1. o \in Nat /\ MaxSeen \in Nat
        BY <1>2, <2>1, Zenon
      <4>2. o < MaxSeen => rules[i].seen = o
        BY <2>1, Zenon DEF FitsWindow
      <4>. QED  BY <4>1, <4>2
    <3>5. o + 1 < MaxSeen => rules'[i].seen = o + 1
      <4> HIDE DEF id, s, o
      <4>1. o \in Nat /\ MaxSeen \in Nat
        BY <1>2, <2>1, Zenon
      <4>2. rules'[i].seen = Saturating(rules[i].seen)
        BY <1>11, <2>3, Zenon
      <4>. QED  BY <3>4, <4>1, <4>2 DEF Saturating
    <3>6. CASE i = sel
      <4>1. hits'[id] = hits[id] \cup {o + 1} /\ ceded'[id] = ceded[id]
        BY <1>15, <2>1, <3>1, <3>6, ZenonT(30)
      <4>2. o + 1 < MaxSeen => rules'[i].applied = rules[i].applied + 1
        <5>1. rules'[i].applied = Saturating(rules[i].applied)
          BY <1>11, <3>6, Zenon
        <5> HIDE DEF o
        <5>2. o \in Nat /\ MaxSeen \in Nat
          BY <1>2, <2>1, ZenonT(30)
        <5>. QED  BY <3>3, <3>4, <5>1, <5>2, SMTT(30) DEF Saturating
      <4>3. armed(s, rules[i].seen)
        BY <1>2, <1>5, <1>6, <3>6, SMTT(30)
      <4>4. o + 1 < MaxSeen => armed(s, o)
        BY <3>4, <4>3, Zenon
      <4> HIDE DEF id, s, o
      <4>5. CASE o + 1 < MaxSeen
        <5>1. FitsWindow(rules'[i], o + 1, hits'[id], ceded'[id])
          BY <2>1, <3>2, <3>3, <3>5, <4>1, <4>2, <4>4, <4>5, FitsGrows, ZenonT(30) DEF id, s
        <5>. QED  BY <2>1, <3>1, <5>1, Zenon
      <4>6. CASE ~ (o + 1 < MaxSeen)
        BY <2>1, <3>1, <4>6, Zenon DEF FitsWindow
      <4>. QED  BY <4>5, <4>6, Zenon
    <3>7. CASE i # sel
      <4>1. hits'[id] = hits[id] /\ rules'[i].applied = rules[i].applied
        BY <1>11, <1>15, <2>1, <3>7, Zenon
      <4>2. ceded[id] \subseteq ceded'[id]
        BY <1>15, <2>1, Zenon
      <4>3. o + 1 < MaxSeen => ~ armed(s, o) \/ (id # 1 /\ o + 1 \in ceded'[id])
        <5> SUFFICES ASSUME o + 1 < MaxSeen, armed(s, o)
                     PROVE  id # 1 /\ o + 1 \in ceded'[id]
          BY Zenon
        <5>1. i \in Armed(q) /\ sel <= i /\ sel # 0
          BY <1>5, <1>6, <2>3, <3>4, Zenon
        <5>2. sel \in 1..n /\ sel < i
          <6>1. sel \in 1..n
            BY <1>5, <1>6, <5>1, Zenon
          <6>2. n \in Nat
            BY <1>2, Zenon
          <6>. QED  BY <3>7, <5>1, <6>1, <6>2
        <5>3. rules[sel].id < id /\ 1 <= rules[sel].id /\ rules[sel].id \in Nat
          BY <1>2, <1>3, <5>2, Zenon
        <5>4. id # 1
          <6> HIDE DEF id, s, o
          <6>1. id \in Nat
            BY <2>1, Zenon
          <6>. QED  BY <5>3, <6>1
        <5>5. id0 # 0
          BY <1>9, <5>1, SMTT(30)
        <5>. QED  BY <1>15, <2>1, <2>3, <3>1, <3>7, <5>4, <5>5, ZenonT(30)
      <4> HIDE DEF id, s, o
      <4>4. CASE o + 1 < MaxSeen
        <5>1. FitsWindow(rules'[i], o + 1, hits'[id], ceded'[id])
          BY <2>1, <3>2, <3>3, <3>5, <4>1, <4>2, <4>3, <4>4, FitsGrows, ZenonT(30) DEF id, s
        <5>. QED  BY <2>1, <3>1, <5>1, Zenon
      <4>5. CASE ~ (o + 1 < MaxSeen)
        BY <2>1, <3>1, <4>5, Zenon DEF FitsWindow
      <4>. QED  BY <4>4, <4>5, Zenon
    <3>. QED  BY <3>6, <3>7, Zenon
  <2>. QED  BY <2>2, <2>3, Zenon
<1>20. Counts'
  BY <1>10, <1>16, <1>17, <1>18, <1>19, Zenon DEF Counts
<1>. QED  BY <1>13, <1>20, Zenon

-----------------------------------------------------------------------------
\* Operations and their replies: each faulted one is under way, or has its event.
LEMMA OperateCounts ==
  ASSUME FaultAssumption, Registry, Events, NEW c \in Conns, NEW q \in Requests,
         NEW a \in Answers, Operate(c, q, a)
  PROVE  Events'
<1> DEFINE sel == Selected(q)
           mu == IF sel = 0 THEN "none" ELSE rules[sel].mutation
<1>1. /\ tx[c].stage = "idle"
      /\ tx' = [tx EXCEPT ![c] = Started(mu, a)]
      /\ faulted' = IF sel = 0 THEN faulted ELSE faulted + 1
      /\ UNCHANGED <<events, aborted>>
  BY Zenon DEF Operate, Started
<1>2. mu \in Mutations \cup {"none"} /\ (mu = "none" <=> sel = 0)
  <2>1. CASE sel = 0
    BY <2>1, Zenon
  <2>2. CASE sel # 0
    <3>1. sel \in 1..Len(rules)
      BY <2>2, SelectedIsFirst, Zenon DEF Armed
    <3>2. rules[sel] \in Rule
      BY <3>1 DEF Registry
    <3>3. rules[sel].mutation \in Mutations
      BY <3>2, Zenon DEF Rule
    <3>. QED  BY <2>2, <3>3, Zenon DEF Mutations
  <2>. QED  BY <2>1, <2>2, Zenon
<1> HIDE DEF sel, mu
<1>3. Started(mu, a) \in AllTx /\ Started(mu, a).mutation = mu
  <2>1. <<mu, a>> \in (Mutations \cup {"none"}) \X Answers
    BY <1>2, Zenon
  <2>1a. Started(mu, a) \in AllTx
    BY <2>1 DEF AllTx
  <2>2. Started(mu, a).mutation = mu
    BY Zenon DEF Started
  <2>. QED  BY <2>1a, <2>2, Zenon
<1>4. tx \in [Conns -> AllTx] /\ tx' \in [Conns -> AllTx]
  BY <1>1, <1>3, Zenon DEF Events
<1>5. tx[c].mutation = "none"
  <2>1. tx[c] \in AllTx
    BY <1>4
  <2>2. tx[c] = NoTx
    BY <1>1, <2>1 DEF AllTx, Started
  <2>. QED  BY <2>2 DEF NoTx
<1>6. /\ IsFiniteSet(Busy) /\ Cardinality(Busy) \in Nat
      /\ events \in Nat /\ aborted \in Nat /\ faulted \in Nat
      /\ events + aborted + Cardinality(Busy) = faulted
  <2>1. IsFiniteSet(Busy)
    BY FS_Subset, Zenon DEF Busy, FaultAssumption
  <2>. QED  BY <2>1, FS_CardinalityType, Zenon DEF Events, OneEventEach, Busy
<1>7. Busy' = IF sel = 0 THEN Busy ELSE Busy \cup {c}
  <2>1. \A d \in Conns : tx'[d].mutation = IF d = c THEN mu ELSE tx[d].mutation
    BY <1>1, <1>3, <1>4, Zenon
  <2>. QED  BY <1>2, <1>5, <2>1, Zenon DEF Busy
<1>8. c \notin Busy
  BY <1>5, Zenon DEF Busy
<1>9. Cardinality(Busy') = IF sel = 0 THEN Cardinality(Busy) ELSE Cardinality(Busy) + 1
  BY <1>6, <1>7, <1>8, FS_AddElement, Zenon
<1>10. events' + aborted' + Cardinality(Busy') = faulted' /\ faulted' \in Nat
  BY <1>1, <1>6, <1>9
<1>. QED  BY <1>1, <1>4, <1>6, <1>10, Zenon DEF Events, OneEventEach, Busy

\* The end of a transaction: its event is recorded, or it is counted as aborted.
LEMMA EndCounts ==
  ASSUME FaultAssumption, Events, NEW c \in Conns, Write(c) \/ Abort(c)
  PROVE  Events'
<1>1. /\ tx' = [tx EXCEPT ![c] = NoTx]
      /\ UNCHANGED faulted
      /\ \/ /\ events' = IF tx[c].mutation = "none" THEN events ELSE events + 1
            /\ aborted' = aborted
         \/ /\ aborted' = IF tx[c].mutation = "none" THEN aborted ELSE aborted + 1
            /\ events' = events
  BY Zenon DEF Write, Abort
<1>2. tx \in [Conns -> AllTx] /\ tx' \in [Conns -> AllTx]
  BY <1>1, Zenon DEF Events, AllTx
<1>3. /\ IsFiniteSet(Busy) /\ Cardinality(Busy) \in Nat
      /\ events \in Nat /\ aborted \in Nat /\ faulted \in Nat
      /\ events + aborted + Cardinality(Busy) = faulted
  <2>1. IsFiniteSet(Busy)
    BY FS_Subset, Zenon DEF Busy, FaultAssumption
  <2>. QED  BY <2>1, FS_CardinalityType, Zenon DEF Events, OneEventEach, Busy
<1>4. Busy' = Busy \ {c}
  <2>1. \A d \in Conns : tx'[d].mutation = IF d = c THEN "none" ELSE tx[d].mutation
    BY <1>1, <1>2, Zenon DEF NoTx
  <2>. QED  BY <2>1, Zenon DEF Busy
<1>5. Cardinality(Busy') = IF tx[c].mutation = "none" THEN Cardinality(Busy) ELSE Cardinality(Busy) - 1
  <2>1. c \in Busy <=> tx[c].mutation # "none"
    BY Zenon DEF Busy
  <2>. QED  BY <1>3, <1>4, <2>1, FS_RemoveElement, Zenon
<1>6. /\ events' + aborted' + Cardinality(Busy') = faulted'
      /\ events' \in Nat /\ aborted' \in Nat /\ faulted' \in Nat
  BY <1>1, <1>3, <1>5
<1>. QED  BY <1>2, <1>6, Zenon DEF Events, OneEventEach, Busy

-----------------------------------------------------------------------------
\* What is written of a transaction, up to its phase k.
Output(mu, a, k) ==
  LET reply == Mutated(mu, a)
      all == Phases(mu, reply)
  IN  [mutation |-> mu, answer |-> a, phases |-> SubSeq(all, 1, k), body |-> reply.body,
       closed |-> k < Len(all) \/ Closes(mu, reply),
       completion |-> k = Len(all) /\ Completes(mu, reply),
       marker |-> IF k = Len(all) THEN Marker(mu, reply) ELSE mu]

\* The phases that should go out.
Want(mu, a) ==
  LET data == IF HasData(a) THEN <<"data">> ELSE <<>>
      response == IF HasResponse(a) THEN <<"response">> ELSE <<>>
  IN  CASE mu = "failResponse" -> <<"response">>
        [] mu = "closeCommand" -> <<>>
        [] mu = "suppressData" -> response
        [] mu \in {"suppressResponse", "closeResponse"} -> data
        [] mu = "closeData" /\ HasData(a) -> <<>>
        [] OTHER -> data \o response

\* What RepliesAreFaithful says of one reply that was written.
Faithful(d) ==
  /\ IF d.closed THEN \E n \in 0..Len(Want(d.mutation, d.answer)) :
                        d.phases = SubSeq(Want(d.mutation, d.answer), 1, n)
     ELSE d.phases = Want(d.mutation, d.answer)
  /\ d.completion => d.phases = <<"data", "response">> /\ d.body = "own"

\* The phases that a mutation lets out are the ones that should go out.
LEMMA PhasesAreWanted ==
  ASSUME NEW mu \in Mutations \cup {"none"}, NEW a \in Answers
  PROVE  Phases(mu, Mutated(mu, a)) = Want(mu, a)
<1>1. a.kind \in {"response", "data", "stream", "none"}
  BY DEF Answers, Reply
<1>2. HasData(a) <=> a.kind \in {"data", "stream"}
  BY DEF HasData
<1>3. HasResponse(a) <=> a.kind \in {"response", "data", "stream"}
  BY DEF HasResponse
<1>4. CASE mu = "failResponse"
  <2>1. Mutated(mu, a) = Reply("response", "-", FALSE)
    BY <1>4 DEF Mutated
  <2>2. ~ HasData(Mutated(mu, a)) /\ HasResponse(Mutated(mu, a))
    BY <2>1 DEF Reply, HasData, HasResponse
  <2>. QED  BY <1>4, <2>2 DEF Phases, Want
<1>5. CASE mu = "closeCommand"
  <2>1. Mutated(mu, a) = Reply("close", "-", FALSE)
    BY <1>5 DEF Mutated
  <2>2. ~ HasData(Mutated(mu, a)) /\ ~ HasResponse(Mutated(mu, a))
    BY <2>1 DEF Reply, HasData, HasResponse
  <2>. QED  BY <1>5, <2>2 DEF Phases, Want
<1>6. CASE mu \notin {"failResponse", "closeCommand"}
  <2>1. HasData(Mutated(mu, a)) <=> HasData(a)
    BY <1>1, <1>2, <1>6 DEF Mutated, Reply, HasData
  <2>2. CASE mu # "suppressResponse"
    <3>1. HasResponse(Mutated(mu, a)) <=> HasResponse(a)
      BY <1>1, <1>3, <1>6, <2>2 DEF Mutated, Reply, HasResponse
    <3> DEFINE data == IF HasData(a) THEN <<"data">> ELSE <<>>
               response == IF HasResponse(a) THEN <<"response">> ELSE <<>>
    <3>2. data \o <<>> = data /\ <<>> \o response = response /\ <<>> \o <<>> = <<>>
      OBVIOUS
    <3>3. CASE mu = "suppressData"
      BY <2>1, <3>1, <3>2, <3>3 DEF Phases, Want
    <3>4. CASE mu = "closeResponse"
      BY <2>1, <3>1, <3>2, <3>4 DEF Phases, Want
    <3>5. CASE mu = "closeData"
      <4>1. CASE HasData(a)
        BY <2>1, <3>5, <4>1 DEF Phases, Want
      <4>2. CASE ~ HasData(a)
        BY <2>1, <3>1, <3>2, <3>5, <4>2, Zenon DEF Phases, Want
      <4>. QED  BY <4>1, <4>2, Zenon
    <3>6. CASE mu \notin {"suppressData", "closeResponse", "closeData"}
      <4>1. Want(mu, a) = data \o response
        BY <1>6, <2>2, <3>6 DEF Want
      <4>2. Phases(mu, Mutated(mu, a)) = data \o response
        BY <2>1, <2>2, <3>1, <3>6, Zenon DEF Phases
      <4>. QED  BY <4>1, <4>2
    <3>. QED  BY <3>3, <3>4, <3>5, <3>6, Zenon
  <2>3. CASE mu = "suppressResponse"
    BY <2>1, <2>3 DEF Phases, Want
  <2>. QED  BY <2>2, <2>3, Zenon
<1>. QED  BY <1>4, <1>5, <1>6, Zenon

\* The phases of a reply.
Names == {"data", "response"}

\* A beginning of a sequence of phases, and all of it.
LEMMA Beginnings ==
  ASSUME NEW q \in Seq(Names)
  PROVE  Len(q) \in Nat /\ SubSeq(q, 1, Len(q)) = q
OBVIOUS

\* A data phase and then a response are the two phases of a reply.
LEMMA OneAndOne ==
  <<"data">> \o <<"response">> = <<"data", "response">>
<1> DEFINE x == <<"data">>
           y == <<"response">>
<1>1. x \in Seq(Names) /\ Len(x) = 1 /\ x[1] = "data"
  BY DEF Names
<1>2. y \in Seq(Names) /\ Len(y) = 1 /\ y[1] = "response"
  BY DEF Names
<1>3. \A p, q \in Seq(Names) :
        /\ p \o q \in Seq(Names) /\ Len(p \o q) = Len(p) + Len(q)
        /\ \A i \in 1..Len(p) : (p \o q)[i] = p[i]
        /\ \A i \in 1..Len(q) : (p \o q)[Len(p) + i] = q[i]
  OBVIOUS
<1>4. \A p, q \in Seq(Names) :
        Len(p) = Len(q) /\ (\A i \in 1..Len(p) : p[i] = q[i]) => p = q
  OBVIOUS
<1> DEFINE z == <<"data", "response">>
<1>5. z \in Seq(Names) /\ Len(z) = 2 /\ z[1] = "data" /\ z[2] = "response"
  BY DEF Names
<1> HIDE DEF x, y, z
<1> DEFINE w == x \o y
<1>6. w \in Seq(Names) /\ Len(w) = 2 /\ w[1] = "data" /\ w[2] = "response"
  <2>1. /\ w \in Seq(Names) /\ Len(w) = Len(x) + Len(y)
        /\ \A i \in 1..Len(x) : w[i] = x[i]
        /\ \A i \in 1..Len(y) : w[Len(x) + i] = y[i]
    BY <1>1, <1>2, <1>3, Zenon
  <2> HIDE DEF w
  <2>. QED  BY <1>1, <1>2, <2>1
<1> HIDE DEF w
<1>7. \A i \in 1..Len(w) : w[i] = z[i]
  BY <1>5, <1>6
<1>8. w = z
  BY <1>4, <1>5, <1>6, <1>7
<1>. QED  BY <1>8 DEF w, x, y, z

\* The phases that should go out are phases.
LEMMA WantIsSequence ==
  ASSUME NEW mu, NEW a
  PROVE  Want(mu, a) \in Seq(Names)
<1> DEFINE data == IF HasData(a) THEN <<"data">> ELSE <<>>
           response == IF HasResponse(a) THEN <<"response">> ELSE <<>>
<1>1. <<"data">> \in Seq(Names) /\ <<"response">> \in Seq(Names) /\ <<>> \in Seq(Names)
  BY DEF Names
<1>2. data \in Seq(Names) /\ response \in Seq(Names)
  BY <1>1
<1>3. Want(mu, a) \in {data, response, data \o response, <<"response">>, <<>>}
  BY DEF Want
<1> HIDE DEF data, response
<1>4. data \o response \in Seq(Names)
  BY <1>2
<1>. QED  BY <1>1, <1>2, <1>3, <1>4, Zenon

\* What is written is faithful, however far it comes.
LEMMA OutputIsFaithful ==
  ASSUME NEW mu \in Mutations \cup {"none"}, NEW a \in Answers,
         NEW k \in 0..Len(Phases(mu, Mutated(mu, a)))
  PROVE  Faithful(Output(mu, a, k))
<1> DEFINE reply == Mutated(mu, a)
           all == Phases(mu, reply)
           d == Output(mu, a, k)
<1>1. /\ d.mutation = mu /\ d.answer = a /\ d.phases = SubSeq(all, 1, k) /\ d.body = reply.body
      /\ d.closed = (k < Len(all) \/ Closes(mu, reply))
      /\ d.completion = (k = Len(all) /\ Completes(mu, reply))
  BY Zenon DEF Output
<1>2. all = Want(mu, a) /\ all \in Seq(Names)
  BY PhasesAreWanted, WantIsSequence, Zenon
<1>3. Len(all) \in Nat /\ SubSeq(all, 1, Len(all)) = all
  BY <1>2, Beginnings, Zenon
<1> HIDE DEF d
<1>4. IF d.closed THEN \E n \in 0..Len(all) : d.phases = SubSeq(all, 1, n) ELSE d.phases = all
  <2>1. d.closed => \E n \in 0..Len(all) : d.phases = SubSeq(all, 1, n)
    BY <1>1, Zenon
  <2>2. ~ d.closed => ~ (k < Len(all))
    BY <1>1, Zenon
  <2> HIDE DEF all
  <2>3. PICK m \in Nat : m = Len(all)
    BY <1>3, Zenon
  <2>4. k \in 0..m
    BY <2>3 DEF all
  <2>5. ~ (k < Len(all)) => k = Len(all)
    BY <2>3, <2>4
  <2>. QED  BY <1>1, <1>3, <2>1, <2>2, <2>5, Zenon
<1>6. d.completion => d.phases = <<"data", "response">> /\ d.body = "own"
  <2> SUFFICES ASSUME k = Len(all), Completes(mu, reply)
               PROVE  all = <<"data", "response">> /\ reply.body = "own"
    BY <1>1, <1>3, Zenon
  <2>1. /\ reply.kind = "stream" /\ reply.completion
        /\ mu \notin {"closeData", "closeResponse", "suppressResponse", "suppressData"}
    BY Zenon DEF Completes
  <2>2. reply = a
    BY <2>1, Zenon DEF Mutated, Reply
  <2>3. a.body = "own"
    <3>1. a.kind = "stream"
      BY <2>1, <2>2
    <3>. QED  BY <3>1 DEF Answers, Reply
  <2>4. HasData(reply) /\ HasResponse(reply)
    BY <2>1, Zenon DEF HasData, HasResponse
  <2>5. all = <<"data">> \o <<"response">>
    BY <2>1, <2>4, Zenon DEF Phases
  <2>6. <<"data">> \o <<"response">> = <<"data", "response">>
    BY OneAndOne
  <2>. QED  BY <2>2, <2>3, <2>5, <2>6, Zenon
<1>7. Faithful(d)
  BY <1>1, <1>2, <1>4, <1>6, Zenon DEF Faithful
<1>. QED  BY <1>7, Zenon DEF d

\* Every reply that was written is faithful, and so will be the ones under way.
Replies ==
  /\ tx \in [Conns -> AllTx]
  /\ DOMAIN done = Conns
  /\ \A c \in Conns : Faithful(done[c])

\* Writing a reply.
LEMMA WriteKeeps ==
  ASSUME Replies, NEW c \in Conns, Write(c)
  PROVE  Replies'
<1>1. PICK k \in 0..Len(Phases(tx[c].mutation, tx[c].reply)) :
        done' = [done EXCEPT ![c] =
             [mutation |-> tx[c].mutation, answer |-> tx[c].answer,
              phases |-> SubSeq(Phases(tx[c].mutation, tx[c].reply), 1, k),
              body |-> tx[c].reply.body,
              closed |-> k < Len(Phases(tx[c].mutation, tx[c].reply)) \/ Closes(tx[c].mutation, tx[c].reply),
              completion |-> k = Len(Phases(tx[c].mutation, tx[c].reply)) /\ Completes(tx[c].mutation, tx[c].reply),
              marker |-> IF k = Len(Phases(tx[c].mutation, tx[c].reply))
                         THEN Marker(tx[c].mutation, tx[c].reply) ELSE tx[c].mutation]]
  BY ZenonT(30) DEF Write
<1>2. tx[c].stage = "writing" /\ tx' = [tx EXCEPT ![c] = NoTx]
  BY Zenon DEF Write
<1>3. tx[c] \in AllTx /\ tx[c] # NoTx
  <2>1. tx[c] \in AllTx
    BY DEF Replies
  <2>2. NoTx.stage = "idle"
    BY Zenon DEF NoTx
  <2>. QED  BY <1>2, <2>1, <2>2, Zenon
<1>4. PICK p \in (Mutations \cup {"none"}) \X Answers : tx[c] = Started(p[1], p[2])
  BY <1>3, Zenon DEF AllTx
<1>5. PICK mu \in Mutations \cup {"none"}, a \in Answers : tx[c] = Started(mu, a)
  BY <1>4, Zenon
<1>6. tx[c].mutation = mu /\ tx[c].answer = a /\ tx[c].reply = Mutated(mu, a)
  BY <1>5 DEF Started
<1>7. k \in 0..Len(Phases(mu, Mutated(mu, a))) /\ done' = [done EXCEPT ![c] = Output(mu, a, k)]
  BY <1>1, <1>6, ZenonT(30) DEF Output
<1>8. Faithful(Output(mu, a, k))
  BY <1>7, OutputIsFaithful, Zenon
<1>9. DOMAIN done' = Conns /\ \A x \in Conns : done'[x] = IF x = c THEN Output(mu, a, k) ELSE done[x]
  BY <1>7, Zenon DEF Replies
<1>10. \A x \in Conns : Faithful(done'[x])
  BY <1>8, <1>9, Zenon DEF Replies
<1>11. tx' \in [Conns -> AllTx]
  BY <1>2, Zenon DEF Replies, AllTx
<1>. QED  BY <1>9, <1>10, <1>11, Zenon DEF Replies

-----------------------------------------------------------------------------
\* The inductive invariant of the registry.
IInv == Registry /\ Counts /\ Events

\* The registry, its counters and the events stay as the invariant says.
LEMMA SharesInvariant ==
  ASSUME FaultAssumption
  PROVE  FaultSpec => []IInv
<1>1. FaultInit => IInv
  <2> SUFFICES ASSUME FaultInit
               PROVE  IInv
    OBVIOUS
  <2>1. rules \in Seq(Rule) /\ Len(rules) = 0
    BY DEF FaultInit
  <2>2. Registry
    BY <2>1 DEF FaultInit, Registry, FaultAssumption
  <2>3. /\ \A id \in Ids : occ[id] = 0 /\ hits[id] = {}
        /\ occ \in [Ids -> Nat] /\ hits \in [Ids -> SUBSET Nat] /\ ceded \in [Ids -> SUBSET Nat]
    BY Zenon DEF FaultInit
  <2>4. Counts
    <3>1. IsFiniteSet({})
      BY FS_EmptySet, Zenon
    <3>2. \A id \in Ids : IsFiniteSet(hits[id]) /\ \A o \in hits[id] : o <= occ[id]
      BY <2>3, <3>1, Zenon
    <3>. QED  BY <2>1, <2>3, <3>2 DEF Counts
  <2>5. tx \in [Conns -> AllTx] /\ \A c \in Conns : tx[c].mutation = "none"
    BY Zenon DEF FaultInit, AllTx, NoTx
  <2>6. Busy = {}
    BY <2>5, Zenon DEF Busy
  <2>7. Cardinality(Busy) = 0
    BY <2>6, FS_EmptySet, Zenon
  <2>8. events + aborted + Cardinality(Busy) = faulted /\ events = 0 /\ aborted = 0 /\ faulted = 0
    BY <2>7 DEF FaultInit
  <2>. QED  BY <2>2, <2>4, <2>5, <2>8 DEF IInv, Events, OneEventEach, Busy
<1>2. IInv /\ [FaultNext]_faultVars => IInv'
  <2> SUFFICES ASSUME IInv, [FaultNext]_faultVars
               PROVE  IInv'
    OBVIOUS
  <2>1. Registry /\ Counts /\ Events
    BY DEF IInv
  <2>2. ASSUME UNCHANGED <<tx, events, aborted, faulted>>
        PROVE  Events'
    BY <2>1, <2>2, Zenon DEF Events, OneEventEach
  <2>3. ASSUME UNCHANGED <<next_id, rules, last, occ, hits, ceded>>
        PROVE  Registry' /\ Counts'
    BY <2>1, <2>3, Zenon DEF Registry, Counts
  <2>4. ASSUME NEW s \in Selectors, NEW mu \in Used, Insert(s, mu)
        PROVE  IInv'
    <3>1. UNCHANGED <<tx, events, aborted, faulted>>
      BY <2>4, Zenon DEF Insert, history
    <3>. QED  BY <2>1, <2>2, <2>4, <3>1, InsertKeeps, Zenon DEF IInv
  <2>5. ASSUME NEW id \in Ids, Remove(id)
        PROVE  IInv'
    <3>1. UNCHANGED <<tx, events, aborted, faulted>>
      BY <2>5, Zenon DEF Remove, history
    <3>. QED  BY <2>1, <2>2, <2>5, <3>1, RemoveKeeps, Zenon DEF IInv
  <2>6. CASE Clear
    <3>1. UNCHANGED <<tx, events, aborted, faulted>>
      BY <2>6, Zenon DEF Clear, history
    <3>. QED  BY <2>1, <2>2, <2>6, <3>1, ClearKeeps, Zenon DEF IInv
  <2>7. ASSUME NEW c \in Conns, NEW q \in Requests, NEW a \in Answers, Operate(c, q, a)
        PROVE  IInv'
    BY <2>1, <2>7, OperateKeeps, OperateCounts, Zenon DEF IInv
  <2>8. ASSUME NEW c \in Conns, Write(c) \/ Abort(c)
        PROVE  IInv'
    <3>1. UNCHANGED <<next_id, rules, last, occ, hits, ceded>>
      BY <2>8, Zenon DEF Write, Abort, registry
    <3>. QED  BY <2>1, <2>3, <2>8, <3>1, EndCounts, Zenon DEF IInv
  <2>9. CASE UNCHANGED faultVars
    BY <2>2, <2>3, <2>9, Zenon DEF faultVars, IInv
  <2>. QED  BY <2>4, <2>5, <2>6, <2>7, <2>8, <2>9, Zenon DEF FaultNext, FaultStep
<1>. QED  BY <1>1, <1>2, PTL DEF FaultSpec

\* The rules share the transactions out exactly, for every number of rules, connections
\* and transactions and wherever the counters saturate (FaultSet::apply).
THEOREM WindowsHold == FaultSpec => []WindowsAreExact
<1> USE FaultAssumption
<1>1. IInv => FaultTypeOK /\ WindowsAreShared
  <2> SUFFICES ASSUME IInv
               PROVE  FaultTypeOK /\ WindowsAreShared
    OBVIOUS
  <2>1. Registry /\ Counts /\ Events
    BY Zenon DEF IInv
  <2>2. \A i \in 1..Len(rules) :
          FitsWindow(rules[i], occ[rules[i].id], hits[rules[i].id], ceded[rules[i].id])
    BY <2>1, Zenon DEF Counts
  <2>3. WindowIsExact
    BY <2>2, ZenonT(30) DEF WindowIsExact, FitsWindow
  <2>4. OldestFirst
    BY <2>2, Zenon DEF OldestFirst, FitsWindow
  <2>5. FaultTypeOK
    <3>1. \A i \in 1..Len(rules) : rules[i] \in Rule
      BY <2>1 DEF Registry
    <3>2. \A i \in 1..Len(rules) : /\ rules[i].id \in Nat /\ rules[i].seen \in Nat
                                     /\ rules[i].applied \in Nat
      BY <3>1, Zenon DEF Rule
    <3>3. /\ next_id \in Nat /\ MaxSeen \in Nat /\ MaxRules \in Nat /\ Len(rules) \in Nat
          /\ 1 <= next_id /\ next_id <= MaxRules + 1 /\ last \in Nat /\ last < next_id
      BY <2>1 DEF Registry, FaultAssumption
    <3>4. \A i \in 1..Len(rules) :
            /\ rules[i].id \in 1..(next_id - 1)
            /\ rules[i].seen \in 0..MaxSeen /\ rules[i].applied \in 0..rules[i].seen
      BY <2>1, <3>2, <3>3 DEF Registry
    <3>5. \A i \in 1..Len(rules) : \A j \in 1..(i - 1) : rules[j].id < rules[i].id
      <4> SUFFICES ASSUME NEW i \in 1..Len(rules), NEW j \in 1..(i - 1)
                   PROVE  rules[j].id < rules[i].id
        OBVIOUS
      <4>1. j \in 1..Len(rules) /\ j < i
        BY <3>3
      <4>. QED  BY <2>1, <4>1, Zenon DEF Registry
    <3>6. \A c \in Conns : tx[c].mutation \in Mutations \cup {"none"}
      <4> SUFFICES ASSUME NEW c \in Conns
                   PROVE  tx[c].mutation \in Mutations \cup {"none"}
        OBVIOUS
      <4>1. tx[c] \in AllTx
        BY <2>1, Zenon DEF Events
      <4>2. CASE tx[c] = NoTx
        BY <4>2 DEF NoTx
      <4>3. CASE tx[c] # NoTx
        <5>1. PICK p \in (Mutations \cup {"none"}) \X Answers : tx[c] = Started(p[1], p[2])
          BY <4>1, <4>3, Zenon DEF AllTx
        <5>2. tx[c].mutation = p[1]
          BY <5>1 DEF Started
        <5>. QED  BY <5>2, Zenon
      <4>. QED  BY <4>2, <4>3, Zenon
    <3>7. next_id \in 1..(MaxRules + 1) /\ last \in 0..(next_id - 1)
      BY <3>3
    <3>. QED  BY <3>4, <3>5, <3>6, <3>7, Zenon DEF FaultTypeOK
  <2>. QED  BY <2>1, <2>3, <2>4, <2>5, Zenon DEF WindowsAreShared, Events
<1>. QED  BY <1>1, SharesInvariant, PTL DEF WindowsAreExact

\* What reaches the wire is what the mutation selects, and only delivered bytes are
\* acknowledged, for every mutation, every kind of answer and every break of the
\* connection (write_reply, applied_wire_outcome).
THEOREM RepliesHold == FaultSpec => []RepliesAreFaithful
<1> USE FaultAssumption
<1>1. FaultInit => Replies
  <2> SUFFICES ASSUME FaultInit
               PROVE  Replies
    OBVIOUS
  <2>1. tx \in [Conns -> AllTx] /\ DOMAIN done = Conns /\ \A c \in Conns : done[c] = Nothing
    BY Zenon DEF FaultInit, AllTx
  <2>2. /\ Nothing.mutation = "none" /\ Nothing.answer = Reply("none", "-", FALSE)
        /\ Nothing.phases = <<>> /\ Nothing.closed = FALSE /\ Nothing.completion = FALSE
    BY Zenon DEF Nothing
  <2>3. ~ HasData(Nothing.answer) /\ ~ HasResponse(Nothing.answer)
    BY <2>2 DEF HasData, HasResponse, Reply
  <2>4. Want(Nothing.mutation, Nothing.answer) = <<>> \o <<>>
    BY <2>2, <2>3 DEF Want
  <2>5. <<>> \o <<>> = <<>>
    OBVIOUS
  <2>6. Faithful(Nothing)
    BY <2>2, <2>4, <2>5, Zenon DEF Faithful
  <2>. QED  BY <2>1, <2>6, Zenon DEF Replies
<1>2. Replies /\ IInv /\ [FaultNext]_faultVars => Replies'
  <2> SUFFICES ASSUME Replies, IInv, [FaultNext]_faultVars
               PROVE  Replies'
    OBVIOUS
  <2>1. ASSUME NEW c \in Conns, Write(c)
        PROVE  Replies'
    BY <2>1, WriteKeeps
  <2>2. ASSUME UNCHANGED <<tx, done>>
        PROVE  Replies'
    BY <2>2, Zenon DEF Replies
  <2>3. ASSUME NEW c \in Conns, Abort(c)
        PROVE  Replies'
    <3>1. done' = done /\ tx' = [tx EXCEPT ![c] = NoTx]
      BY <2>3, Zenon DEF Abort
    <3>2. tx' \in [Conns -> AllTx]
      BY <3>1, Zenon DEF Replies, AllTx
    <3>. QED  BY <3>1, <3>2, Zenon DEF Replies
  <2>4. ASSUME NEW c \in Conns, NEW q \in Requests, NEW a \in Answers, Operate(c, q, a)
        PROVE  Replies'
    <3>1. tx' \in [Conns -> AllTx]
      BY <2>4, OperateCounts, Zenon DEF IInv, Events
    <3>2. done' = done
      BY <2>4, Zenon DEF Operate
    <3>. QED  BY <3>1, <3>2, Zenon DEF Replies
  <2>. QED  BY <2>1, <2>2, <2>3, <2>4, Zenon
               DEF FaultNext, FaultStep, Insert, Remove, Clear, faultVars
<1>3. Replies => RepliesAreFaithful
  <2> SUFFICES ASSUME Replies
               PROVE  OnlySelectedPhase /\ AcknowledgedWasDelivered
    BY DEF RepliesAreFaithful
  <2>1. \A c \in Conns : Faithful(done[c])
    BY Zenon DEF Replies
  <2>2. OnlySelectedPhase
    BY <2>1, Zenon DEF OnlySelectedPhase, Faithful, Want
  <2>3. AcknowledgedWasDelivered
    BY <2>1, Zenon DEF AcknowledgedWasDelivered, Faithful
  <2>. QED  BY <2>2, <2>3
<1>. QED  BY <1>1, <1>2, <1>3, SharesInvariant, PTL DEF FaultSpec
=============================================================================
