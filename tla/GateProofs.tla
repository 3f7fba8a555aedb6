----------------------------- MODULE GateProofs -----------------------------
(***************************************************************************)
(* Proofs about SequenceGates, for every manifest, and about AuxListener,  *)
(* for any number of clients and rearms.  The gates need what the loop of  *)
(* advance_sequence_gates has accounted for after each of its turns        *)
(* (LoopInv), by induction over the turns.  The listener needs who holds   *)
(* which socket at each point of the handover (SocketsAreHeld) and of      *)
(* which listening period an accepted connection is (AcceptedIsRecent).    *)
(***************************************************************************)
EXTENDS SequenceGates, AuxListener, WellFoundedInduction, TLAPS

\* Every set of natural numbers that is not empty has a least element.
LEMMA LeastNat ==
  ASSUME NEW T \in SUBSET Nat, T # {}
  PROVE  \E n \in T : \A k \in T : n <= k
<1> DEFINE R == OpToRel(<, Nat)
<1>1. IsWellFoundedOn(R, Nat)
  BY NatLessThanWellFounded
<1>2. \A k, n \in Nat : k < n => <<k, n>> \in R
  BY DEF OpToRel
<1> HIDE DEF R
<1>3. PICK n \in T : \A k \in T : ~ (<<k, n>> \in R)
  BY <1>1, WFMin, Zenon
<1>4. ASSUME NEW k \in T PROVE n <= k
  <2>1. k \in Nat /\ n \in Nat
    OBVIOUS
  <2>2. ~ (k < n)
    BY <1>2, <1>3, <2>1, Zenon
  <2> QED  BY <2>1, <2>2
<1> QED
  BY <1>4

\* f holds what the turns of the loop leave behind, from f[0] before the first.
IsLoop(f, sat, prog, r) ==
  /\ f[0] = [sat |-> sat, prog |-> prog]
  /\ \A i \in Indices : f[i] = Turn(f[i - 1], i, r)
  /\ Advanced(sat, prog, r) = f[Len(GateSequences)]

\* The loop has a result: the function of its turns exists, and what the loop
\* computes is the value after the last turn.
LEMMA LoopRuns ==
  ASSUME NEW sat, NEW prog, NEW r
  PROVE  \E f : IsLoop(f, sat, prog, r)
<1> DEFINE g0 == [sat |-> sat, prog |-> prog]
           turn[i \in 0..Len(GateSequences)] == IF i = 0 THEN g0 ELSE Turn(turn[i - 1], i, r)
<1>1. Advanced(sat, prog, r) = turn[Len(GateSequences)]
  BY Zenon DEF Advanced
<1> HIDE DEF g0, turn
<1>2. \E f : f = [i \in 0..Len(GateSequences) |-> IF i = 0 THEN g0 ELSE Turn(f[i - 1], i, r)]
  <2> DEFINE Good(n) == \E f : f = [i \in 0..n |-> IF i = 0 THEN g0 ELSE Turn(f[i - 1], i, r)]
             T == {n \in Nat : ~ Good(n)}
  <2>1. SUFFICES ASSUME T # {} PROVE FALSE
    BY SequenceAssumption
  <2>2. PICK n \in T : \A k \in T : n <= k
    <3> HIDE DEF Good
    <3> QED  BY <2>1, LeastNat, Zenon
  <2>3. n # 0
    <3> SUFFICES ASSUME n = 0 PROVE Good(0)
      BY Zenon
    <3> DEFINE f == [i \in 0..0 |-> g0]
    <3>1. f = [i \in 0..0 |-> IF i = 0 THEN g0 ELSE Turn(f[i - 1], i, r)]
      OBVIOUS
    <3> QED  BY <3>1, Zenon
  <2>4. Good(n - 1)
    <3> HIDE DEF Good
    <3> QED  BY <2>2, <2>3
  <2>5. PICK f : f = [i \in 0..(n - 1) |-> IF i = 0 THEN g0 ELSE Turn(f[i - 1], i, r)]
    BY <2>4
  <2> DEFINE h == [i \in 0..n |-> IF i = n THEN Turn(f[n - 1], n, r) ELSE f[i]]
  <2>6. ASSUME NEW i \in 0..n
        PROVE  h[i] = IF i = 0 THEN g0 ELSE Turn(h[i - 1], i, r)
    BY <2>3, <2>5
  <2>7. Good(n)
    <3> HIDE DEF h
    <3>1. h = [i \in 0..n |-> IF i = 0 THEN g0 ELSE Turn(h[i - 1], i, r)]
      BY <2>6 DEF h
    <3> QED  BY <3>1
  <2> QED  BY <2>7
<1>3. turn = [i \in 0..Len(GateSequences) |-> IF i = 0 THEN g0 ELSE Turn(turn[i - 1], i, r)]
  BY <1>2, Zenon DEF turn
<1>4. Len(GateSequences) \in Nat
  BY SequenceAssumption
<1>5. turn[0] = g0
  BY <1>3, <1>4
<1>6. ASSUME NEW i \in Indices PROVE turn[i] = Turn(turn[i - 1], i, r)
  BY <1>3, <1>4 DEF Indices
<1> QED
  BY <1>1, <1>5, <1>6 DEF g0, IsLoop

-----------------------------------------------------------------------------
\* Runs of a sequence in the history.

\* A run stays a run when the history grows.
LEMMA RunIsKept ==
  ASSUME NEW l \in Seq(Requests), NEW r \in Requests, NEW i \in Indices, NEW k \in Nat, NEW n \in Nat,
         RunsFrom(l, n, i, k)
  PROVE  RunsFrom(Append(l, r), n, i, k)
  BY DEF RunsFrom

\* The request that matches the next step makes the run one step longer.
LEMMA RunGrows ==
  ASSUME NEW l \in Seq(Requests), NEW r \in Requests, NEW i \in Indices, NEW k \in Nat,
         RunsFrom(l, Len(l) - k, i, k), Matches(i, k + 1, r)
  PROVE  RunsFrom(Append(l, r), Len(Append(l, r)) - (k + 1), i, k + 1)
<1>1. /\ Len(Append(l, r)) = Len(l) + 1
      /\ \A s \in 1..Len(l) : Append(l, r)[s] = l[s]
      /\ Append(l, r)[Len(l) + 1] = r
  OBVIOUS
<1>2. r \in GateSequences[i].steps[k + 1]
  BY DEF Matches
<1>3. Len(l) - k \in 0..(Len(l) - k)
  BY DEF RunsFrom
<1>4. ASSUME NEW s \in 1..(k + 1)
      PROVE  Append(l, r)[Len(l) - k + s] \in GateSequences[i].steps[s]
  <2>1. CASE s = k + 1
    BY <1>1, <1>2, <2>1
  <2>2. CASE s \in 1..k
    BY <1>1, <1>3, <2>2 DEF RunsFrom
  <2>3. s = k + 1 \/ s \in 1..k
    OBVIOUS
  <2> QED  BY <2>1, <2>2, <2>3, Zenon
<1>5. Len(Append(l, r)) - (k + 1) = Len(l) - k
  BY <1>1
<1> QED
  BY <1>1, <1>3, <1>4, <1>5 DEF RunsFrom

\* No progress is earned by any history.
LEMMA EmptyRun ==
  ASSUME NEW l \in Seq(Requests), NEW i \in Indices
  PROVE  RunsFrom(l, Len(l) - 0, i, 0)
  BY DEF RunsFrom

-----------------------------------------------------------------------------
\* The loop of advance_sequence_gates.

\* Some sequence of the gate g was run without a break in the history l.
Earned(l, g) ==
  \E i \in Indices :
    /\ GateSequences[i].gate = g
    /\ \E n \in 0..Len(l) : RunsFrom(l, n, i, Len(GateSequences[i].steps))

\* The account of the gates has its types, and no sequence stands at its end.
Typed(g) ==
  /\ g \in [sat : SUBSET Gates, prog : [Indices -> Nat]]
  /\ \A j \in Indices : g.prog[j] < Len(GateSequences[j].steps)

\* At most one sequence of a gate is under way, and none of a satisfied gate.
Alone(g) ==
  \A i, j \in Indices :
    (GateSequences[i].gate = GateSequences[j].gate /\ g.prog[i] > 0) =>
      /\ g.prog[j] > 0 => i = j
      /\ GateSequences[i].gate \notin g.sat

\* After the turn of sequence i: the sequences up to i account for the request r,
\* the ones behind it still stand where they stood before it.
LoopInv(g, i, past, r) ==
  /\ Typed(g)
  /\ Alone(g)
  /\ \A j \in Indices :
       LET l == IF j <= i THEN Append(past, r) ELSE past
       IN  RunsFrom(l, Len(l) - g.prog[j], j, g.prog[j])
  /\ \A s \in g.sat : Earned(Append(past, r), s)

\* What the compiled sequences look like.
LEMMA SequenceFacts ==
  /\ Len(GateSequences) \in Nat
  /\ \A i \in Indices : /\ i \in Nat /\ i > 0
                        /\ GateSequences[i].gate \in Gates
                        /\ GateSequences[i].steps \in Seq(SUBSET Requests)
                        /\ Len(GateSequences[i].steps) \in Nat
                        /\ Len(GateSequences[i].steps) > 0
<1>1. Len(GateSequences) \in Nat
  BY SequenceAssumption
<1>2. ASSUME NEW i \in Indices
      PROVE  GateSequences[i] \in [gate : Gates, steps : Seq(SUBSET Requests)]
  <2> DEFINE S == [gate : Gates, steps : Seq(SUBSET Requests)]
  <2>1. GateSequences \in Seq(S) /\ i \in 1..Len(GateSequences)
    BY SequenceAssumption DEF Indices
  <2> HIDE DEF S
  <2>2. GateSequences[i] \in S
    BY <2>1
  <2> QED  BY <2>2 DEF S
<1>3. ASSUME NEW i \in Indices PROVE i \in Nat /\ i > 0
  BY <1>1 DEF Indices
<1>4. ASSUME NEW i \in Indices
      PROVE  GateSequences[i].gate \in Gates /\ GateSequences[i].steps \in Seq(SUBSET Requests)
  BY <1>2
<1>5. ASSUME NEW i \in Indices PROVE Len(GateSequences[i].steps) \in Nat
  BY <1>4
<1>6. \A i \in Indices : Len(GateSequences[i].steps) > 0
  BY SequenceAssumption
<1> QED
  BY <1>1, <1>3, <1>4, <1>5, <1>6

\* Advancing a sequence to n steps, when the history holds a run of n steps.
LEMMA AdvanceProgressInv ==
  ASSUME NEW past \in Seq(Requests), NEW r \in Requests, NEW i \in Indices, NEW n \in Nat, NEW g,
         n <= Len(GateSequences[i].steps),
         RunsFrom(Append(past, r), Len(Append(past, r)) - n, i, n),
         Typed(g), Alone(g),
         GateSequences[i].gate \notin g.sat,
         \A j \in Indices \ {i} : GateSequences[j].gate = GateSequences[i].gate => g.prog[j] = 0,
         \A j \in Indices \ {i} :
            LET l == IF j <= i THEN Append(past, r) ELSE past
            IN  RunsFrom(l, Len(l) - g.prog[j], j, g.prog[j]),
         \A s \in g.sat : Earned(Append(past, r), s)
  PROVE  LoopInv(AdvanceProgress(g, i, n), i, past, r)
<1> DEFINE h == AdvanceProgress(g, i, n)
           new == Append(past, r)
<1>0. new \in Seq(Requests) /\ Len(new) \in Nat
  OBVIOUS
<1>1. CASE n >= Len(GateSequences[i].steps)
  <2>1. h = [sat |-> g.sat \cup {GateSequences[i].gate}, prog |-> [g.prog EXCEPT ![i] = 0]]
    BY <1>1 DEF AdvanceProgress
  <2>2. Typed(h)
    BY <2>1, SequenceFacts DEF Typed
  <2>3. n = Len(GateSequences[i].steps)
    BY <1>1, SequenceFacts
  <2>4. Earned(new, GateSequences[i].gate)
    <3>1. Len(new) - n \in 0..Len(new)
      BY <1>0 DEF RunsFrom
    <3> QED  BY <2>3, <3>1, Zenon DEF Earned
  <2>5. \A s \in h.sat : Earned(new, s)
    BY <2>1, <2>4
  <2>6. ASSUME NEW j \in Indices
        PROVE  LET l == IF j <= i THEN new ELSE past
               IN  RunsFrom(l, Len(l) - h.prog[j], j, h.prog[j])
    <3>1. CASE j = i
      <4>1. h.prog[j] = 0
        BY <2>1, <3>1 DEF Typed
      <4> QED  BY <4>1, <3>1, <1>0, EmptyRun, SequenceFacts, Zenon
    <3>2. CASE j # i
      <4>1. h.prog[j] = g.prog[j]
        BY <2>1, <3>2 DEF Typed
      <4> QED  BY <4>1, <3>2, Zenon
    <3> QED  BY <3>1, <3>2, Zenon
  <2>7. Alone(h)
    <3>1. h.sat = g.sat \cup {GateSequences[i].gate} /\ h.prog[i] = 0
      BY <2>1 DEF Typed
    <3>2. \A j \in Indices \ {i} : h.prog[j] = g.prog[j]
      BY <2>1 DEF Typed
    <3>3. \A j \in Indices : h.prog[j] > 0 => j # i /\ GateSequences[j].gate # GateSequences[i].gate
      BY <3>1, <3>2
    <3> HIDE DEF h
    <3> QED  BY <3>1, <3>2, <3>3, Zenon DEF Alone
  <2> QED  BY <2>2, <2>5, <2>6, <2>7, Zenon DEF LoopInv
<1>2. CASE n < Len(GateSequences[i].steps)
  <2>1. h = [g EXCEPT !.prog[i] = n]
    BY <1>2, SequenceFacts DEF AdvanceProgress
  <2>2. h.sat = g.sat /\ h.prog = [g.prog EXCEPT ![i] = n]
    BY <2>1 DEF Typed
  <2>3. Typed(h)
    BY <1>2, <2>1, <2>2, Zenon DEF Typed
  <2>4. ASSUME NEW j \in Indices
        PROVE  LET l == IF j <= i THEN new ELSE past
               IN  RunsFrom(l, Len(l) - h.prog[j], j, h.prog[j])
    <3>1. CASE j = i
      <4>1. h.prog[j] = n
        BY <2>2, <3>1, Zenon DEF Typed
      <4> QED  BY <4>1, <3>1, SequenceFacts
    <3>2. CASE j # i
      <4>1. h.prog[j] = g.prog[j]
        BY <2>2, <3>2, Zenon DEF Typed
      <4> QED  BY <4>1, <3>2
    <3> QED  BY <3>1, <3>2
  <2>5. Alone(h)
    <3>1. \A j \in Indices \ {i} : h.prog[j] = g.prog[j]
      BY <2>2, Zenon DEF Typed
    <3>2. \A j \in Indices \ {i} : GateSequences[j].gate = GateSequences[i].gate => h.prog[j] = 0
      BY <3>1, Zenon
    <3>3. \A a \in Nat : (a = 0) => ~ (a > 0)
      OBVIOUS
    <3> HIDE DEF h
    <3> QED  BY <2>2, <3>1, <3>2, <3>3 DEF Alone
  <2> QED  BY <2>2, <2>3, <2>4, <2>5, Zenon DEF LoopInv
<1> QED
  BY <1>1, <1>2, SequenceFacts

\* One turn of the loop.
LEMMA TurnInv ==
  ASSUME NEW past \in Seq(Requests), NEW r \in Requests, NEW i \in Indices, NEW g,
         LoopInv(g, i - 1, past, r)
  PROVE  LoopInv(Turn(g, i, r), i, past, r)
<1> DEFINE new == Append(past, r)
           own == GateSequences[i].gate
<1>0. new \in Seq(Requests) /\ Len(new) \in Nat /\ Len(past) \in Nat
  OBVIOUS
<1>1. Typed(g) /\ \A s \in g.sat : Earned(new, s)
  BY DEF LoopInv
<1>2. g.prog \in [Indices -> Nat] /\ g.sat \subseteq Gates
  BY <1>1 DEF Typed
<1>3. \A j \in Indices \ {i} : (j <= i) <=> (j <= i - 1)
  BY SequenceFacts
<1>4. \A j \in Indices \ {i} :
        LET l == IF j <= i THEN new ELSE past
        IN  RunsFrom(l, Len(l) - g.prog[j], j, g.prog[j])
  BY <1>3 DEF LoopInv
<1>5. RunsFrom(past, Len(past) - g.prog[i], i, g.prog[i])
  <2>1. ~ (i <= i - 1)
    BY SequenceFacts
  <2> QED  BY <2>1 DEF LoopInv
<1>6. Alone(g)
  BY DEF LoopInv
<1> HIDE DEF new
<1>7. CASE own \in g.sat
  <2>1. Turn(g, i, r) = g
    BY <1>7 DEF Turn
  <2>2. g.prog[i] = 0
    BY <1>2, <1>6, <1>7 DEF Alone
  <2>3. RunsFrom(new, Len(new) - g.prog[i], i, g.prog[i])
    BY <1>0, <2>2, EmptyRun
  <2>4. ASSUME NEW j \in Indices
        PROVE  LET l == IF j <= i THEN new ELSE past
               IN  RunsFrom(l, Len(l) - g.prog[j], j, g.prog[j])
    BY <1>4, <2>3, SequenceFacts
  <2> QED  BY <1>1, <1>6, <2>1, <2>4, Zenon DEF LoopInv, new
<1>8. CASE own \notin g.sat /\ g.prog[i] > 0 /\ Matches(i, g.prog[i] + 1, r)
  <2>1. Turn(g, i, r) = AdvanceProgress(g, i, g.prog[i] + 1)
    BY <1>8 DEF Turn
  <2>2. g.prog[i] + 1 \in Nat /\ g.prog[i] + 1 <= Len(GateSequences[i].steps)
    BY <1>1, <1>2, SequenceFacts DEF Typed
  <2>3. RunsFrom(new, Len(new) - (g.prog[i] + 1), i, g.prog[i] + 1)
    BY <1>2, <1>5, <1>8, RunGrows, Zenon DEF new
  <2>4. \A j \in Indices \ {i} : GateSequences[j].gate = GateSequences[i].gate => g.prog[j] = 0
    BY <1>2, <1>6, <1>8 DEF Alone
  <2> QED  BY <1>1, <1>4, <1>6, <1>8, <2>1, <2>2, <2>3, <2>4, AdvanceProgressInv, Zenon DEF new
<1>9. CASE own \notin g.sat /\ ~ (g.prog[i] > 0 /\ Matches(i, g.prog[i] + 1, r)) /\ Matches(i, 1, r)
  <2> DEFINE c == ClearGate(g, own)
  <2>1. Turn(g, i, r) = AdvanceProgress(c, i, 1)
    BY <1>9 DEF Turn
  <2>2. /\ c.sat = g.sat \ {own}
        /\ c.prog = [j \in Indices |-> IF GateSequences[j].gate = own THEN 0 ELSE g.prog[j]]
        /\ c \in [sat : SUBSET Gates, prog : [Indices -> Nat]]
    BY <1>2, Zenon DEF ClearGate
  <2> HIDE DEF c
  <2>3. Typed(c)
    BY <1>1, <2>2, SequenceFacts DEF Typed
  <2>4. Alone(c)
    BY <1>2, <1>6, <2>2 DEF Alone
  <2>5. RunsFrom(new, Len(new) - 1, i, 1)
    <3>1. RunsFrom(past, Len(past) - 0, i, 0)
      BY EmptyRun
    <3>2. Matches(i, 0 + 1, r)
      BY <1>9
    <3>3. RunsFrom(new, Len(new) - (0 + 1), i, 0 + 1)
      BY <3>1, <3>2, RunGrows DEF new
    <3> QED  BY <3>3
  <2>6. ASSUME NEW j \in Indices \ {i}
        PROVE  LET l == IF j <= i THEN new ELSE past
               IN  RunsFrom(l, Len(l) - c.prog[j], j, c.prog[j])
    <3>1. CASE GateSequences[j].gate = own
      BY <1>0, <2>2, <3>1, EmptyRun
    <3>2. CASE GateSequences[j].gate # own
      BY <1>4, <2>2, <3>2, Zenon
    <3> QED  BY <3>1, <3>2, Zenon
  <2>7. \A s \in c.sat : Earned(new, s)
    BY <1>1, <2>2, Zenon DEF new
  <2>8. /\ \A j \in Indices \ {i} : GateSequences[j].gate = own => c.prog[j] = 0
        /\ own \notin c.sat
    BY <2>2, Zenon
  <2>9. 1 \in Nat /\ 1 <= Len(GateSequences[i].steps)
    BY SequenceFacts
  <2> QED  BY <2>1, <2>3, <2>4, <2>5, <2>6, <2>7, <2>8, <2>9, AdvanceProgressInv, Zenon DEF new
<1>10. CASE own \notin g.sat /\ ~ (g.prog[i] > 0 /\ Matches(i, g.prog[i] + 1, r)) /\ ~ Matches(i, 1, r)
  <2> DEFINE h == [g EXCEPT !.prog[i] = 0]
  <2>1. Turn(g, i, r) = h
    BY <1>10 DEF Turn
  <2>2. h.sat = g.sat /\ h.prog = [g.prog EXCEPT ![i] = 0] /\ h \in [sat : SUBSET Gates, prog : [Indices -> Nat]]
    BY <1>1, Zenon DEF Typed
  <2> HIDE DEF h
  <2>3. h.prog[i] = 0 /\ \A j \in Indices \ {i} : h.prog[j] = g.prog[j]
    BY <1>2, <2>2, Zenon
  <2>4. Typed(h)
    BY <1>1, <2>2, <2>3, SequenceFacts, Zenon DEF Typed
  <2>5. Alone(h)
    BY <1>2, <1>6, <2>2, <2>3 DEF Alone
  <2>6. ASSUME NEW j \in Indices
        PROVE  LET l == IF j <= i THEN new ELSE past
               IN  RunsFrom(l, Len(l) - h.prog[j], j, h.prog[j])
    <3>1. CASE j = i
      BY <1>0, <2>3, <3>1, EmptyRun, SequenceFacts, Zenon
    <3>2. CASE j # i
      BY <1>4, <2>3, <3>2, Zenon
    <3> QED  BY <3>1, <3>2, Zenon
  <2> QED  BY <1>1, <2>1, <2>2, <2>4, <2>5, <2>6, Zenon DEF LoopInv, new
<1> QED
  BY <1>7, <1>8, <1>9, <1>10, Zenon

\* The satisfied gates and the progress that the history l accounts for.
Accounted(sat, prog, l) ==
  /\ sat \subseteq Gates
  /\ prog \in [Indices -> Nat]
  /\ \A j \in Indices : prog[j] < Len(GateSequences[j].steps)
  /\ \A i, j \in Indices :
       (GateSequences[i].gate = GateSequences[j].gate /\ prog[i] > 0) =>
         /\ prog[j] > 0 => i = j
         /\ GateSequences[i].gate \notin sat
  /\ \A j \in Indices : RunsFrom(l, Len(l) - prog[j], j, prog[j])
  /\ \A s \in sat : Earned(l, s)

\* Nothing satisfied and nothing under way is accounted for by no requests.
LEMMA ResetIsAccounted == Accounted({}, NoProgress, <<>>)
<1>1. <<>> \in Seq(Requests)
  OBVIOUS
<1>2. \A j \in Indices : RunsFrom(<<>>, Len(<<>>) - 0, j, 0)
  BY <1>1, EmptyRun, Zenon
<1> QED
  BY <1>2, SequenceFacts DEF Accounted, NoProgress

\* The loop as a whole keeps the account: every sequence takes its turn.
LEMMA AdvancedIsAccounted ==
  ASSUME NEW l \in Seq(Requests), NEW r \in Requests, NEW sat, NEW prog,
         Accounted(sat, prog, l)
  PROVE  Accounted(Advanced(sat, prog, r).sat, Advanced(sat, prog, r).prog, Append(l, r))
<1> DEFINE N == Len(GateSequences)
           new == Append(l, r)
<1>0. PICK f : IsLoop(f, sat, prog, r)
  BY LoopRuns, Zenon
<1>1. /\ f[0] = [sat |-> sat, prog |-> prog]
      /\ \A i \in Indices : f[i] = Turn(f[i - 1], i, r)
      /\ Advanced(sat, prog, r) = f[N]
  BY <1>0, Zenon DEF IsLoop
<1>2. LoopInv(f[0], 0, l, r)
  <2>1. f[0].sat = sat /\ f[0].prog = prog
    BY <1>1
  <2>2. Typed(f[0])
    BY <1>1 DEF Typed, Accounted
  <2>3. Alone(f[0])
    BY <2>1, Zenon DEF Alone, Accounted
  <2>4. ASSUME NEW s \in f[0].sat PROVE Earned(new, s)
    <3>1. PICK i \in Indices : /\ GateSequences[i].gate = s
                               /\ \E n \in 0..Len(l) : RunsFrom(l, n, i, Len(GateSequences[i].steps))
      BY <2>1, Zenon DEF Accounted, Earned
    <3>2. PICK n \in 0..Len(l) : RunsFrom(l, n, i, Len(GateSequences[i].steps))
      BY <3>1, Zenon
    <3>3. RunsFrom(new, n, i, Len(GateSequences[i].steps))
      BY <3>2, RunIsKept, SequenceFacts
    <3>4. n \in 0..Len(new)
      OBVIOUS
    <3> QED  BY <3>1, <3>3, <3>4, Zenon DEF Earned
  <2>5. \A j \in Indices : ~ (j <= 0)
    BY SequenceFacts
  <2>6. \A j \in Indices : RunsFrom(l, Len(l) - f[0].prog[j], j, f[0].prog[j])
    BY <2>1, Zenon DEF Accounted
  <2> QED  BY <2>2, <2>3, <2>4, <2>5, <2>6, Zenon DEF LoopInv
<1> DEFINE T == {i \in 0..N : ~ LoopInv(f[i], i, l, r)}
<1>3. T = {}
  <2>1. SUFFICES ASSUME T # {} PROVE FALSE
    OBVIOUS
  <2>2. T \in SUBSET Nat
    BY SequenceFacts
  <2>3. PICK i \in T : \A k \in T : i <= k
    <3> HIDE DEF T
    <3> QED  BY <2>1, <2>2, LeastNat
  <2>4. i # 0 /\ i \in 0..N /\ i \in Indices /\ i - 1 \in 0..N
    BY <1>2, <2>3, SequenceFacts DEF Indices
  <2>5. LoopInv(f[i - 1], i - 1, l, r)
    <3>1. i - 1 \notin T
      <4> HIDE DEF T
      <4> QED  BY <2>3, <2>4, SequenceFacts
    <3> QED  BY <2>4, <3>1
  <2>6. LoopInv(Turn(f[i - 1], i, r), i, l, r)
    BY <2>4, <2>5, TurnInv
  <2>7. LoopInv(f[i], i, l, r)
    BY <1>1, <2>4, <2>6, Zenon
  <2> QED  BY <2>3, <2>7
<1>4. LoopInv(f[N], N, l, r)
  BY <1>3, SequenceFacts
<1>5. \A j \in Indices : j <= N
  BY SequenceFacts DEF Indices
<1>6. \A j \in Indices : RunsFrom(new, Len(new) - f[N].prog[j], j, f[N].prog[j])
  BY <1>4, <1>5, Zenon DEF LoopInv
<1>7. f[N].sat \subseteq Gates /\ f[N].prog \in [Indices -> Nat]
      /\ \A j \in Indices : f[N].prog[j] < Len(GateSequences[j].steps)
  BY <1>4, Zenon DEF LoopInv, Typed
<1>8. Alone(f[N]) /\ \A s \in f[N].sat : Earned(new, s)
  BY <1>4, Zenon DEF LoopInv
<1> QED
  BY <1>1, <1>6, <1>7, <1>8, Zenon DEF Accounted, Alone

-----------------------------------------------------------------------------
\* The inductive invariant of the gates.
IInv == TypeOK /\ Accounted(satisfied, progress, log) /\ PhaseAgreesWithMode

\* A successful request keeps the account of the gates it found.
LEMMA SucceedIsAccounted ==
  ASSUME NEW past \in Seq(Requests), NEW r \in Requests, NEW sat, NEW prog,
         Accounted(sat, prog, past), Succeed(r, sat, prog, past)
  PROVE  Accounted(satisfied, progress, log)' /\ log' \in Seq(Requests)
  BY AdvancedIsAccounted DEF Succeed

\* Every action leaves the gates accounted for.
LEMMA GatesStep ==
  ASSUME IInv, Next
  PROVE  Accounted(satisfied, progress, log)' /\ log' \in Seq(Requests)
<1>1. Accounted(satisfied, progress, log) /\ log \in Seq(Requests) /\ <<>> \in Seq(Requests)
  BY DEF IInv, TypeOK
<1>2. ASSUME NEW r \in Requests, OpenSession(r) \/ CloseSession(r)
      PROVE  Accounted(satisfied, progress, log)' /\ log' \in Seq(Requests)
  BY <1>1, <1>2, ResetIsAccounted, SucceedIsAccounted, Zenon DEF OpenSession, CloseSession
<1>3. ASSUME NEW r \in Requests, InitiateOpenCapture(r) \/ OtherRequest(r)
      PROVE  Accounted(satisfied, progress, log)' /\ log' \in Seq(Requests)
  BY <1>1, <1>3, SucceedIsAccounted, Zenon DEF InitiateOpenCapture, OtherRequest
<1>4. ASSUME NEW r \in Requests, SetProp(r)
      PROVE  Accounted(satisfied, progress, log)' /\ log' \in Seq(Requests)
  <2>1. CASE mode \in Latched
    BY <1>1, <1>4, <2>1, SucceedIsAccounted, Zenon DEF SetProp
  <2>2. CASE mode \notin Latched /\ LeavesImport(mode')
    <3>1. Succeed(r, {}, NoProgress, <<>>)
      BY <1>4, <2>2, Zenon DEF SetProp, GatesSurvive
    <3> QED  BY <1>1, <3>1, ResetIsAccounted, SucceedIsAccounted, Zenon
  <2>3. CASE mode \notin Latched /\ ~ LeavesImport(mode')
    <3>1. Succeed(r, satisfied, progress, log)
      BY <1>4, <2>3, Zenon DEF SetProp, GatesSurvive
    <3> QED  BY <1>1, <3>1, SucceedIsAccounted
  <2> QED  BY <2>1, <2>2, <2>3
<1>5. ASSUME ClearSession
      PROVE  Accounted(satisfied, progress, log)' /\ log' \in Seq(Requests)
  BY <1>1, <1>5, ResetIsAccounted DEF ClearSession
<1>6. ASSUME NEW p, NEW o, NEW v, ApplyOverlay(p, o, v)
      PROVE  Accounted(satisfied, progress, log)' /\ log' \in Seq(Requests)
  <2>1. \/ satisfied' = {} /\ progress' = NoProgress /\ log' = <<>>
        \/ satisfied' = satisfied /\ progress' = progress /\ log' = log
    BY <1>6 DEF ApplyOverlay, gates
  <2> QED  BY <1>1, <2>1, ResetIsAccounted, Zenon
<1> QED
  BY <1>2, <1>3, <1>4, <1>5, <1>6, Zenon DEF Next

\* Every action leaves the phase in agreement with the mode.
LEMMA PhaseStep ==
  ASSUME IInv, Next
  PROVE  /\ open' \in BOOLEAN /\ phase' \in Phases /\ mode' \in Modes \cup {None} /\ value' \in Values
         /\ PhaseAgreesWithMode'
<1> DEFINE Goal == /\ open' \in BOOLEAN /\ phase' \in Phases /\ mode' \in Modes \cup {None} /\ value' \in Values
                   /\ PhaseAgreesWithMode'
<1>1. /\ open \in BOOLEAN /\ phase \in Phases /\ mode \in Modes \cup {None} /\ value \in Values
      /\ PhaseAgreesWithMode
  BY DEF IInv, TypeOK
<1>2. ASSUME NEW r \in Requests, OpenSession(r) \/ CloseSession(r) PROVE Goal
  BY <1>1, <1>2, ModeAssumption, Zenon DEF OpenSession, CloseSession, PhaseAgreesWithMode, Phases
<1>3. ASSUME NEW r \in Requests, InitiateOpenCapture(r) PROVE Goal
  BY <1>1, <1>3, ModeAssumption, Zenon
     DEF InitiateOpenCapture, PhaseAgreesWithMode, Phases, WorkflowPhases
<1>4. ASSUME NEW r \in Requests, OtherRequest(r) PROVE Goal
  BY <1>1, <1>4, ModeAssumption, Zenon DEF OtherRequest, PhaseAgreesWithMode
<1>5. ASSUME NEW r \in Requests, SetProp(r) PROVE Goal
  <2>1. CASE mode \in Latched
    BY <1>1, <1>5, <2>1, Zenon DEF SetProp, PhaseAgreesWithMode
  <2>2. CASE mode \notin Latched
    <3>1. /\ value' = IF r.arg \in Values THEN r.arg ELSE value
          /\ mode' = Detect[value'] /\ phase' = PhaseAfter(mode') /\ open' = open
      BY <1>5, <2>2, Zenon DEF SetProp
    <3>2. value' \in Values
      BY <1>1, <3>1, Zenon
    <3>3. mode' \in Modes \cup {None}
      BY <3>1, <3>2, ModeAssumption, Zenon
    <3>4. Declared[mode'] \in WorkflowPhases \cup {None} /\ Declared[mode] \in WorkflowPhases \cup {None}
      BY <1>1, <3>3, ModeAssumption, Zenon
    <3>5. phase' \in Phases
      BY <1>1, <3>1, <3>4, Zenon DEF PhaseAfter, Phases, WorkflowPhases
    <3>6. PhaseAgreesWithMode'
      BY <1>1, <3>1, <3>3, <3>4, ModeAssumption, Zenon DEF PhaseAfter, PhaseAgreesWithMode, WorkflowPhases
    <3> QED  BY <1>1, <3>1, <3>2, <3>3, <3>5, <3>6, Zenon
  <2> QED  BY <2>1, <2>2
<1>6. ASSUME ClearSession PROVE Goal
  BY <1>1, <1>6, ModeAssumption, Zenon DEF ClearSession, PhaseAgreesWithMode, Phases
<1>7. ASSUME NEW p \in Phases \cup {None}, NEW o \in BOOLEAN, NEW v \in Values, ApplyOverlay(p, o, v) PROVE Goal
  BY <1>1, <1>7, ModeAssumption, Zenon DEF ApplyOverlay, PhaseAgreesWithMode
<1> QED
  BY <1>2, <1>3, <1>4, <1>5, <1>6, <1>7, Zenon DEF Next

\* Before the first request nothing is satisfied and nothing needs to be earned.
LEMMA InitInv == Init => IInv
<1> SUFFICES ASSUME Init PROVE IInv
  OBVIOUS
<1>1. Accounted(satisfied, progress, log)
  BY ResetIsAccounted DEF Init
<1>2. PhaseAgreesWithMode
  BY ModeAssumption, Zenon DEF Init, PhaseAgreesWithMode
<1>0. <<>> \in Seq(Requests)
  OBVIOUS
<1>3. open \in BOOLEAN /\ phase \in Phases /\ mode \in Modes \cup {None} /\ value \in Values /\ log \in Seq(Requests)
  BY <1>0, Zenon DEF Init, Phases
<1>4. TypeOK
  BY <1>1, <1>3, Zenon DEF TypeOK, Accounted
<1> QED
  BY <1>1, <1>2, <1>4 DEF IInv

\* The invariant is inductive.
LEMMA StepInv == IInv /\ [Next]_vars => IInv'
<1> SUFFICES ASSUME IInv, [Next]_vars PROVE IInv'
  OBVIOUS
<1>1. CASE Next
  <2>1. Accounted(satisfied, progress, log)' /\ log' \in Seq(Requests)
    BY <1>1, GatesStep
  <2>2. /\ open' \in BOOLEAN /\ phase' \in Phases /\ mode' \in Modes \cup {None} /\ value' \in Values
        /\ PhaseAgreesWithMode'
    BY <1>1, PhaseStep
  <2>3. TypeOK'
    BY <2>1, <2>2, Zenon DEF TypeOK, Accounted
  <2> QED  BY <2>1, <2>2, <2>3, Zenon DEF IInv
<1>2. CASE UNCHANGED vars
  <2>1. /\ open' = open /\ phase' = phase /\ mode' = mode /\ value' = value
        /\ satisfied' = satisfied /\ progress' = progress /\ log' = log
    BY <1>2 DEF vars
  <2>2. TypeOK'
    BY <2>1, Zenon DEF IInv, TypeOK
  <2>3. Accounted(satisfied, progress, log)'
    BY <2>1 DEF IInv
  <2>4. PhaseAgreesWithMode'
    BY <2>1, Zenon DEF IInv, PhaseAgreesWithMode
  <2> QED  BY <2>2, <2>3, <2>4 DEF IInv
<1> QED
  BY <1>1, <1>2

\* The account of the gates holds in every state, for every manifest.
THEOREM Invariance == Spec => []IInv
  BY InitInv, StepInv, PTL DEF Spec

\* The state has its types in every state.
THEOREM TypeCorrect == Spec => []TypeOK
<1>1. IInv => TypeOK
  BY DEF IInv
<1> QED
  BY <1>1, Invariance, PTL

\* No gate is ever satisfied without an unbroken run of one of its sequences since
\* the last reset: for every set of sequences, whatever they share or repeat.
THEOREM GatesAreEarned == Spec => []GateIsEarned
<1>1. IInv => GateIsEarned
  BY Zenon DEF IInv, Accounted, Earned, GateIsEarned
<1> QED
  BY <1>1, Invariance, PTL

\* No sequence is credited with a step that is not among the latest requests.
THEOREM ProgressHasHistory == Spec => []ProgressIsEarned
<1>1. IInv => ProgressIsEarned
  BY Zenon DEF IInv, Accounted, ProgressIsEarned
<1> QED
  BY <1>1, Invariance, PTL

\* The alternatives of a gate are never under way together.
THEOREM AlternativesExclude == Spec => []OneRunPerGate
<1>1. IInv => OneRunPerGate
  BY Zenon DEF IInv, Accounted, OneRunPerGate
<1> QED
  BY <1>1, Invariance, PTL

\* The phase and the detected mode never disagree.
THEOREM PhaseFollowsMode == Spec => []PhaseAgreesWithMode
<1>1. IInv => PhaseAgreesWithMode
  BY DEF IInv
<1> QED
  BY <1>1, Invariance, PTL

-----------------------------------------------------------------------------
\* Proof that the listener is exact, for any number of clients and rearms.

\* Who holds which socket: the acceptor holds one exactly while it waits for a client or
\* drops the wait; the listening socket is the only one it can hold while the port listens;
\* and a port that no longer listens is waited on only while the setter awaits the release.
SocketsAreHeld ==
  /\ held = NoGen <=> acceptor \notin {"pending", "dropping"}
  /\ lstate = "Bound" => held = NoGen
  /\ lstate = "Listening" /\ held # NoGen => held = gen
  /\ lstate = "Listening" => (pending <=> acceptor = "pending")
  /\ lstate # "Listening" /\ acceptor = "pending" => setter = "await"
  /\ setter \in {"await", "rebind"} => lstate = "Rebinding"
  /\ released => setter = "await" /\ acceptor # "pending"

\* The one connection that waits for its handler is of the present listening period.
AcceptedIsRecent ==
  /\ \A c \in Clients : client[c] = "accepted" => acceptor = "handler" /\ cgen[c] >= reported
  /\ \A c, d \in Clients : client[c] = "accepted" /\ client[d] = "accepted" => c = d

\* The inductive invariant of the listener.
AuxInv == ListenerIsExact /\ SocketsAreHeld /\ AcceptedIsRecent

\* The flags are Booleans whatever a step does.
LEMMA FlagsAreBoolean ==
  ASSUME AuxTypeOK, AuxNext
  PROVE  {gate, want, pending, released, ready}' \subseteq BOOLEAN
<1>1. {gate, want, pending, released, ready} \subseteq BOOLEAN
  BY Zenon DEF AuxTypeOK
<1>2. CASE Setter
  BY <1>1, <1>2, Zenon
     DEF Setter, Dispatch, Activate, Deactivate, AcceptReleased, Rebind, BeginListening,
     listenerVars, setterVars
<1>3. CASE Acceptor
  BY <1>1, <1>3, Zenon
     DEF Acceptor, Top, Check, Wake, Cancelled, Accepted, Rearmed, DropListener, Handle,
     Reap, DropGuard, listenerVars, setterVars
<1>4. CASE TeardownGate \/ \E c \in Clients : Connect(c) \/ Leave(c)
  BY <1>1, <1>4, Zenon DEF TeardownGate, Connect, Leave, listenerVars, setterVars
<1> QED BY <1>2, <1>3, <1>4, Zenon DEF AuxNext

\* The setter's steps, and what happens behind its back.
LEMMA SetterInvariant ==
  ASSUME AuxAssumption, AuxInv, {gate, want, pending, released, ready}' \subseteq BOOLEAN,
         Setter \/ TeardownGate
  PROVE  AuxInv'
<1> USE DEF AuxAssumption, AuxInv, ListenerIsExact, AcceptHandover, AcceptSlotIsFree, RebindAfterAccept,
        EpochsAgree, ReportFollowsEpoch, ReportedRearmClosesConns, ListensAsRead, SocketsAreHeld,
        AcceptedIsRecent, listenerVars, socketVars, setterVars
<1>1. CASE Dispatch \/ TeardownGate \/ AcceptReleased
  BY <1>1, SMTT(30) DEF Dispatch, TeardownGate, AcceptReleased, AuxTypeOK, Live
<1>2. CASE Activate
  <2>1. /\ setter = "apply" /\ want /\ setter' = "idle"
        /\ UNCHANGED <<gate, want, released, reported, acceptor, held, client, cgen, epoch>>
    BY <1>2, Zenon DEF Activate
  <2>2. \/ UNCHANGED <<lstate, gen, pending, ready>>
        \/ /\ lstate # "Listening" /\ held = NoGen
           /\ lstate' = "Listening" /\ gen' = epoch /\ pending' = FALSE
        \/ /\ lstate # "Listening" /\ lstate' \in {"Bound", "Rebinding"}
           /\ lstate' = "Bound" => held = NoGen
           /\ UNCHANGED <<gen, pending, ready>>
    BY <1>2, Zenon DEF Activate, BeginListening, BindOutcomes, AuxTypeOK
  <2>3. AuxTypeOK'
    BY <2>1, <2>2, Zenon DEF AuxTypeOK
  <2> QED BY <2>1, <2>2, <2>3, SMTT(30) DEF AuxTypeOK, Live
<1>3. CASE Deactivate
  <2>1. CASE lstate = "Listening"
    <3>1. /\ lstate' = "Rebinding" /\ epoch' = epoch + 1 /\ epoch < MaxEpoch
          /\ setter' = (IF pending THEN "await" ELSE "rebind")
          /\ UNCHANGED <<gate, want, gen, pending, ready, released, reported, acceptor, held, cgen>>
      BY <1>3, <2>1, Zenon DEF Deactivate
    <3>2. /\ client' \in [Clients -> {"away", "backlog", "accepted", "live", "ended", "closed"}]
          /\ \A c \in Clients : client'[c] \in {"live", "accepted"} => client'[c] = client[c]
      BY <1>3, <2>1, Zenon DEF Deactivate, Reset, Backlog, AuxTypeOK
    <3>3. AuxTypeOK'
      BY <3>1, <3>2, SMTT(30) DEF AuxTypeOK
    <3> QED BY <2>1, <3>1, <3>2, <3>3 DEF AuxTypeOK, Live
  <2>2. CASE lstate # "Listening"
    BY <1>3, <2>2, Zenon DEF Deactivate, AuxTypeOK, Live
  <2> QED BY <2>1, <2>2, Zenon
<1>4. CASE Rebind
  BY <1>4, ZenonT(30) DEF Rebind, BindOutcomes, AuxTypeOK, Live
<1> QED BY <1>1, <1>2, <1>3, <1>4, ZenonT(30) DEF Setter

\* The steps of the accept loop.
LEMMA AcceptorInvariant ==
  ASSUME AuxAssumption, AuxInv, {gate, want, pending, released, ready}' \subseteq BOOLEAN,
         Acceptor
  PROVE  AuxInv'
<1> USE DEF AuxAssumption, AuxInv, ListenerIsExact, AcceptHandover, AcceptSlotIsFree, RebindAfterAccept,
        EpochsAgree, ReportFollowsEpoch, ReportedRearmClosesConns, ListensAsRead, SocketsAreHeld,
        AcceptedIsRecent, listenerVars, socketVars, setterVars
<1>1. CASE Top \/ Check \/ Wake
  BY <1>1, SMTT(30) DEF Top, Check, Wake, Max, AuxTypeOK, Live
<1>2. CASE Cancelled
  BY <1>2, SMTT(30) DEF Cancelled, DropGuard, Unlisten, Reset, Backlog, Max, AuxTypeOK, Live
<1>3. CASE Accepted
  <2>1. /\ acceptor = "pending" /\ held' = NoGen /\ acceptor' \in {"handler", "top"}
        /\ pending' = (pending /\ ~ (lstate = "Listening" /\ held = gen))
        /\ released' = (setter = "await")
        /\ UNCHANGED <<gate, setter, want, lstate, gen, ready, epoch, reported, cgen>>
    BY <1>3, Zenon DEF Accepted, DropGuard
  <2>2. /\ client' \in [Clients -> {"away", "backlog", "accepted", "live", "ended", "closed"}]
        /\ \A c \in Clients : client'[c] = "live" => client[c] = "live"
        /\ \A c \in Clients : client'[c] = "accepted" =>
             \/ client[c] = "accepted"
             \/ cgen[c] = held /\ acceptor' = "handler"
        /\ \A c, d \in Clients : client'[c] = "accepted" /\ client'[d] = "accepted" => c = d
    <3>1. /\ Unlisten \in [Clients -> {"away", "backlog", "accepted", "live", "ended", "closed"}]
          /\ \A c \in Clients : Unlisten[c] \in {"live", "accepted"} => Unlisten[c] = client[c]
      BY Zenon DEF Unlisten, Reset, Backlog, AuxTypeOK
    <3>0. \A c \in Clients : client[c] # "accepted"
      BY <2>1, Zenon
    <3>2. CASE client' = Unlisten
      BY <3>0, <3>1, <3>2, Zenon
    <3>3. ASSUME NEW c \in Backlog(held), client' = [Unlisten EXCEPT ![c] = "accepted"], acceptor' = "handler"
          PROVE  <2>2!1 /\ <2>2!2 /\ <2>2!3 /\ <2>2!4
      BY <3>0, <3>1, <3>3, Zenon DEF Backlog
    <3> QED BY <1>3, <3>2, <3>3, Zenon DEF Accepted
  <2>3. AuxTypeOK'
    BY <2>1, <2>2, Zenon DEF AuxTypeOK
  <2> QED BY <2>1, <2>2, <2>3, Zenon DEF AuxTypeOK, Live
<1>4. CASE Rearmed
  BY <1>4, Zenon DEF Rearmed, AuxTypeOK, Live
<1>7. CASE DropListener
  <2>1. /\ client' \in [Clients -> {"away", "backlog", "accepted", "live", "ended", "closed"}]
        /\ \A c \in Clients : client'[c] \in {"live", "accepted"} => client'[c] = client[c]
    BY <1>7, Zenon DEF DropListener, Unlisten, Reset, Backlog, AuxTypeOK
  <2>2. AuxTypeOK'
    BY <1>7, <2>1, Zenon DEF DropListener, AuxTypeOK
  <2> QED BY <1>7, <2>1, <2>2, Zenon DEF DropListener, AuxTypeOK, Live
<1>5. ASSUME NEW c \in Clients, Handle(c) PROVE AuxInv'
  <2>1. /\ acceptor = "handler" /\ client[c] = "accepted" /\ acceptor' = "top"
        /\ UNCHANGED <<gate, setter, want, lstate, gen, pending, ready, epoch, released, reported, held, cgen>>
    BY <1>5, Zenon DEF Handle
  <2>2. \E v \in {"live", "closed"} : client' = [client EXCEPT ![c] = v]
    BY <1>5, Zenon DEF Handle
  <2>3. AuxTypeOK'
    BY <2>1, <2>2, Zenon DEF AuxTypeOK
  <2>4. AcceptedIsRecent'
    BY <2>1, <2>2, Zenon DEF AuxTypeOK
  <2> QED BY <2>1, <2>2, <2>3, <2>4, Zenon DEF AuxTypeOK, Live
<1>6. ASSUME NEW c \in Clients, Reap(c) PROVE AuxInv'
  BY <1>6, SMTT(30) DEF Reap, DropGuard, AuxTypeOK, Live
<1> QED BY <1>1, <1>2, <1>3, <1>4, <1>5, <1>6, <1>7, Zenon DEF Acceptor

\* Clients come and go.
LEMMA AuxClientInvariant ==
  ASSUME AuxAssumption, AuxInv, NEW c \in Clients, Connect(c) \/ Leave(c)
  PROVE  AuxInv'
<1> USE DEF AuxAssumption, AuxInv, ListenerIsExact, AcceptHandover, AcceptSlotIsFree, RebindAfterAccept,
        EpochsAgree, ReportFollowsEpoch, ReportedRearmClosesConns, ListensAsRead, SocketsAreHeld,
        AcceptedIsRecent, listenerVars, socketVars, setterVars
<1>1. CASE Connect(c)
  BY <1>1, ZenonT(30) DEF Connect, AuxTypeOK, Live
<1>2. CASE Leave(c)
  BY <1>2 DEF Leave, AuxTypeOK, Live
<1> QED BY <1>1, <1>2, Zenon

\* Whatever the number of clients and rearms: the acceptor and the setter hand the port
\* over, the rearm counters agree with each other and with the connections, and the port
\* listens as the last synchronisation said.
THEOREM ListenerHolds == AuxSpec => []ListenerIsExact
<1> USE AuxAssumption
<1>1. AuxInit => AuxInv
  <2> SUFFICES ASSUME AuxInit PROVE AuxInv
    OBVIOUS
  <2>1. {gate, want, pending, released, ready} \subseteq BOOLEAN
    BY Zenon DEF AuxInit
  <2>2. AuxTypeOK
    BY <2>1 DEF AuxInit, AuxTypeOK, AuxAssumption
  <2> QED BY <2>2 DEF AuxInit, AuxInv, ListenerIsExact, AcceptHandover, AcceptSlotIsFree,
             RebindAfterAccept,
        EpochsAgree, ReportFollowsEpoch, ReportedRearmClosesConns, ListensAsRead, SocketsAreHeld,
        AcceptedIsRecent, Live, AuxAssumption
<1>2. AuxInv /\ [AuxNext]_auxVars => AuxInv'
  <2> SUFFICES ASSUME AuxInv, [AuxNext]_auxVars PROVE AuxInv'
    BY Zenon
  <2>1. CASE UNCHANGED auxVars
    BY <2>1, SMTT(30)
       DEF auxVars, listenerVars, socketVars, setterVars, AuxInv, ListenerIsExact, AcceptHandover,
        AcceptSlotIsFree, RebindAfterAccept, EpochsAgree, ReportFollowsEpoch, ReportedRearmClosesConns,
        ListensAsRead, SocketsAreHeld, AcceptedIsRecent, AuxTypeOK, Live
  <2>2. CASE AuxNext
    <3>1. {gate, want, pending, released, ready}' \subseteq BOOLEAN
      BY <2>2, FlagsAreBoolean, Zenon DEF AuxInv, ListenerIsExact
    <3> QED BY <2>2, <3>1, SetterInvariant, AcceptorInvariant, AuxClientInvariant, Zenon DEF AuxNext
  <2> QED BY <2>1, <2>2
<1>3. AuxInv => ListenerIsExact
  BY DEF AuxInv
<1> QED BY <1>1, <1>2, <1>3, PTL DEF AuxSpec
=============================================================================
