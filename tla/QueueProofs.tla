---------------------------- MODULE QueueProofs -----------------------------
(***************************************************************************)
(* Proofs about CameraQueue, its refinement of Delivery, and CaptureQueue, *)
(* for any number of objects, connections and captures.  Merge, which      *)
(* sorts the delivered ranges and joins the ones that touch, is shown to   *)
(* keep exactly their bytes and to leave them canonical; so an object is   *)
(* covered exactly if all of its bytes were sent, and every step of the    *)
(* queue is a step of Delivery or changes nothing that Delivery speaks of  *)
(* (TransferStep).  CapturesAreExact needs that the progress of the ritual *)
(* is the longest one that the accepted requests end with (Longest).       *)
(***************************************************************************)
EXTENDS CameraQueue, CaptureQueue, FiniteSetTheorems, WellFoundedInduction, NaturalsInduction, TLAPS

\* Every non-empty set of naturals has a least element.
LEMMA LeastElement ==
  ASSUME NEW T \in SUBSET Nat, T # {}
  PROVE  \E m \in T : \A k \in T : m <= k
<1> DEFINE R == {ss \in Nat \X Nat : ss[1] < ss[2]}
<1>1. IsWellFoundedOn(OpToRel(<, Nat), Nat)
  BY NatLessThanWellFounded
<1>2. OpToRel(<, Nat) = R
  BY DEF OpToRel
<1>3. IsWellFoundedOn(R, Nat)
  BY <1>1, <1>2
<1> HIDE DEF R
<1>4. PICK x \in T : \A y \in T : ~ (<<y, x>> \in R)
  BY <1>3, WFMin, Zenon
<1>5. ASSUME NEW k \in T
      PROVE  x <= k
  <2>1. x \in Nat /\ k \in Nat /\ <<k, x>> \notin R
    BY <1>4
  <2>2. ~ (k < x)
    BY <2>1 DEF R
  <2>. QED  BY <2>1, <2>2
<1>. QED  BY <1>5

\* A set of naturals with 0 and with the successor of each of its members is Nat.
LEMMA Induction ==
  ASSUME NEW P \in SUBSET Nat, 0 \in P, \A n \in P : n + 1 \in P
  PROVE  P = Nat
<1> SUFFICES ASSUME Nat \ P # {}
             PROVE  FALSE
  BY Zenon
<1>1. PICK m \in Nat \ P : \A k \in Nat \ P : m <= k
  BY LeastElement, Zenon
<1>2. m - 1 \in Nat /\ m - 1 < m
  BY <1>1
<1>3. m - 1 \in P
  BY <1>1, <1>2
<1>. QED  BY <1>1, <1>2, <1>3

-----------------------------------------------------------------------------
\* A range [start, end), and the ranges that have a byte.
Ranges == Nat \X Nat

\* The byte b is in the range r.
Within(b, r) == r[1] <= b /\ b < r[2]

\* The byte b is in one of the ranges s.
Holds(s, b) == \E k \in 1..Len(s) : Within(b, s[k])

\* Ranges that have bytes, in order, and do not touch.
Canonical(s) ==
  /\ s \in Seq(Ranges)
  /\ \A i \in 1..Len(s) : s[i][1] < s[i][2]
  /\ \A i, j \in 1..Len(s) : i < j => s[i][2] < s[j][1]

\* Before is a total order of the ranges.
LEMMA BeforeIsTotal ==
  \A r, s, t \in Ranges :
     /\ Before(r, s) \/ Before(s, r)
     /\ Before(r, s) /\ Before(s, t) => Before(r, t)
BY DEF Before, Ranges

\* Sequences of ranges with one more range.
LEMMA RangesAppended ==
  \A s \in Seq(Ranges) : \A r \in Ranges :
     /\ Append(s, r) \in Seq(Ranges) /\ Len(Append(s, r)) = Len(s) + 1
     /\ \A i \in 1..Len(s) : Append(s, r)[i] = s[i]
     /\ Append(s, r)[Len(s) + 1] = r
OBVIOUS

\* Sequences of ranges with one of them replaced.
LEMMA RangesReplaced ==
  \A s \in Seq(Ranges) : \A k \in 1..Len(s) : \A r \in Ranges :
     /\ [s EXCEPT ![k] = r] \in Seq(Ranges) /\ Len([s EXCEPT ![k] = r]) = Len(s)
     /\ \A i \in 1..Len(s) : i # k => [s EXCEPT ![k] = r][i] = s[i]
     /\ [s EXCEPT ![k] = r][k] = r
OBVIOUS

\* One turn of the merge loop keeps the ranges canonical, and adds just the bytes of
\* the range, if the range does not start before the last one.
LEMMA ExtendAdds ==
  ASSUME NEW m, Canonical(m), NEW r \in Ranges, r[1] < r[2],
         Len(m) > 0 => m[Len(m)][1] <= r[1]
  PROVE  /\ Canonical(Extend(m, r))
         /\ Len(Extend(m, r)) > 0
         /\ Extend(m, r)[Len(Extend(m, r))][1] <= r[1]
         /\ \A b \in Nat : Holds(Extend(m, r), b) <=> (Holds(m, b) \/ Within(b, r))
<1> DEFINE k == Len(m)
           e == Extend(m, r)
<1>1. m \in Seq(Ranges) /\ k \in Nat
  BY DEF Canonical
<1>2. PICK x \in Nat, y \in Nat : r = <<x, y>>
  BY DEF Ranges
<1>3. x < y /\ r[1] = x /\ r[2] = y
  BY <1>2
<1>4. CASE k > 0 /\ x <= m[k][2]
  <2>1. k \in 1..k /\ m[k] \in Ranges
    BY <1>1, <1>4
  <2>2. PICK a \in Nat, c \in Nat : m[k] = <<a, c>>
    BY <2>1 DEF Ranges
  <2>3. a < c /\ a <= x /\ x <= c
    BY <1>3, <1>4, <2>1, <2>2 DEF Canonical
  <2>4. PICK d \in Nat : d = Larger(c, y) /\ d >= c /\ d >= y /\ (d = c \/ d = y)
    BY <1>2, <2>2 DEF Larger
  <2>5. e = [m EXCEPT ![k] = <<a, d>>]
    BY <1>3, <1>4, <2>2, <2>4 DEF Extend
  <2>6. <<a, d>> \in Ranges
    BY DEF Ranges
  <2> HIDE DEF e
  <2>7. /\ e \in Seq(Ranges) /\ Len(e) = k
        /\ \A i \in 1..k : i # k => e[i] = m[i]
        /\ e[k] = <<a, d>>
    BY <1>1, <2>1, <2>5, <2>6, RangesReplaced
  <2>8. Canonical(e)
    <3>1. \A i \in 1..Len(e) : e[i][1] < e[i][2]
      BY <2>3, <2>4, <2>7 DEF Canonical
    <3>2. ASSUME NEW i \in 1..Len(e), NEW j \in 1..Len(e), i < j
          PROVE  e[i][2] < e[j][1]
      <4>1. e[i] = m[i] /\ m[i][2] < m[j][1] /\ i # k
        BY <1>1, <2>7, <3>2 DEF Canonical
      <4>2. e[j][1] = m[j][1]
        BY <2>2, <2>7
      <4>. QED  BY <4>1, <4>2
    <3>. QED  BY <2>7, <3>1, <3>2 DEF Canonical
  <2>9. e[Len(e)][1] <= x /\ Len(e) > 0
    BY <1>4, <2>3, <2>7
  <2>10. ASSUME NEW b \in Nat
         PROVE  Holds(e, b) <=> (Holds(m, b) \/ Within(b, r))
    <3>1. Within(b, e[k]) <=> (Within(b, m[k]) \/ Within(b, r))
      BY <1>3, <2>2, <2>3, <2>4, <2>7 DEF Within
    <3>2. \A i \in 1..k : i # k => (Within(b, e[i]) <=> Within(b, m[i]))
      BY <2>7
    <3>. QED  BY <2>1, <2>7, <3>1, <3>2, Zenon DEF Holds
  <2>. QED  BY <1>3, <2>8, <2>9, <2>10 DEF e
<1>5. CASE ~ (k > 0 /\ x <= m[k][2])
  <2>1. e = Append(m, r)
    BY <1>3, <1>5 DEF Extend
  <2> HIDE DEF e
  <2>2. /\ e \in Seq(Ranges) /\ Len(e) = k + 1
        /\ \A i \in 1..k : e[i] = m[i]
        /\ e[k + 1] = r
    BY <1>1, <2>1, RangesAppended
  <2>3. Canonical(e)
    <3>1. \A i \in 1..Len(e) : e[i][1] < e[i][2]
      BY <1>1, <1>3, <2>2 DEF Canonical
    <3>2. ASSUME NEW i \in 1..Len(e), NEW j \in 1..Len(e), i < j
          PROVE  e[i][2] < e[j][1]
      <4>1. CASE j <= k
        BY <1>1, <2>2, <3>2, <4>1 DEF Canonical
      <4>2. CASE j = k + 1
        <5>1. i \in 1..k /\ e[i] = m[i] /\ k \in 1..k /\ k > 0
          BY <1>1, <2>2, <3>2, <4>2
        <5>2. m[k] \in Ranges /\ m[i] \in Ranges
          BY <1>1, <5>1
        <5>3. m[k][2] \in Nat /\ m[k][1] \in Nat /\ m[i][2] \in Nat
          BY <5>2, Zenon DEF Ranges
        <5>4. m[k][2] < x
          BY <1>5, <5>1, <5>3
        <5>5. m[i][2] <= m[k][2]
          <6>1. CASE i = k
            BY <5>3, <6>1
          <6>2. CASE i < k
            <7>1. m[i][2] < m[k][1] /\ m[k][1] < m[k][2]
              BY <5>1, <6>2 DEF Canonical
            <7>. QED  BY <5>3, <7>1
          <6>. QED  BY <1>1, <5>1, <6>1, <6>2
        <5>6. e[j][1] = x /\ e[i][2] = m[i][2]
          BY <1>3, <2>2, <4>2, <5>1
        <5>. QED  BY <5>3, <5>4, <5>5, <5>6
      <4>. QED  BY <1>1, <2>2, <4>1, <4>2
    <3>. QED  BY <2>2, <3>1, <3>2 DEF Canonical
  <2>4. e[Len(e)][1] <= x /\ Len(e) > 0
    BY <1>1, <1>3, <2>2
  <2>5. ASSUME NEW b \in Nat
        PROVE  Holds(e, b) <=> (Holds(m, b) \/ Within(b, r))
    <3>1. 1..Len(e) = (1..k) \cup {k + 1}
      BY <1>1, <2>2
    <3>. QED  BY <2>2, <3>1, Zenon DEF Holds
  <2>. QED  BY <1>3, <2>3, <2>4, <2>5 DEF e
<1>. QED  BY <1>4, <1>5

\* A turn of the loop makes a list of ranges.
LEMMA ExtendIsList ==
  \A m \in Seq(Ranges) : \A r \in Ranges : Extend(m, r) \in Seq(Ranges)
<1> SUFFICES ASSUME NEW m \in Seq(Ranges), NEW r \in Ranges
             PROVE  Extend(m, r) \in Seq(Ranges)
  OBVIOUS
<1>1. CASE Len(m) > 0 /\ r[1] <= m[Len(m)][2]
  <2>1. Len(m) \in 1..Len(m) /\ m[Len(m)] \in Ranges
    BY <1>1
  <2> DEFINE k == Len(m)
             x == <<m[k][1], Larger(m[k][2], r[2])>>
  <2>2. x \in Ranges
    BY <2>1 DEF Ranges, Larger
  <2>3. Extend(m, r) = [m EXCEPT ![k] = x]
    BY <1>1 DEF Extend
  <2> HIDE DEF x
  <2>. QED  BY <2>1, <2>2, <2>3, RangesReplaced
<1>2. CASE ~ (Len(m) > 0 /\ r[1] <= m[Len(m)][2])
  <2>1. Extend(m, r) = Append(m, r)
    BY <1>2 DEF Extend
  <2>. QED  BY <2>1, RangesAppended, Zenon
<1>. QED  BY <1>1, <1>2

\* The lists after each turn of the loop exist.
LEMMA TurnsExist ==
  ASSUME NEW n \in Nat, NEW q \in [1..n -> Ranges]
  PROVE  \E f \in [0..n -> Seq(Ranges)] :
            f[0] = <<>> /\ \A i \in 1..n : f[i] = Extend(f[i - 1], q[i])
<1> DEFINE Partial(k) == \E f \in [0..k -> Seq(Ranges)] :
                            f[0] = <<>> /\ \A i \in 1..k : f[i] = Extend(f[i - 1], q[i])
           P == {k \in Nat : k <= n => Partial(k)}
<1>1. 0 \in P
  <2> DEFINE f == [i \in 0..0 |-> <<>>]
  <2>1. <<>> \in Seq(Ranges)
    OBVIOUS
  <2>2. f \in [0..0 -> Seq(Ranges)] /\ f[0] = <<>> /\ 1..0 = {}
    BY <2>1
  <2> HIDE DEF f
  <2>3. Partial(0)
    BY <2>2
  <2>. QED  BY <2>3
<1>2. ASSUME NEW k \in P
      PROVE  k + 1 \in P
  <2> HIDE DEF Partial
  <2> SUFFICES ASSUME k + 1 <= n
               PROVE  Partial(k + 1)
    OBVIOUS
  <2>1. k \in Nat /\ k <= n /\ Partial(k)
    OBVIOUS
  <2> USE DEF Partial
  <2>2. PICK f \in [0..k -> Seq(Ranges)] :
            f[0] = <<>> /\ \A i \in 1..k : f[i] = Extend(f[i - 1], q[i])
    BY <2>1, Zenon
  <2>3. PICK x \in Seq(Ranges) : x = Extend(f[k], q[k + 1])
    <3>1. f[k] \in Seq(Ranges) /\ q[k + 1] \in Ranges
      BY <2>1, <2>2
    <3>. QED  BY <3>1, ExtendIsList
  <2> DEFINE g == [i \in 0..(k + 1) |-> IF i = k + 1 THEN x ELSE f[i]]
  <2>4. g \in [0..(k + 1) -> Seq(Ranges)]
    BY <2>1, <2>2, <2>3
  <2>5. g[0] = <<>> /\ g[k + 1] = x /\ \A i \in 0..k : g[i] = f[i]
    BY <2>1, <2>2
  <2> HIDE DEF g
  <2>6. ASSUME NEW i \in 1..(k + 1)
        PROVE  g[i] = Extend(g[i - 1], q[i])
    <3>1. CASE i = k + 1
      <4>1. i - 1 = k /\ k \in 0..k
        BY <2>1, <3>1
      <4>. QED  BY <2>3, <2>5, <3>1, <4>1, Zenon
    <3>2. CASE i # k + 1
      <4>1. i \in 1..k /\ i - 1 \in 0..k /\ i \in 0..k
        BY <2>1, <3>2
      <4>. QED  BY <2>2, <2>5, <4>1, Zenon
    <3>. QED  BY <3>1, <3>2, Zenon
  <2>. QED  BY <2>4, <2>5, <2>6, Zenon
<1>3. P \in SUBSET Nat
  OBVIOUS
<1> HIDE DEF P
<1>4. P = Nat
  BY <1>1, <1>2, <1>3, Induction
<1> HIDE DEF Partial
<1>5. Partial(n)
  BY <1>4 DEF P
<1>. QED  BY <1>5, Zenon DEF Partial

\* The lists after each turn, as Merge defines them.
Turns(s) ==
  CHOOSE f : f = [i \in 0..Len(s) |-> IF i = 0 THEN <<>> ELSE Extend(f[i - 1], Sorted(s)[i])]

\* Each turn extends the list of the turn before, and the last one is the result.
LEMMA TurnsAreExtensions ==
  ASSUME NEW s \in Seq(Ranges), Sorted(s) \in [1..Len(s) -> Ranges]
  PROVE  /\ Turns(s)[0] = <<>>
         /\ \A i \in 1..Len(s) : Turns(s)[i] = Extend(Turns(s)[i - 1], Sorted(s)[i])
         /\ Merge(s) = Turns(s)[Len(s)]
<1> DEFINE n == Len(s)
           q == Sorted(s)
           Def(f) == [i \in 0..n |-> IF i = 0 THEN <<>> ELSE Extend(f[i - 1], q[i])]
           g == Turns(s)
<1>1. n \in Nat /\ q \in [1..n -> Ranges]
  OBVIOUS
<1>2. Merge(s) = g[n]
  BY DEF Merge, Turns
<1> HIDE DEF n, q, g
<1>3. PICK f \in [0..n -> Seq(Ranges)] :
         f[0] = <<>> /\ \A i \in 1..n : f[i] = Extend(f[i - 1], q[i])
  BY <1>1, TurnsExist, Zenon
<1>4. f = Def(f)
  BY <1>1, <1>3
<1>5. g = Def(g)
  BY <1>4, Zenon DEF g, Turns, n, q
<1>6. g[0] = <<>> /\ \A i \in 1..n : g[i] = Extend(g[i - 1], q[i])
  <2>1. n \in Nat /\ 0 \in 0..n /\ \A i \in 1..n : i \in 0..n /\ i # 0
    BY <1>1
  <2>2. \A i \in 0..n : g[i] = IF i = 0 THEN <<>> ELSE Extend(g[i - 1], q[i])
    BY <1>5, Zenon
  <2>. QED  BY <2>1, <2>2
<1>. QED  BY <1>2, <1>6, Zenon DEF g, n, q

\* A canonical list with one more range is sorted by some order.
LEMMA OrderExists ==
  ASSUME NEW s, Canonical(s), NEW r \in Ranges
  PROVE  \E p \in [1..(Len(s) + 1) -> 1..(Len(s) + 1)] :
            /\ \A j \in 1..(Len(s) + 1) : \E i \in 1..(Len(s) + 1) : p[i] = j
            /\ \A i, j \in 1..(Len(s) + 1) : i < j => Before(Append(s, r)[p[i]], Append(s, r)[p[j]])
<1> DEFINE n == Len(s)
           T == {i \in 1..(n + 1) : i = n + 1 \/ Before(r, s[i])}
<1>1. s \in Seq(Ranges) /\ n \in Nat /\ \A i \in 1..n : s[i] \in Ranges
  BY DEF Canonical
<1>2. \A i, j \in 1..n : i < j => Before(s[i], s[j])
  <2> SUFFICES ASSUME NEW i \in 1..n, NEW j \in 1..n, i < j
               PROVE  Before(s[i], s[j])
    OBVIOUS
  <2>1. s[i] \in Ranges /\ s[j] \in Ranges
    BY <1>1
  <2>2. s[i][1] < s[i][2] /\ s[i][2] < s[j][1]
    BY Zenon DEF Canonical
  <2>. QED  BY <2>1, <2>2 DEF Before, Ranges
<1> HIDE DEF n
<1>3. n + 1 \in T /\ T \in SUBSET Nat
  BY <1>1
<1>4. PICK k \in T : \A i \in T : k <= i
  BY <1>3, LeastElement, Zenon
<1>5. k \in Nat /\ k >= 1 /\ k <= n + 1
  BY <1>1, <1>4
<1>6. \A i \in 1..n : i < k => Before(s[i], r)
  <2> SUFFICES ASSUME NEW i \in 1..n, i < k
               PROVE  Before(s[i], r)
    OBVIOUS
  <2>1. i \notin T /\ i \in 1..(n + 1)
    BY <1>1, <1>4, <1>5
  <2>2. ~ Before(r, s[i])
    BY <2>1
  <2>. QED  BY <1>1, <2>2, BeforeIsTotal
<1>7. \A i \in 1..n : k <= i => Before(r, s[i])
  <2> SUFFICES ASSUME NEW i \in 1..n, k <= i
               PROVE  Before(r, s[i])
    OBVIOUS
  <2>1. k \in 1..n /\ Before(r, s[k])
    BY <1>1, <1>4, <1>5
  <2>2. CASE i = k
    BY <2>1, <2>2
  <2>3. CASE k < i
    <3>1. Before(s[k], s[i])
      BY <1>2, <2>1, <2>3
    <3>. QED  BY <1>1, <2>1, <3>1, BeforeIsTotal
  <2>. QED  BY <1>5, <2>2, <2>3
<1> HIDE DEF T
<1>8. PICK a \in Seq(Ranges) : /\ a = Append(s, r) /\ \A i \in 1..n : a[i] = s[i]
                               /\ a[n + 1] = r
  BY <1>1, RangesAppended, Zenon DEF n
<1> DEFINE p == [i \in 1..(n + 1) |-> IF i < k THEN i ELSE IF i = k THEN n + 1 ELSE i - 1]
<1>9. p \in [1..(n + 1) -> 1..(n + 1)]
  BY <1>1, <1>5
<1>10. \A i \in 1..(n + 1) : p[i] = IF i < k THEN i ELSE IF i = k THEN n + 1 ELSE i - 1
  OBVIOUS
<1> HIDE DEF p
<1>11. ASSUME NEW j \in 1..(n + 1)
       PROVE  \E i \in 1..(n + 1) : p[i] = j
  <2>1. CASE j = n + 1
    BY <1>1, <1>5, <1>10, <2>1
  <2>2. CASE j < k /\ j # n + 1
    BY <1>1, <1>5, <1>10, <2>2, SMTT(30)
  <2>3. CASE j >= k /\ j # n + 1
    <3>1. j + 1 \in 1..(n + 1) /\ ~ (j + 1 < k) /\ j + 1 # k /\ (j + 1) - 1 = j
      BY <1>1, <1>5, <2>3
    <3>. QED  BY <1>10, <3>1
  <2>. QED  BY <1>5, <2>1, <2>2, <2>3
<1>12. ASSUME NEW i \in 1..(n + 1), NEW j \in 1..(n + 1), i < j
       PROVE  Before(a[p[i]], a[p[j]])
  <2>1. CASE j < k
    <3>1. i \in 1..n /\ j \in 1..n /\ p[i] = i /\ p[j] = j
      BY <1>1, <1>5, <1>10, <1>12, <2>1
    <3>. QED  BY <1>2, <1>8, <1>12, <3>1, Zenon
  <2>2. CASE j = k
    <3>1. i \in 1..n /\ p[i] = i /\ p[j] = n + 1 /\ i < k
      BY <1>1, <1>5, <1>10, <1>12, <2>2
    <3>. QED  BY <1>6, <1>8, <3>1, Zenon
  <2>3. CASE j > k /\ i = k
    <3>1. j - 1 \in 1..n /\ p[i] = n + 1 /\ p[j] = j - 1 /\ k <= j - 1
      BY <1>1, <1>5, <1>10, <1>12, <2>3
    <3>. QED  BY <1>7, <1>8, <3>1, Zenon
  <2>4. CASE j > k /\ i < k
    <3>1. i \in 1..n /\ j - 1 \in 1..n /\ p[i] = i /\ p[j] = j - 1 /\ i < j - 1
      BY <1>1, <1>5, <1>10, <1>12, <2>4
    <3>. QED  BY <1>2, <1>8, <3>1, Zenon
  <2>5. CASE j > k /\ i > k
    <3>1. i - 1 \in 1..n /\ j - 1 \in 1..n /\ p[i] = i - 1 /\ p[j] = j - 1 /\ i - 1 < j - 1
      BY <1>1, <1>5, <1>10, <1>12, <2>5
    <3>. QED  BY <1>2, <1>8, <3>1, Zenon
  <2>. QED  BY <1>5, <2>1, <2>2, <2>3, <2>4, <2>5
<1>. QED  BY <1>8, <1>9, <1>11, <1>12, Zenon DEF n

\* What the sorted list is: the same ranges, in order.
LEMMA SortedIsOrdered ==
  ASSUME NEW s, Canonical(s), NEW r \in Ranges, r[1] < r[2]
  PROVE  LET n == Len(s) + 1
             q == Sorted(Append(s, r))
         IN  /\ q \in [1..n -> Ranges]
             /\ \A i \in 1..n : q[i][1] < q[i][2]
             /\ \A i, j \in 1..n : i < j => q[i][1] <= q[j][1]
             /\ \A b \in Nat : (\E i \in 1..n : Within(b, q[i])) <=> (Holds(s, b) \/ Within(b, r))
<1> DEFINE n == Len(s) + 1
           q == Sorted(Append(s, r))
           Ordered(p) == /\ \A j \in 1..n : \E i \in 1..n : p[i] = j
                         /\ \A i, j \in 1..n : i < j => Before(Append(s, r)[p[i]], Append(s, r)[p[j]])
           order == CHOOSE p \in [1..n -> 1..n] : Ordered(p)
<1>1. s \in Seq(Ranges) /\ Len(s) \in Nat
  BY DEF Canonical
<1>2. PICK a \in Seq(Ranges) : /\ a = Append(s, r) /\ Len(a) = n
                               /\ \A i \in 1..Len(s) : a[i] = s[i]
                               /\ a[n] = r
  BY <1>1, RangesAppended, Zenon
<1>3. \E p \in [1..n -> 1..n] : Ordered(p)
  BY OrderExists, Zenon
<1>4. q = [i \in 1..n |-> Append(s, r)[order[i]]]
  BY <1>2 DEF Sorted
<1>5. order \in [1..n -> 1..n] /\ Ordered(order)
  BY <1>3, Zenon
<1> HIDE DEF order
<1>6. /\ \A j \in 1..n : \E i \in 1..n : order[i] = j
      /\ \A i, j \in 1..n : i < j => Before(a[order[i]], a[order[j]])
  BY <1>2, <1>5, Zenon
<1> HIDE DEF Ordered
<1>7. q = [i \in 1..n |-> a[order[i]]]
  BY <1>2, <1>4, Zenon
<1> HIDE DEF q
<1>8. \A i \in 1..n : q[i] = a[order[i]] /\ order[i] \in 1..n
  BY <1>5, <1>7
<1>9. \A j \in 1..n : a[j] \in Ranges /\ a[j][1] < a[j][2]
  BY <1>1, <1>2 DEF Canonical
<1>10. q \in [1..n -> Ranges] /\ \A i \in 1..n : q[i][1] < q[i][2]
  BY <1>7, <1>8, <1>9, Zenon
<1>11. ASSUME NEW i \in 1..n, NEW j \in 1..n, i < j
       PROVE  q[i][1] <= q[j][1]
  <2>1. q[i] \in Ranges /\ q[j] \in Ranges /\ Before(q[i], q[j])
    BY <1>6, <1>8, <1>9, <1>11, ZenonT(30)
  <2>. QED  BY <2>1, SMTT(30) DEF Before, Ranges
<1>12. ASSUME NEW b \in Nat
       PROVE  (\E i \in 1..n : Within(b, q[i])) <=> (Holds(s, b) \/ Within(b, r))
  <2>1. (\E i \in 1..n : Within(b, q[i])) <=> (\E j \in 1..n : Within(b, a[j]))
    <3>1. ASSUME NEW i \in 1..n, Within(b, q[i])
          PROVE  \E j \in 1..n : Within(b, a[j])
      BY <1>8, <3>1
    <3>2. ASSUME NEW j \in 1..n, Within(b, a[j])
          PROVE  \E i \in 1..n : Within(b, q[i])
      <4>1. PICK i \in 1..n : order[i] = j
        BY <1>6
      <4>2. q[i] = a[j]
        BY <1>8, <4>1, Zenon
      <4>. QED  BY <3>2, <4>2
    <3>. QED  BY <3>1, <3>2, Zenon
  <2>2. 1..n = (1..Len(s)) \cup {n}
    BY <1>1
  <2>3. (\E j \in 1..n : Within(b, a[j])) <=> (Holds(s, b) \/ Within(b, r))
    BY <1>2, <2>2, Zenon DEF Holds
  <2>. QED  BY <2>1, <2>3, Zenon
<1>. QED  BY <1>10, <1>11, <1>12, Zenon DEF q

\* acknowledge: a canonical list stays canonical, and gains just the bytes of the range.
LEMMA MergeAdds ==
  ASSUME NEW s, Canonical(s), NEW r \in Ranges, r[1] < r[2]
  PROVE  /\ Canonical(Merge(Append(s, r)))
         /\ \A b \in Nat : Holds(Merge(Append(s, r)), b) <=> (Holds(s, b) \/ Within(b, r))
<1> DEFINE n == Len(s) + 1
           a == Append(s, r)
           q == Sorted(a)
           g == Turns(a)
<1>1. s \in Seq(Ranges) /\ n \in Nat /\ n >= 1
  BY DEF Canonical
<1>2. a \in Seq(Ranges) /\ Len(a) = n
  BY <1>1, RangesAppended
<1>3. /\ q \in [1..n -> Ranges]
      /\ \A i \in 1..n : q[i][1] < q[i][2]
      /\ \A i, j \in 1..n : i < j => q[i][1] <= q[j][1]
      /\ \A b \in Nat : (\E i \in 1..n : Within(b, q[i])) <=> (Holds(s, b) \/ Within(b, r))
  BY SortedIsOrdered, Zenon
<1> HIDE DEF a, n
<1>4. /\ g[0] = <<>>
      /\ \A i \in 1..n : g[i] = Extend(g[i - 1], q[i])
      /\ Merge(a) = g[n]
  <2>1. q \in [1..Len(a) -> Ranges]
    BY <1>2, <1>3, Zenon
  <2>2. /\ g[0] = <<>>
        /\ \A i \in 1..Len(a) : g[i] = Extend(g[i - 1], q[i])
        /\ Merge(a) = g[Len(a)]
    BY <1>2, <2>1, TurnsAreExtensions, Zenon
  <2>. QED  BY <1>2, <2>2, Zenon
<1> HIDE DEF q, g
<1> DEFINE Good(i) == /\ Canonical(g[i])
                      /\ i > 0 => Len(g[i]) > 0 /\ g[i][Len(g[i])][1] <= q[i][1]
                      /\ \A b \in Nat : Holds(g[i], b) <=> \E j \in 1..i : Within(b, q[j])
           P == {i \in Nat : i <= n => Good(i)}
<1>5. 0 \in P
  <2>1. Canonical(<<>>) /\ \A b \in Nat : ~ Holds(<<>>, b)
    BY DEF Canonical, Holds
  <2>2. Canonical(g[0]) /\ \A b \in Nat : Holds(g[0], b) <=> \E j \in 1..0 : Within(b, q[j])
    BY <1>4, <2>1
  <2>. QED  BY <2>2
<1>6. ASSUME NEW i \in P
      PROVE  i + 1 \in P
  <2> SUFFICES ASSUME i + 1 <= n
               PROVE  Good(i + 1)
    OBVIOUS
  <2>1. i \in Nat /\ i + 1 \in 1..n /\ i <= n /\ (i + 1) - 1 = i
    BY <1>1
  <2> DEFINE m == g[i]
             e == g[i + 1]
             x == q[i + 1]
  <2>2. e = Extend(m, x) /\ x \in Ranges /\ x[1] < x[2]
    BY <1>3, <1>4, <2>1, Zenon
  <2>3. Good(i)
    BY <2>1, Zenon
  <2>4. Canonical(m)
    BY <2>3, Zenon
  <2>5. Len(m) > 0 => m[Len(m)][1] <= x[1]
    <3>1. CASE i = 0
      BY <1>4, <3>1
    <3>2. CASE i > 0
      <4>1. i \in 1..n /\ i < i + 1
        BY <1>1, <2>1, <3>2
      <4>2. q[i][1] <= x[1] /\ q[i] \in Ranges /\ x \in Ranges
        BY <1>3, <2>1, <4>1, Zenon
      <4>3. m[Len(m)][1] <= q[i][1] /\ Len(m) > 0
        BY <2>3, <3>2, Zenon
      <4>4. m[Len(m)] \in Ranges
        BY <2>4, <4>3 DEF Canonical
      <4>5. m[Len(m)][1] \in Nat /\ q[i][1] \in Nat /\ x[1] \in Nat
        BY <4>2, <4>4, Zenon DEF Ranges
      <4>. QED  BY <4>2, <4>3, <4>5, SMTT(30)
    <3>. QED  BY <2>1, <3>1, <3>2
  <2>6. \A b \in Nat : Holds(m, b) <=> \E j \in 1..i : Within(b, q[j])
    BY <2>3, Zenon
  <2> HIDE DEF m, x
  <2>7. /\ Canonical(Extend(m, x))
        /\ Len(Extend(m, x)) > 0
        /\ Extend(m, x)[Len(Extend(m, x))][1] <= x[1]
        /\ \A b \in Nat : Holds(Extend(m, x), b) <=> (Holds(m, b) \/ Within(b, x))
    BY <2>2, <2>4, <2>5, ExtendAdds, Zenon
  <2> HIDE DEF e
  <2>8. /\ Canonical(e) /\ Len(e) > 0 /\ e[Len(e)][1] <= x[1]
        /\ \A b \in Nat : Holds(e, b) <=> (Holds(m, b) \/ Within(b, x))
    BY <2>2, <2>7, Zenon
  <2>9. 1..(i + 1) = (1..i) \cup {i + 1}
    BY <2>1
  <2>10. \A b \in Nat : Holds(e, b) <=> \E j \in 1..(i + 1) : Within(b, q[j])
    BY <2>6, <2>8, <2>9, Zenon DEF x
  <2>. QED  BY <2>8, <2>10, Zenon DEF e, x
<1>7. P \in SUBSET Nat
  OBVIOUS
<1> HIDE DEF P
<1>8. P = Nat
  BY <1>5, <1>6, <1>7, Induction
<1>9. Good(n)
  BY <1>1, <1>8 DEF P
<1>. QED  BY <1>3, <1>4, <1>9, Zenon DEF a

\* For a canonical list with no byte beyond the object, the test of acknowledge is true
\* exactly if every byte of the object is there.
LEMMA CoversIsAll ==
  ASSUME NEW s, Canonical(s), NEW size \in Nat, \A b \in Nat : Holds(s, b) => b < size
  PROVE  Covers(s, size) <=> (\A b \in Nat : b < size => Holds(s, b))
<1>1. s \in Seq(Ranges) /\ Len(s) \in Nat
  BY DEF Canonical
<1>2. CASE size = 0
  BY <1>2 DEF Covers
<1>3. ASSUME size > 0, Covers(s, size), NEW b \in Nat, b < size
      PROVE  Holds(s, b)
  <2>1. s # <<>> /\ s[1][1] = 0 /\ s[1][2] >= size
    BY <1>3 DEF Covers
  <2>2. 1 \in 1..Len(s) /\ s[1] \in Ranges
    BY <1>1, <2>1
  <2>3. Within(b, s[1])
    BY <1>3, <2>1, <2>2 DEF Within, Ranges
  <2>. QED  BY <2>2, <2>3 DEF Holds
<1>4. ASSUME size > 0, \A b \in Nat : b < size => Holds(s, b)
      PROVE  Covers(s, size)
  <2>1. Holds(s, 0)
    BY <1>4
  <2>2. PICK k \in 1..Len(s) : Within(0, s[k])
    BY <2>1 DEF Holds
  <2>3. 1 \in 1..Len(s) /\ s # <<>> /\ \A i \in 1..Len(s) : s[i][1] \in Nat /\ s[i][2] \in Nat
    BY <1>1, <2>2, SMTT(30) DEF Ranges
  <2>4. k = 1
    <3> SUFFICES ASSUME 1 < k
                 PROVE  FALSE
      BY <1>1
    <3>1. s[1][2] < s[k][1]
      BY <2>2, <2>3, Zenon DEF Canonical
    <3>. QED  BY <2>2, <2>3, <3>1 DEF Within
  <2>5. s[1][1] = 0
    BY <2>2, <2>3, <2>4 DEF Within
  <2>6. s[1][2] >= size
    <3> SUFFICES ASSUME s[1][2] < size
                 PROVE  FALSE
      BY <2>3
    <3>1. Holds(s, s[1][2])
      BY <1>4, <2>3, Zenon
    <3>2. PICK i \in 1..Len(s) : Within(s[1][2], s[i])
      BY <3>1 DEF Holds
    <3>3. CASE i = 1
      BY <2>3, <3>2, <3>3 DEF Within
    <3>4. CASE 1 < i
      <4>1. s[1][2] < s[i][1]
        BY <2>3, <3>4, Zenon DEF Canonical
      <4>. QED  BY <2>3, <3>2, <4>1 DEF Within
    <3>. QED  BY <3>3, <3>4
  <2>. QED  BY <2>3, <2>5, <2>6, Zenon DEF Covers
<1>. QED  BY <1>2, <1>3, <1>4

\* The bytes of a canonical list.
LEMMA CoveredIsHeld ==
  ASSUME NEW s, Canonical(s)
  PROVE  Covered(s) = {b \in Nat : Holds(s, b)}
<1>1. s \in Seq(Ranges) /\ DOMAIN s = 1..Len(s) /\ \A i \in 1..Len(s) : s[i][1] \in Nat /\ s[i][2] \in Nat
  BY DEF Canonical, Ranges
<1>2. \A i \in 1..Len(s) : \A b : b \in s[i][1]..(s[i][2] - 1) <=> (b \in Nat /\ Within(b, s[i]))
  BY <1>1 DEF Within
<1>3. \A b : b \in Covered(s) <=> \E i \in 1..Len(s) : b \in s[i][1]..(s[i][2] - 1)
  BY <1>1, Zenon DEF Covered
<1>. QED  BY <1>2, <1>3, Zenon DEF Holds

-----------------------------------------------------------------------------
\* The flags of the session.
Flags ==
  /\ session \in BOOLEAN /\ active \in BOOLEAN /\ probe \in BOOLEAN /\ lastCount \in BOOLEAN
  /\ stage \in {"Closed", "SessionOpen", "QueuedReceive"}
  /\ ProbeFollowsCount

\* The replies that a task may be writing.
Replies == [stage : {"writing", "written"}, fault : Faults \cup {"none"}, token : Tokens]

\* A token names the generation of its object and bytes that the object has.
Genuine(t) ==
  /\ t.generation = t.handle - 1
  /\ t.len > 0 => t.offset + t.len <= Sizes[t.handle]

\* The queue: what is delivered of the head was sent, and only bytes that an object has
\* are sent of it; a token is of the head or of an object that has left, and the
\* bytes of a written one were sent.
Queue ==
  /\ head \in Nat /\ 1 <= head /\ head <= Len(Sizes) + 1
  /\ generation = head - 1
  /\ Canonical(delivered)
  /\ sent \in [Handles -> SUBSET Nat]
  /\ \A h \in Handles : \A b \in sent[h] : b < Sizes[h]
  /\ \A b \in Nat : Holds(delivered, b) => head \in Handles /\ b \in sent[head]
  /\ reply \in [Conns -> Replies \cup {NoReply}]
  /\ \A c \in Conns : reply[c] # NoReply =>
       /\ Genuine(reply[c].token) /\ reply[c].token.handle <= head
       /\ reply[c].stage = "written" => RangeOf(reply[c].token) \subseteq sent[reply[c].token.handle]

\* The session's flags stay consistent.
LEMMA FlagsKeep ==
  ASSUME Flags, [TransferNext]_transferVars
  PROVE  Flags'
<1>1. CASE OpenTransferSession \/ ClearTransferSession
  BY <1>1, Zenon DEF OpenTransferSession, ClearTransferSession, Flags, ProbeFollowsCount
<1>2. CASE Patch
  <2>1. probe' \in BOOLEAN /\ session' \in BOOLEAN /\ active' \in BOOLEAN /\ lastCount' \in BOOLEAN
    BY <1>2, Zenon DEF Patch, Flags
  <2>2. stage' \in {"Closed", "SessionOpen", "QueuedReceive"}
    BY <1>2 DEF Patch, Flags
  <2>3. ProbeFollowsCount'
    BY <1>2, Zenon DEF Patch, Flags, ProbeFollowsCount
  <2>. QED  BY <2>1, <2>2, <2>3 DEF Flags
<1>3. CASE SelectMode
  <2>1. probe' = FALSE /\ lastCount' = FALSE /\ session' = session /\ active' = active
    BY <1>3 DEF SelectMode, Prepare
  <2>2. stage' \in {"Closed", "SessionOpen", "QueuedReceive"}
    BY <1>3 DEF SelectMode
  <2>. QED  BY <2>1, <2>2, Zenon DEF Flags, ProbeFollowsCount
<1>4. CASE ReadCount
  BY <1>4, Zenon DEF ReadCount, Flags, ProbeFollowsCount
<1>5. CASE ReadMetadata \/ RefuseData
  BY <1>5, Zenon DEF ReadMetadata, RefuseData, Prepare, Flags, ProbeFollowsCount
<1>6. ASSUME NEW c \in Conns, NEW offset, NEW len, NEW fault, ReadData(c, offset, len, fault)
      PROVE  Flags'
  BY <1>6, Zenon DEF ReadData, Prepare, Flags, ProbeFollowsCount
<1>7. ASSUME UNCHANGED sessionVars
      PROVE  Flags'
  BY <1>7 DEF sessionVars, Flags, ProbeFollowsCount
<1>8. ASSUME NEW c \in Conns, Write(c) \/ Abandon(c) \/ CompleteStream(c)
      PROVE  Flags'
  BY <1>7, <1>8, Zenon DEF Write, Abandon, CompleteStream
<1>9. CASE UNCHANGED transferVars
  BY <1>7, <1>9 DEF transferVars
<1>. QED  BY <1>1, <1>2, <1>3, <1>4, <1>5, <1>6, <1>8, <1>9 DEF TransferNext, Session, Task

\* What a token's acknowledgement adds to the delivered ranges of the head.
LEMMA AcknowledgedAdds ==
  ASSUME TransferAssumption, Canonical(delivered), NEW offset \in Nat, NEW len \in Nat, NEW size \in Nat,
         len > 0 => offset + len <= size
  PROVE  /\ Canonical(Acknowledged(offset, len, size))
         /\ \A b \in Nat : Holds(Acknowledged(offset, len, size), b)
                             <=> (Holds(delivered, b) \/ b \in offset..(offset + len - 1))
<1>1. \A b \in Nat : b \in offset..(offset + len - 1) <=> (offset <= b /\ b < offset + len)
  OBVIOUS
<1>2. CASE len > 0
  <2> DEFINE r == <<offset, offset + len>>
  <2>1. r \in Ranges /\ r[1] < r[2] /\ \A b \in Nat : Within(b, r) <=> (offset <= b /\ b < offset + len)
    BY <1>2 DEF Ranges, Within
  <2>2. Smaller(offset + len, size) = offset + len /\ offset + len > offset
    BY <1>2 DEF Smaller
  <2>3. Acknowledged(offset, len, size) = Merge(Append(delivered, r))
    BY <2>2, Zenon DEF Acknowledged
  <2> HIDE DEF r
  <2>4. /\ Canonical(Merge(Append(delivered, r)))
        /\ \A b \in Nat : Holds(Merge(Append(delivered, r)), b) <=> (Holds(delivered, b) \/ Within(b, r))
    BY <2>1, MergeAdds, Zenon
  <2>. QED  BY <1>1, <2>1, <2>3, <2>4, Zenon
<1>3. CASE len = 0
  <2>1. ~ (Smaller(offset + len, size) > offset)
    BY <1>3 DEF Smaller
  <2>2. Acknowledged(offset, len, size) = delivered
    BY <2>1, Zenon DEF Acknowledged
  <2>. QED  BY <1>1, <1>3, <2>2
<1>. QED  BY <1>2, <1>3

\* The parts of a reply.
LEMMA ReplyParts ==
  ASSUME TransferAssumption, Queue, NEW c \in Conns, reply[c] # NoReply
  PROVE  /\ reply[c] \in Replies /\ reply[c].token \in Tokens
         /\ reply[c].token.handle \in Handles
         /\ reply[c].token.offset \in Nat /\ reply[c].token.len \in Nat
         /\ Sizes[reply[c].token.handle] \in Nat
         /\ Genuine(reply[c].token) /\ reply[c].token.handle <= head
<1>1. reply[c] \in Replies
  BY Zenon DEF Queue
<1>2. reply[c].token \in Tokens
  BY <1>1, Zenon DEF Replies
<1>3. /\ reply[c].token.handle \in Handles /\ reply[c].token.offset \in 0..MaxLen
      /\ reply[c].token.len \in 0..MaxLen
  BY <1>2, Zenon DEF Tokens
<1>4. \A h \in Handles : Sizes[h] \in Nat
  BY DEF TransferAssumption, Handles
<1>. QED  BY <1>1, <1>2, <1>3, <1>4, SMTT(30) DEF Queue, TransferAssumption

\* A completed write adds its bytes to those that were sent.
LEMMA WriteSends ==
  ASSUME TransferAssumption, Queue, NEW c \in Conns, Write(c)
  PROVE  /\ Queue'
         /\ sent' = sent \/ Promise!Send
<1> DEFINE x == reply[c]
           t == x.token
<1>1. x.stage = "writing" /\ x # NoReply /\ UNCHANGED queueVars
  BY SMTT(30) DEF Write, NoReply
<1>2. /\ x \in Replies /\ t \in Tokens /\ t.handle \in Handles /\ t.offset \in Nat /\ t.len \in Nat
      /\ Sizes[t.handle] \in Nat /\ Genuine(t) /\ t.handle <= head
  BY <1>1, ReplyParts, Zenon
<1>3. \A b \in RangeOf(t) : b \in Nat /\ b < Sizes[t.handle]
  BY <1>2, SMTT(30) DEF RangeOf, Genuine
<1>4. PICK y \in Replies \cup {NoReply} :
         /\ reply' = [reply EXCEPT ![c] = y]
         /\ y # NoReply => AcknowledgesReply(x.fault) /\ y.token = t
  <2>1. CASE AcknowledgesReply(x.fault)
    <3> DEFINE z == [x EXCEPT !.stage = "written"]
    <3>1. z \in Replies /\ z.token = t
      BY <1>2, Zenon DEF Replies
    <3>2. reply' = [reply EXCEPT ![c] = z]
      BY <2>1 DEF Write
    <3> HIDE DEF z, x, t
    <3>. QED  BY <2>1, <3>1, <3>2, Zenon
  <2>2. CASE ~ AcknowledgesReply(x.fault)
    BY <2>2 DEF Write
  <2>. QED  BY <2>1, <2>2, Zenon
<1>5. /\ sent \in [Handles -> SUBSET Nat] /\ \A h \in Handles : \A b \in sent[h] : b < Sizes[h]
      /\ reply \in [Conns -> Replies \cup {NoReply}]
  BY Zenon DEF Queue
<1>6. sent' = IF x.fault \in {"none", "other"}
              THEN [sent EXCEPT ![t.handle] = sent[t.handle] \cup RangeOf(t)] ELSE sent
  BY DEF Write
<1>7. \A b \in Nat : Holds(delivered, b) => head \in Handles /\ b \in sent[head]
  BY Zenon DEF Queue
<1>8. \A d \in Conns : reply[d] # NoReply =>
        /\ Genuine(reply[d].token) /\ reply[d].token.handle <= head
        /\ reply[d].token.handle \in Handles
        /\ reply[d].stage = "written" => RangeOf(reply[d].token) \subseteq sent[reply[d].token.handle]
  BY ReplyParts, Zenon DEF Queue
<1> HIDE DEF x, t
<1>9. /\ sent' \in [Handles -> SUBSET Nat]
      /\ \A h \in Handles : sent[h] \subseteq sent'[h] /\ \A b \in sent'[h] : b < Sizes[h]
      /\ AcknowledgesReply(x.fault) => RangeOf(t) \subseteq sent'[t.handle]
  <2>1. CASE x.fault \in {"none", "other"}
    <3>1. sent' = [sent EXCEPT ![t.handle] = sent[t.handle] \cup RangeOf(t)]
      BY <1>6, <2>1, Zenon
    <3>2. sent[t.handle] \cup RangeOf(t) \in SUBSET Nat
      BY <1>2, <1>3, <1>5, Zenon
    <3>. QED  BY <1>2, <1>3, <1>5, <3>1, <3>2
  <2>2. CASE ~ (x.fault \in {"none", "other"})
    BY <1>5, <1>6, <2>2, Zenon DEF AcknowledgesReply
  <2>. QED  BY <2>1, <2>2, Zenon
<1>10. reply' \in [Conns -> Replies \cup {NoReply}] /\ reply'[c] = y
       /\ \A d \in Conns : d # c => reply'[d] = reply[d]
  BY <1>4, <1>5, Zenon
<1>11. ASSUME NEW d \in Conns, reply'[d] # NoReply
       PROVE  /\ Genuine(reply'[d].token) /\ reply'[d].token.handle <= head
              /\ reply'[d].stage = "written"
                   => RangeOf(reply'[d].token) \subseteq sent'[reply'[d].token.handle]
  <2>1. CASE d = c
    <3>1. reply'[d] = y
      BY <1>10, <2>1, Zenon
    <3>. QED  BY <1>2, <1>4, <1>9, <1>11, <3>1, ZenonT(30)
  <2>2. CASE d # c
    BY <1>8, <1>9, <1>10, <1>11, <2>2, Zenon
  <2>. QED  BY <2>1, <2>2, Zenon
<1>12. head' = head /\ generation' = generation /\ delivered' = delivered
  BY <1>1 DEF queueVars
<1>13. Queue'
  <2>1. \A b \in Nat : Holds(delivered', b) => head' \in Handles /\ b \in sent'[head']
    BY <1>7, <1>9, <1>12, Zenon
  <2>. QED  BY <1>9, <1>10, <1>11, <1>12, <2>1, Zenon DEF Queue
<1>14. sent' = sent \/ Promise!Send
  <2>1. CASE x.fault \in {"none", "other"}
    <3>1. sent' = [sent EXCEPT ![t.handle] = sent[t.handle] \cup RangeOf(t)]
      BY <1>6, <2>1
    <3>2. t.handle \in Promise!Objects /\ RangeOf(t) \subseteq Promise!Bytes(t.handle)
      BY <1>2, <1>3 DEF Promise!Objects, Promise!Bytes, Handles
    <3>3. RangeOf(t) \in SUBSET UNION {Promise!Bytes(j) : j \in Promise!Objects}
      BY <3>2
    <3>. QED  BY <1>2, <1>12, <3>1, <3>2, <3>3, ZenonT(30) DEF Promise!Send
  <2>2. CASE ~ (x.fault \in {"none", "other"})
    BY <1>6, <2>2, Zenon
  <2>. QED  BY <2>1, <2>2, Zenon
<1>. QED  BY <1>13, <1>14

\* Replacing one reply by another good one, or by none, keeps the queue.
LEMMA ReplyReplaced ==
  ASSUME TransferAssumption, Queue, NEW c \in Conns, NEW y \in Replies \cup {NoReply},
         reply' = [reply EXCEPT ![c] = y], UNCHANGED <<queueVars, sent>>,
         y # NoReply => /\ Genuine(y.token) /\ y.token.handle <= head
                        /\ y.stage # "written"
  PROVE  Queue'
<1>1. reply \in [Conns -> Replies \cup {NoReply}]
  BY Zenon DEF Queue
<1>2. reply' \in [Conns -> Replies \cup {NoReply}] /\ reply'[c] = y
      /\ \A d \in Conns : d # c => reply'[d] = reply[d]
  BY <1>1, Zenon
<1>3. head' = head /\ generation' = generation /\ delivered' = delivered /\ sent' = sent
  BY Zenon DEF queueVars
<1>4. ASSUME NEW d \in Conns, reply'[d] # NoReply
      PROVE  /\ Genuine(reply'[d].token) /\ reply'[d].token.handle <= head
             /\ reply'[d].stage = "written"
                  => RangeOf(reply'[d].token) \subseteq sent[reply'[d].token.handle]
  <2>1. CASE d = c
    BY <1>2, <1>4, <2>1, Zenon
  <2>2. CASE d # c
    BY <1>2, <1>4, <2>2, Zenon DEF Queue
  <2>. QED  BY <2>1, <2>2, Zenon
<1>. QED  BY <1>2, <1>3, <1>4, Zenon DEF Queue

\* A data read makes a reply whose token is genuine.
LEMMA ReadDataKeeps ==
  ASSUME TransferAssumption, Queue, NEW c \in Conns, NEW offset \in 0..MaxLen, NEW len \in 0..MaxLen,
         NEW fault \in Faults \cup {"none"}, ReadData(c, offset, len, fault)
  PROVE  Queue'
<1>1. UNCHANGED <<queueVars, sent>>
  BY Zenon DEF ReadData
<1>2. head \in Handles
  BY Zenon DEF ReadData, ServesData
<1>3. Queue'
  <2> DEFINE t == Token(offset, len)
             y == [stage |-> "writing", fault |-> fault, token |-> t]
  <2>1. reply' = [reply EXCEPT ![c] = y]
    BY Zenon DEF ReadData
  <2>2. /\ head \in Handles /\ head \in Nat /\ generation = head - 1 /\ Sizes[head] \in Nat
        /\ MaxLen \in Nat /\ Len(Sizes) \in Nat /\ head <= Len(Sizes)
    BY <1>2 DEF Queue, TransferAssumption, Handles
  <2>3. PICK k \in 0..MaxLen :
          /\ k = Smaller(len, IF offset < Sizes[head] THEN Sizes[head] - offset ELSE 0)
          /\ k > 0 => offset + k <= Sizes[head]
    BY <2>2, SMTT(30) DEF Smaller
  <2>4. t = [generation |-> generation, handle |-> head, offset |-> offset, len |-> k]
    BY <2>3, Zenon DEF Token
  <2>5. generation \in 0..Len(Sizes)
    BY <2>2 DEF Handles
  <2> HIDE DEF t
  <2>6. t \in Tokens /\ t.generation = generation /\ t.handle = head /\ t.offset = offset /\ t.len = k
    BY <2>2, <2>4, <2>5, Zenon DEF Tokens
  <2>7. Genuine(t) /\ t.handle <= head
    BY <2>2, <2>3, <2>6 DEF Genuine
  <2>8. y \in Replies /\ y.token = t /\ y.stage # "written"
    BY <2>6, Zenon DEF Replies
  <2> HIDE DEF y
  <2>9. y \in Replies \cup {NoReply}
    BY <2>8, Zenon
  <2>. QED  BY <1>1, <2>1, <2>7, <2>8, <2>9, ReplyReplaced, Zenon
<1>. QED  BY <1>3

\* A completion of the head's reply delivers its bytes, and with the last one the head
\* leaves the queue; a completion of another reply changes nothing.
LEMMA CompletionDelivers ==
  ASSUME TransferAssumption, Queue, NEW c \in Conns, CompleteStream(c)
  PROVE  /\ Queue'
         /\ UNCHANGED queueVars \/ Promise!Deliver
         /\ sent' = sent
<1> DEFINE x == reply[c]
           t == x.token
           ranges == Acknowledged(t.offset, t.len, Sizes[t.handle])
           got == Covered(delivered)
<1>1. x.stage = "written" /\ x # NoReply /\ sent' = sent /\ reply' = [reply EXCEPT ![c] = NoReply]
  <2>1. x.stage = "written" /\ sent' = sent /\ reply' = [reply EXCEPT ![c] = NoReply]
    BY Zenon DEF CompleteStream
  <2>2. NoReply.stage # "written"
    BY DEF NoReply
  <2>. QED  BY <2>1, <2>2, Zenon
<1>2. /\ x \in Replies /\ t \in Tokens /\ t.handle \in Handles /\ t.offset \in Nat /\ t.len \in Nat
      /\ Sizes[t.handle] \in Nat /\ Genuine(t) /\ t.handle <= head
  BY <1>1, ReplyParts, Zenon
<1>3. RangeOf(t) \subseteq sent[t.handle]
  BY <1>1, Zenon DEF Queue
<1>4. CASE ~ (generation = t.generation /\ head = t.handle)
  <2>1. UNCHANGED queueVars
    BY <1>4, Zenon DEF CompleteStream
  <2>. QED  BY <1>1, <2>1, ReplyReplaced, Zenon
<1>5. CASE generation = t.generation /\ head = t.handle
  <2>1. head \in Handles /\ head \in Nat /\ head <= Len(Sizes) /\ Len(Sizes) \in Nat
    <3>1. Len(Sizes) \in Nat
      BY DEF TransferAssumption
    <3>2. head \in Handles
      BY <1>2, <1>5, Zenon
    <3>. QED  BY <3>1, <3>2 DEF Handles
  <2>2. PICK size \in Nat : size = Sizes[head]
    BY <1>2, <1>5, Zenon
  <2>3. Canonical(delivered) /\ sent \in [Handles -> SUBSET Nat]
    BY Zenon DEF Queue
  <2>4. /\ Canonical(ranges)
        /\ \A b \in Nat : Holds(ranges, b)
                            <=> (Holds(delivered, b) \/ b \in t.offset..(t.offset + t.len - 1))
    <3>1. t.len > 0 => t.offset + t.len <= Sizes[t.handle]
      BY <1>2, Zenon DEF Genuine
    <3> HIDE DEF t
    <3>. QED  BY <1>2, <2>3, <3>1, AcknowledgedAdds, Zenon
  <2>5. IF Covers(ranges, size)
        THEN head' = head + 1 /\ generation' = generation + 1 /\ delivered' = <<>>
        ELSE delivered' = ranges /\ UNCHANGED <<head, generation>>
    BY <1>5, <2>2, Zenon DEF CompleteStream
  <2> HIDE DEF ranges
  <2>6. \A b \in Nat : Holds(ranges, b) <=> (Holds(delivered, b) \/ b \in RangeOf(t))
    BY <2>4, Zenon DEF RangeOf
  <2>7. RangeOf(t) \subseteq sent[head] /\ \A b \in sent[head] : b \in Nat /\ b < size
    BY <1>3, <1>5, <2>1, <2>2, ZenonT(30) DEF Queue
  <2>8. \A b \in Nat : Holds(ranges, b) => b \in sent[head]
    BY <2>6, <2>7 DEF Queue
  <2>9. Covers(ranges, size) <=> (\A b \in Nat : b < size => Holds(ranges, b))
    <3>1. \A b \in Nat : Holds(ranges, b) => b < size
      BY <2>7, <2>8
    <3>. QED  BY <2>2, <2>4, <3>1, CoversIsAll, ZenonT(30)
  <2>10. Covered(ranges) = got \cup RangeOf(t)
    <3>1. Covered(ranges) = {b \in Nat : Holds(ranges, b)} /\ got = {b \in Nat : Holds(delivered, b)}
      BY <2>3, <2>4, CoveredIsHeld, Zenon
    <3> HIDE DEF got
    <3>2. \A b \in RangeOf(t) : b \in Nat
      BY <2>7, Zenon
    <3>. QED  BY <2>6, <3>1, <3>2, Zenon
  <2>11. Covers(ranges, size) <=> (got \cup RangeOf(t) = Promise!Bytes(head))
    <3>1. Promise!Bytes(head) = {b \in Nat : b < size}
      BY <2>2 DEF Promise!Bytes
    <3>2. Covered(ranges) = {b \in Nat : Holds(ranges, b)}
      BY <2>4, CoveredIsHeld, Zenon
    <3>3. \A b \in Nat : Holds(ranges, b) => b < size
      BY <2>7, <2>8, Zenon
    <3>4. (Covered(ranges) = Promise!Bytes(head)) <=> (\A b \in Nat : b < size => Holds(ranges, b))
      BY <3>1, <3>2, <3>3, Zenon
    <3>. QED  BY <2>9, <2>10, <3>4, Zenon
  <2>12. reply' \in [Conns -> Replies \cup {NoReply}] /\ reply'[c] = NoReply
         /\ \A d \in Conns : d # c => reply'[d] = reply[d]
    BY <1>1, Zenon DEF Queue
  <2>13. head' \in Nat /\ head <= head'
    BY <2>1, <2>5, SMTT(30)
  <2>14. ASSUME NEW d \in Conns, reply'[d] # NoReply
         PROVE  /\ Genuine(reply'[d].token) /\ reply'[d].token.handle <= head'
                /\ reply'[d].stage = "written"
                     => RangeOf(reply'[d].token) \subseteq sent[reply'[d].token.handle]
    <3>1. reply'[d] = reply[d] /\ reply[d] # NoReply
      BY <2>12, <2>14, Zenon
    <3>2. reply[d].token.handle \in Handles /\ reply[d].token.handle <= head
      BY <3>1, ReplyParts, Zenon
    <3>3. reply[d].token.handle <= head'
      BY <2>1, <2>13, <3>2, SMTT(30) DEF Handles
    <3>. QED  BY <3>1, <3>3, Zenon DEF Queue
  <2>15. \A h \in Handles : \A b \in sent[h] : b < Sizes[h]
    BY Zenon DEF Queue
  <2>16. CASE Covers(ranges, size)
    <3>1. head' = head + 1 /\ generation' = generation + 1 /\ delivered' = <<>>
      BY <2>5, <2>16, Zenon
    <3>2. Canonical(<<>>) /\ (\A b \in Nat : ~ Holds(<<>>, b)) /\ Covered(<<>>) = {}
      BY SMTT(30) DEF Canonical, Holds, Covered
    <3>3. generation' = head' - 1 /\ 1 <= head' /\ head' <= Len(Sizes) + 1
      BY <2>1, <3>1, SMTT(30) DEF Queue
    <3>4. Queue'
      BY <1>1, <2>3, <2>12, <2>13, <2>14, <2>15, <3>1, <3>2, <3>3, ZenonT(30) DEF Queue
    <3>5. Promise!Deliver
      <4>1. got \cup RangeOf(t) = Promise!Bytes(head) /\ head \in Promise!Objects
        BY <2>1, <2>11, <2>16, Zenon DEF Promise!Objects, Handles
      <4>2. Covered(delivered)' = {}
        BY <3>1, <3>2, SMTT(30) DEF Covered
      <4>. QED  BY <1>1, <2>7, <3>1, <4>1, <4>2, Zenon DEF Promise!Deliver
    <3>. QED  BY <1>1, <3>4, <3>5, Zenon
  <2>17. CASE ~ Covers(ranges, size)
    <3>1. delivered' = ranges /\ head' = head /\ generation' = generation
      BY <2>5, <2>17, Zenon
    <3>2. Queue'
      <4>1. \A b \in Nat : Holds(delivered', b) => head' \in Handles /\ b \in sent[head']
        BY <2>1, <2>8, <3>1, Zenon
      <4>. QED  BY <1>1, <2>3, <2>4, <2>12, <2>13, <2>14, <2>15, <3>1, <4>1, ZenonT(30) DEF Queue
    <3>3. Promise!Deliver
      <4>1. got \cup RangeOf(t) # Promise!Bytes(head) /\ head \in Promise!Objects
        BY <2>1, <2>11, <2>17, Zenon DEF Promise!Objects, Handles
      <4>2. Covered(delivered)' = got \cup RangeOf(t)
        BY <2>10, <3>1, Zenon DEF Covered
      <4>. QED  BY <1>1, <2>7, <3>1, <4>1, <4>2, Zenon DEF Promise!Deliver
    <3>. QED  BY <1>1, <3>2, <3>3
  <2>. QED  BY <2>16, <2>17, Zenon
<1>. QED  BY <1>4, <1>5, Zenon

\* The count is that of the queue until another value replaces it.
CountKept ==
  /\ overwritten \in BOOLEAN
  /\ count \in 0..Len(Sizes) \cup Written
  /\ overwritten \/ count = Remaining(head)

\* How many objects are left is a number that the count can have.
LEMMA RemainingIsCount ==
  ASSUME TransferAssumption, NEW h \in Nat, 1 <= h, h <= Len(Sizes) + 1
  PROVE  Remaining(h) \in 0..Len(Sizes)
BY DEF TransferAssumption, Remaining

\* Every step keeps the count: another value for it is remembered as one, and an object
\* that leaves the queue takes it along.
LEMMA CountKeeps ==
  ASSUME TransferAssumption, Queue, Queue', CountKept, [TransferNext]_transferVars
  PROVE  CountKept'
<1>1. ASSUME UNCHANGED countVars, head' = head
      PROVE  CountKept'
  BY <1>1, Zenon DEF CountKept, countVars
<1>2. ASSUME Overwrite, head' = head
      PROVE  CountKept'
  BY <1>2, Zenon DEF CountKept, Overwrite
<1>3. CASE Session
  <2>1. head' = head
    BY <1>3, Zenon DEF Session, OpenTransferSession, ClearTransferSession, Patch, SelectMode, ReadCount,
       ReadMetadata, RefuseData, queueVars
  <2>2. Overwrite \/ UNCHANGED countVars
    BY <1>3, Zenon DEF Session, OpenTransferSession, ClearTransferSession, Patch, SelectMode, ReadCount,
       ReadMetadata, RefuseData
  <2>. QED  BY <1>1, <1>2, <2>1, <2>2, Zenon
<1>4. ASSUME NEW c \in Conns, NEW offset, NEW len, NEW fault, ReadData(c, offset, len, fault)
      PROVE  CountKept'
  BY <1>1, <1>4, Zenon DEF ReadData, queueVars
<1>5. ASSUME NEW c \in Conns, Write(c) \/ Abandon(c)
      PROVE  CountKept'
  BY <1>1, <1>5, Zenon DEF Write, Abandon, queueVars
<1>6. ASSUME NEW c \in Conns, CompleteStream(c)
      PROVE  CountKept'
  <2>1. \/ head' = head + 1 /\ count' = Remaining(head + 1) /\ overwritten' = FALSE
        \/ head' = head /\ UNCHANGED countVars
    BY <1>6, Zenon DEF CompleteStream, queueVars
  <2>2. CASE head' = head + 1 /\ count' = Remaining(head + 1) /\ overwritten' = FALSE
    <3>1. count' = Remaining(head')
      BY <2>2, Zenon
    <3>2. head' \in Nat /\ 1 <= head' /\ head' <= Len(Sizes) + 1
      BY Zenon DEF Queue
    <3>3. count' \in 0..Len(Sizes)
      BY <3>1, <3>2, RemainingIsCount, Zenon
    <3>. QED  BY <2>2, <3>1, <3>3, Zenon DEF CountKept
  <2>. QED  BY <1>1, <2>1, <2>2, Zenon
<1>7. CASE UNCHANGED transferVars
  BY <1>1, <1>7, Zenon DEF transferVars, queueVars
<1>. QED  BY <1>3, <1>4, <1>5, <1>6, <1>7, Zenon DEF TransferNext, Task

\* The flags, the queue and the count.
TransferInv == Flags /\ Queue /\ CountKept

\* They hold at the start.
LEMMA TransferStarts ==
  ASSUME TransferAssumption, TransferInit
  PROVE  TransferInv /\ Promise!Init
<1>1. Flags
  BY Zenon DEF TransferInit, Flags, ProbeFollowsCount
<1>2. Canonical(<<>>) /\ (\A b \in Nat : ~ Holds(<<>>, b)) /\ Covered(<<>>) = {}
  BY DEF Canonical, Holds, Covered
<1>3. /\ head = 1 /\ generation = 0 /\ delivered = <<>>
      /\ reply = [c \in Conns |-> NoReply] /\ sent = [h \in Handles |-> {}] /\ Len(Sizes) \in Nat
  BY DEF TransferInit, TransferAssumption
<1>4. reply \in [Conns -> Replies \cup {NoReply}] /\ \A c \in Conns : reply[c] = NoReply
  BY <1>3, Zenon
<1>5. sent \in [Handles -> SUBSET Nat] /\ \A h \in Handles : sent[h] = {}
  BY <1>3, Zenon
<1>6. Queue
  BY <1>2, <1>3, <1>4, <1>5 DEF Queue
<1>7. Promise!Init
  BY <1>2, <1>3, Zenon DEF Promise!Init, Promise!Objects, Handles
<1>8. CountKept
  <2>1. count = Remaining(head) /\ overwritten = FALSE
    BY Zenon DEF TransferInit
  <2>2. Remaining(head) \in 0..Len(Sizes)
    BY <1>6, RemainingIsCount, Zenon DEF Queue
  <2>. QED  BY <2>1, <2>2, Zenon DEF CountKept
<1>. QED  BY <1>1, <1>6, <1>7, <1>8, Zenon DEF TransferInv

\* Every step keeps them, and is a step of the promise or none.
LEMMA TransferStep ==
  ASSUME TransferAssumption, TransferInv, [TransferNext]_transferVars
  PROVE  TransferInv' /\ [Promise!Next]_(Promise!vars)
<1>1. Flags' /\ Queue
  BY FlagsKeep DEF TransferInv
<1>2. Queue' => TransferInv'
  BY <1>1, CountKeeps, Zenon DEF TransferInv
<1>3. ASSUME UNCHANGED <<queueVars, sent>>
      PROVE  UNCHANGED Promise!vars
  BY <1>3, Zenon DEF queueVars, Promise!vars, Covered
<1>4. ASSUME UNCHANGED <<queueVars, reply, sent>>
      PROVE  Queue'
  BY <1>1, <1>4, Zenon DEF Queue, queueVars
<1>5. CASE Session \/ UNCHANGED transferVars
  <2>1. UNCHANGED <<queueVars, reply, sent>>
    BY <1>5, Zenon DEF Session, OpenTransferSession, ClearTransferSession, Patch, SelectMode, ReadCount,
       ReadMetadata, RefuseData, transferVars
  <2>. QED  BY <1>2, <1>3, <1>4, <2>1, Zenon
<1>6. ASSUME NEW c \in Conns, NEW offset \in 0..MaxLen, NEW len \in 0..MaxLen,
             NEW fault \in Faults \cup {"none"}, ReadData(c, offset, len, fault)
      PROVE  TransferInv' /\ [Promise!Next]_(Promise!vars)
  <2>1. UNCHANGED <<queueVars, sent>>
    BY <1>6, Zenon DEF ReadData
  <2>. QED  BY <1>1, <1>2, <1>3, <1>6, <2>1, ReadDataKeeps, Zenon
<1>7. ASSUME NEW c \in Conns, Write(c)
      PROVE  TransferInv' /\ [Promise!Next]_(Promise!vars)
  <2>1. Queue' /\ (sent' = sent \/ Promise!Send) /\ UNCHANGED queueVars
    BY <1>1, <1>7, WriteSends, Zenon DEF Write
  <2>. QED  BY <1>2, <1>3, <2>1, Zenon DEF Promise!Next
<1>8. ASSUME NEW c \in Conns, Abandon(c)
      PROVE  TransferInv' /\ [Promise!Next]_(Promise!vars)
  <2>1. UNCHANGED <<queueVars, sent>> /\ reply' = [reply EXCEPT ![c] = NoReply]
    BY <1>8, Zenon DEF Abandon
  <2>. QED  BY <1>1, <1>2, <1>3, <2>1, ReplyReplaced, Zenon
<1>9. ASSUME NEW c \in Conns, CompleteStream(c)
      PROVE  TransferInv' /\ [Promise!Next]_(Promise!vars)
  <2>1. Queue' /\ (UNCHANGED queueVars \/ Promise!Deliver) /\ sent' = sent
    BY <1>1, <1>9, CompletionDelivers, Zenon
  <2>. QED  BY <1>2, <1>3, <2>1, Zenon DEF Promise!Next
<1>. QED  BY <1>5, <1>6, <1>7, <1>8, <1>9, Zenon DEF TransferNext, Task

\* What the invariant says of the count and the probe.
LEMMA TransferMeans ==
  ASSUME TransferAssumption, TransferInv
  PROVE  CountIsHonest
<1>1. CountIsRemaining /\ ProbeFollowsCount
  BY Zenon DEF TransferInv, Flags, CountKept, CountIsRemaining
<1>2. {session, active, probe, lastCount} \subseteq BOOLEAN
  BY Zenon DEF TransferInv, Flags
<1>3. stage \in {"Closed", "SessionOpen", "QueuedReceive"}
  BY Zenon DEF TransferInv, Flags
<1>4. head \in 1..(Len(Sizes) + 1) /\ generation \in 0..Len(Sizes)
  BY DEF TransferInv, Queue, TransferAssumption
<1>5. \A i \in DOMAIN delivered : delivered[i][1] < delivered[i][2]
  BY SMTT(30) DEF TransferInv, Queue, Canonical
<1>6. ASSUME NEW c \in Conns, reply[c] # NoReply
      PROVE  /\ reply[c].stage \in {"writing", "written"}
             /\ reply[c].fault \in Faults \cup {"none"}
             /\ reply[c].token \in Tokens
  <2>1. reply[c] \in Replies
    BY <1>6, Zenon DEF TransferInv, Queue
  <2>. QED  BY <2>1, Zenon DEF Replies
<1>7. TransferTypeOK
  BY <1>2, <1>3, <1>4, <1>5, <1>6, Zenon DEF TransferTypeOK, TransferInv, CountKept
<1>. QED  BY <1>1, <1>7, Zenon DEF CountIsHonest

\* For every queue of objects, every number of connections, every choice of faults and
\* whatever values overlays and other writes give the count property: it is the number of
\* objects left unless such a value replaced it since the last object left the queue, and
\* metadata is served early only directly after a count was read (complete_stream,
\* sync_camera_initiated_counts, apply_overlay, prepare_camera_initiated_pre_mode_probe).
THEOREM CountHolds == TransferSpec => []CountIsHonest
<1> USE TransferAssumption
<1>1. TransferInit => TransferInv
  BY TransferStarts
<1>2. TransferInv /\ [TransferNext]_transferVars => TransferInv'
  BY TransferStep, Zenon
<1>3. TransferInv => CountIsHonest
  BY TransferMeans
<1>. QED  BY <1>1, <1>2, <1>3, PTL DEF TransferSpec

\* The queue with its merged ranges, tokens and late completions implements Delivery: every
\* step delivers bytes that were sent, sends bytes of an object, or changes nothing that
\* Delivery speaks of.
THEOREM PromiseKept == TransferSpec => KeepsPromise
<1> USE TransferAssumption
<1>1. TransferInit => TransferInv /\ Promise!Init
  BY TransferStarts
<1>2. TransferInv /\ [TransferNext]_transferVars => TransferInv' /\ [Promise!Next]_(Promise!vars)
  BY TransferStep, Zenon
<1>. QED  BY <1>1, <1>2, PTL DEF TransferSpec, KeepsPromise, Promise!Spec

-----------------------------------------------------------------------------
\* What counts as delivered was sent, and only bytes of an object are sent of it.
PromiseInv ==
  /\ head \in Nat
  /\ sent \in [Promise!Objects -> SUBSET UNION {Promise!Bytes(j) : j \in Promise!Objects}]
  /\ \A i \in Promise!Objects : sent[i] \subseteq Promise!Bytes(i)
  /\ head \in Promise!Objects => Covered(delivered) \subseteq sent[head]
  /\ head \notin Promise!Objects => Covered(delivered) = {}
  /\ Promise!NothingSkipped

\* Deliver advances the head only over an object whose bytes were all sent.
LEMMA DeliverInvariant ==
  ASSUME Sizes \in Seq(Nat), PromiseInv, Promise!Deliver
  PROVE  PromiseInv'
<1> DEFINE n == Len(Sizes)
<1>1. n \in Nat /\ Promise!Objects = 1..n
  BY DEF Promise!Objects
<1>2. PICK r \in SUBSET sent[head] :
        IF Covered(delivered) \cup r = Promise!Bytes(head)
        THEN head' = head + 1 /\ Covered(delivered)' = {}
        ELSE head' = head /\ Covered(delivered)' = Covered(delivered) \cup r
  BY Zenon DEF Promise!Deliver
<1>3. head \in Promise!Objects /\ sent' = sent /\ head' \in Nat
  BY <1>2 DEF Promise!Deliver, PromiseInv
<1>4. CASE Covered(delivered) \cup r = Promise!Bytes(head)
  <2>1. sent[head] = Promise!Bytes(head)
    BY <1>2, <1>3, <1>4, Zenon DEF PromiseInv
  <2>2. head' = head + 1 /\ Covered(delivered)' = {}
    BY <1>2, <1>4, Zenon
  <2>3. ASSUME NEW i \in Promise!Objects, i < head + 1
        PROVE  sent[i] = Promise!Bytes(i)
    <3>1. i = head \/ i < head
      BY <1>1, <1>3, <2>3 DEF PromiseInv
    <3> QED BY <2>1, <3>1, <2>3, Zenon DEF PromiseInv, Promise!NothingSkipped
  <2>4. Promise!NothingSkipped'
    BY <1>3, <2>2, <2>3, Zenon DEF Promise!NothingSkipped, Promise!Bytes, Promise!Objects
  <2> QED BY <1>3, <2>2, <2>4, Zenon DEF PromiseInv, Promise!Bytes, Promise!Objects
<1>5. CASE Covered(delivered) \cup r # Promise!Bytes(head)
  <2>1. head' = head /\ Covered(delivered)' = Covered(delivered) \cup r
    BY <1>2, <1>5, Zenon
  <2> QED BY <1>2, <1>3, <2>1, Zenon
             DEF PromiseInv, Promise!NothingSkipped, Promise!Bytes, Promise!Objects
<1> QED BY <1>4, <1>5, Zenon

\* Sending more of an object takes nothing back.
LEMMA SendInvariant ==
  ASSUME Sizes \in Seq(Nat), PromiseInv, Promise!Send
  PROVE  PromiseInv'
<1>1. PICK i \in Promise!Objects, r \in SUBSET UNION {Promise!Bytes(j) : j \in Promise!Objects} :
        /\ r \subseteq Promise!Bytes(i)
        /\ sent' = [sent EXCEPT ![i] = @ \cup r]
  BY Zenon DEF Promise!Send
<1>2. head' = head /\ Covered(delivered)' = Covered(delivered)
  BY Zenon DEF Promise!Send
<1>3. sent' \in [Promise!Objects -> SUBSET UNION {Promise!Bytes(j) : j \in Promise!Objects}]
  BY <1>1, Zenon DEF PromiseInv
<1>4. \A k \in Promise!Objects : sent[k] \subseteq sent'[k] /\ sent'[k] \subseteq Promise!Bytes(k)
  BY <1>1, Zenon DEF PromiseInv
<1>5. Promise!NothingSkipped'
  BY <1>2, <1>4, Zenon DEF PromiseInv, Promise!NothingSkipped, Promise!Bytes, Promise!Objects
<1> QED BY <1>2, <1>3, <1>4, <1>5, SMTT(30) DEF PromiseInv, Promise!Bytes, Promise!Objects

\* No object leaves a camera-initiated queue before every byte of it was sent,
\* whatever the number and the sizes of the objects.
THEOREM PromiseSkipsNothing ==
  ASSUME Sizes \in Seq(Nat)
  PROVE  Promise!Spec => []Promise!NothingSkipped
<1>1. Promise!Init => PromiseInv
  <2> SUFFICES ASSUME Promise!Init PROVE PromiseInv
    OBVIOUS
  <2>1. Len(Sizes) \in Nat
    OBVIOUS
  <2>2. sent \in [Promise!Objects -> SUBSET UNION {Promise!Bytes(j) : j \in Promise!Objects}]
    BY Zenon DEF Promise!Init
  <2>3. Promise!NothingSkipped
    BY <2>1 DEF Promise!Init, Promise!NothingSkipped, Promise!Objects
  <2> QED BY <2>2, <2>3, Zenon DEF Promise!Init, PromiseInv
<1>2. PromiseInv /\ [Promise!Next]_(Promise!vars) => PromiseInv'
  <2> SUFFICES ASSUME PromiseInv, [Promise!Next]_(Promise!vars) PROVE PromiseInv'
    OBVIOUS
  <2>1. CASE Promise!Send
    BY <2>1, SendInvariant
  <2>2. CASE Promise!Deliver
    BY <2>2, DeliverInvariant, SMTT(30)
  <2>3. CASE UNCHANGED Promise!vars
    BY <2>3, Zenon DEF Promise!vars, PromiseInv, Promise!NothingSkipped, Promise!Bytes, Promise!Objects
  <2> QED BY <2>1, <2>2, <2>3, Zenon DEF Promise!Next
<1>3. PromiseInv => Promise!NothingSkipped
  BY Zenon DEF PromiseInv
<1> QED BY <1>1, <1>2, <1>3, PTL DEF Promise!Spec

-----------------------------------------------------------------------------
\* The handles.
Numbers == 1..Total

\* What is known of one sequence of handles written after another.
LEMMA NumbersJoined ==
  \A a, b \in Seq(Numbers) :
     /\ a \o b \in Seq(Numbers)
     /\ Len(a \o b) = Len(a) + Len(b)
     /\ \A j \in 1..Len(a) : (a \o b)[j] = a[j]
     /\ \A j \in 1..Len(b) : (a \o b)[Len(a) + j] = b[j]
OBVIOUS

\* The queue and its announcements.
Listed ==
  /\ next_index \in Nat /\ next_index <= Total
  /\ seeded \in Nat /\ seeded <= next_index
  /\ completed \in Nat
  /\ available \subseteq 1..next_index
  /\ IsFiniteSet(available) /\ Cardinality(available) + completed = next_index
  /\ emitted \in Seq(Numbers)
  /\ Announces => /\ Len(emitted) = next_index - seeded
                  /\ \A i \in 1..Len(emitted) : emitted[i] = seeded + i

\* The ritual: as much of it as the last requests are, and no more.
Ritual ==
  /\ driven \in BOOLEAN /\ busy \in Nat
  /\ shutter_progress \in Nat /\ shutter_progress < Len(Shutter)
  /\ accepted \in Seq(CaptureRequests) /\ Len(accepted) <= Len(Shutter)
  /\ driven => RunsBack(shutter_progress)

\* Adding objects keeps the queue.
LEMMA AddedKeeps ==
  ASSUME CaptureAssumption, Listed, NEW n \in Nat, Added(n), UNCHANGED <<completed, seeded>>
  PROVE  Listed'
<1> DEFINE new == Enqueue(n)
           m == IF next_index + n <= Total THEN next_index + n ELSE Total
<1>1. /\ Total \in Nat /\ next_index \in Nat /\ next_index <= Total /\ completed \in Nat
      /\ seeded \in Nat /\ seeded <= next_index
  BY Zenon DEF Listed, CaptureAssumption
<1>2. m \in Nat /\ next_index <= m /\ m <= Total /\ new = (next_index + 1)..m
  BY <1>1 DEF Enqueue
<1> HIDE DEF m, new
<1>3. IsFiniteSet(new) /\ Cardinality(new) = m - next_index
  <2>1. next_index + 1 \in Int /\ m \in Int
    BY <1>1, <1>2
  <2>2. /\ IsFiniteSet((next_index + 1)..m)
        /\ Cardinality((next_index + 1)..m)
             = IF next_index + 1 > m THEN 0 ELSE m - (next_index + 1) + 1
    BY <2>1, FS_Interval, Zenon
  <2>. QED  BY <1>1, <1>2, <2>2
<1>4. available' = available \cup new /\ next_index' = next_index + Cardinality(new)
  BY Zenon DEF Added, new
<1>5. next_index' = m
  BY <1>1, <1>2, <1>3, <1>4
<1>6. available \cap new = {} /\ available' \subseteq 1..next_index'
  <2>1. \A h \in available : h \in 1..next_index
    BY Zenon DEF Listed
  <2>2. \A h \in new : h \in (next_index + 1)..m
    BY <1>2, Zenon
  <2>3. \A h \in available : h \notin new /\ h \in 1..m
    BY <1>1, <1>2, <2>1, <2>2
  <2>4. \A h \in new : h \in 1..m
    BY <1>1, <1>2, <2>2, SMTT(30)
  <2>. QED  BY <1>4, <1>5, <2>3, <2>4, Zenon
<1>7. IsFiniteSet(available') /\ Cardinality(available') + completed' = next_index'
  <2>1. IsFiniteSet(available) /\ Cardinality(available) + completed = next_index
        /\ Cardinality(available) \in Nat
    BY FS_CardinalityType, Zenon DEF Listed
  <2>2. Cardinality(available') = Cardinality(available) + Cardinality(new) - Cardinality(available \cap new)
        /\ IsFiniteSet(available')
    BY <1>3, <1>4, <2>1, FS_Union, Zenon
  <2>3. Cardinality(available \cap new) = 0
    BY <1>6, FS_EmptySet, Zenon
  <2>. QED  BY <1>1, <1>2, <1>3, <1>5, <2>1, <2>2, <2>3, SMTT(30)
<1>8. /\ emitted' \in Seq(Numbers)
      /\ Announces => /\ Len(emitted') = next_index' - seeded
                      /\ \A i \in 1..Len(emitted') : emitted'[i] = seeded + i
  <2>1. emitted \in Seq(Numbers)
    BY Zenon DEF Listed
  <2>2. CASE Announces
    <3> DEFINE d == m - next_index
               tail == [i \in 1..d |-> next_index + i]
    <3>1. d \in Nat
      BY <1>1, <1>2
    <3>2. emitted' = emitted \o tail
      BY <1>5, <2>2, Zenon DEF Added
    <3>3. tail \in [1..d -> 1..Total] /\ \A i \in 1..d : tail[i] = next_index + i
      BY <1>1, <1>2
    <3>9. tail \in [1..d -> Numbers]
      BY <3>3, Zenon DEF Numbers
    <3> HIDE DEF tail, d
    <3>4. tail \in Seq(Numbers) /\ Len(tail) = d
      BY <3>1, <3>9
    <3>5. Len(emitted) = next_index - seeded /\ \A i \in 1..Len(emitted) : emitted[i] = seeded + i
      BY <2>2, Zenon DEF Listed
    <3>6. /\ emitted' \in Seq(Numbers) /\ Len(emitted') = Len(emitted) + d
          /\ \A i \in 1..Len(emitted) : emitted'[i] = emitted[i]
          /\ \A i \in 1..d : emitted'[Len(emitted) + i] = tail[i]
      BY <2>1, <3>2, <3>4, NumbersJoined, Zenon
    <3>7. Len(emitted') = next_index' - seeded
      BY <1>1, <1>2, <1>5, <3>5, <3>6, SMTT(30) DEF d
    <3>8. ASSUME NEW i \in 1..Len(emitted')
          PROVE  emitted'[i] = seeded + i
      <4>1. CASE i <= Len(emitted)
        BY <3>5, <3>6, <4>1, SMTT(30)
      <4>2. CASE i > Len(emitted)
        <5>1. PICK k \in Nat : k = Len(emitted)
          BY <2>1
        <5>2. i - k \in 1..d /\ k + (i - k) = i /\ k = next_index - seeded
          BY <3>1, <3>5, <3>6, <4>2, <5>1, SMTT(30)
        <5>3. emitted'[k + (i - k)] = next_index + (i - k)
          BY <3>3, <3>6, <5>1, <5>2, Zenon
        <5>. QED  BY <1>1, <5>2, <5>3
      <4>. QED  BY <2>1, <3>6, <4>1, <4>2, SMTT(30)
    <3>. QED  BY <3>6, <3>7, <3>8, Zenon
  <2>3. CASE ~ Announces
    BY <2>1, <2>3, Zenon DEF Added
  <2>. QED  BY <2>2, <2>3, Zenon
<1>. QED  BY <1>1, <1>2, <1>5, <1>6, <1>7, <1>8, SMTT(30) DEF Listed

\* An announcement is a function, and equal to the sequence that lists it.
LEMMA AnnouncedAsListed ==
  ASSUME Listed, Announces
  PROVE  emitted = [i \in 1..(next_index - seeded) |-> seeded + i]
<1>1. PICK n \in Nat : n = Len(emitted)
  BY DEF Listed
<1>2. emitted = [i \in 1..n |-> emitted[i]]
  BY <1>1 DEF Listed
<1>3. n = next_index - seeded /\ \A i \in 1..n : emitted[i] = seeded + i
  BY <1>1, Zenon DEF Listed
<1>. QED  BY <1>2, <1>3, Zenon

\* m is l with r at its end, and the oldest request of a full l forgotten.
Carried(l, r, m) ==
  /\ m \in Seq(CaptureRequests) /\ Len(m) <= Len(Shutter)
  /\ Len(m) >= 1 /\ m[Len(m)] = r
  /\ Len(m) - 1 <= Len(l)
  /\ Len(l) < Len(Shutter) => Len(m) = Len(l) + 1
  /\ Len(l) = Len(Shutter) => Len(m) = Len(l)
  /\ \A j \in Nat : j < Len(m) - 1 => m[Len(m) - 1 - j] = l[Len(l) - j]

\* What the history remembers of a request: the request last, and the ones before it
\* as far back as the ritual is long.
LEMMA Remembered ==
  ASSUME CaptureAssumption, NEW l \in Seq(CaptureRequests), Len(l) <= Len(Shutter), NEW r \in CaptureRequests,
         NEW m, m = IF Len(Append(l, r)) <= Len(Shutter) THEN Append(l, r) ELSE Tail(Append(l, r))
  PROVE  Carried(l, r, m)
<1>1. Len(Shutter) \in Nat /\ Len(Shutter) > 0 /\ Len(l) \in Nat
  BY DEF CaptureAssumption
<1>2. /\ Append(l, r) \in Seq(CaptureRequests) /\ Len(Append(l, r)) = Len(l) + 1
      /\ \A i \in 1..Len(l) : Append(l, r)[i] = l[i]
      /\ Append(l, r)[Len(l) + 1] = r
  OBVIOUS
<1>3. CASE Len(l) < Len(Shutter)
  <2>1. m = Append(l, r)
    BY <1>1, <1>2, <1>3
  <2>. QED  BY <1>1, <1>2, <1>3, <2>1, SMTT(30) DEF Carried
<1>4. CASE Len(l) = Len(Shutter)
  <2>1. m = Tail(Append(l, r))
    BY <1>1, <1>2, <1>4, SMTT(30)
  <2>2. /\ m \in Seq(CaptureRequests) /\ Len(m) = Len(l)
        /\ \A i \in 1..Len(l) : m[i] = Append(l, r)[i + 1]
    BY <1>1, <1>2, <2>1, SMTT(30)
  <2>3. /\ m[Len(l)] = r /\ \A i \in 1..(Len(l) - 1) : m[i] = l[i + 1]
    BY <1>1, <1>2, <1>4, <2>2, SMTT(30)
  <2>4. ASSUME NEW j \in Nat, j < Len(m) - 1
        PROVE  m[Len(m) - 1 - j] = l[Len(l) - j]
    <3>1. PICK n \in Nat : n = Len(l)
      BY <1>1, Zenon
    <3>2. n - 1 - j \in 1..(n - 1) /\ (n - 1 - j) + 1 = n - j
      BY <1>1, <2>2, <2>4, <3>1, SMTT(30)
    <3>. QED  BY <2>2, <2>3, <3>1, <3>2, Zenon
  <2>5. /\ m \in Seq(CaptureRequests) /\ Len(m) <= Len(Shutter)
        /\ Len(m) >= 1 /\ m[Len(m)] = r
        /\ Len(m) - 1 <= Len(l)
        /\ Len(l) < Len(Shutter) => Len(m) = Len(l) + 1
        /\ Len(l) = Len(Shutter) => Len(m) = Len(l)
    BY <1>1, <1>4, <2>2, <2>3
  <2>. QED  BY <2>4, <2>5, Zenon DEF Carried
<1>5. Len(l) < Len(Shutter) \/ Len(l) = Len(Shutter)
  BY <1>1
<1>. QED  BY <1>3, <1>4, <1>5, Zenon

\* The last k requests of l are the first k steps of the ritual.
Fits(l, k) == k <= Len(l) /\ \A s \in 1..k : l[Len(l) - k + s] \in Shutter[s]

\* A request carries the run of the ritual on by one step, or ends it.
LEMMA FitsOn ==
  ASSUME CaptureAssumption, NEW l \in Seq(CaptureRequests), Len(l) <= Len(Shutter), NEW r \in CaptureRequests,
         NEW m, m = IF Len(Append(l, r)) <= Len(Shutter) THEN Append(l, r) ELSE Tail(Append(l, r)),
         NEW k \in Nat, k >= 1, k <= Len(Shutter)
  PROVE  Fits(m, k) <=> (Fits(l, k - 1) /\ r \in Shutter[k])
<1>1. Len(Shutter) \in Nat /\ Len(Shutter) > 0
  BY DEF CaptureAssumption
<1>2. PICK n \in Nat : n = Len(l)
  OBVIOUS
<1>0. Carried(l, r, m)
  BY Remembered, Zenon
<1>3. /\ m \in Seq(CaptureRequests) /\ Len(m) <= Len(Shutter)
      /\ Len(m) >= 1 /\ m[Len(m)] = r
      /\ Len(m) - 1 <= Len(l)
      /\ Len(l) < Len(Shutter) => Len(m) = Len(l) + 1
      /\ Len(l) = Len(Shutter) => Len(m) = Len(l)
      /\ \A j \in Nat : j < Len(m) - 1 => m[Len(m) - 1 - j] = l[Len(l) - j]
  BY <1>0, Zenon DEF Carried
<1>4. PICK p \in Nat : p = Len(m)
  BY <1>3
<1>5. /\ p <= Len(Shutter) /\ p >= 1 /\ m[p] = r /\ p - 1 <= n /\ n <= Len(Shutter)
      /\ n < Len(Shutter) => p = n + 1
      /\ n = Len(Shutter) => p = n
  BY <1>2, <1>3, <1>4, Zenon
<1>6. \A j \in Nat : j < p - 1 => m[p - 1 - j] = l[n - j]
  BY <1>2, <1>3, <1>4, Zenon
<1>7. (k <= p) <=> (k - 1 <= n)
  BY <1>1, <1>5
<1>8. ASSUME k <= p
      PROVE  \A s \in 1..(k - 1) : m[p - k + s] = l[n - (k - 1) + s]
  <2> TAKE s \in 1..(k - 1)
  <2>1. k - 1 - s \in Nat /\ k - 1 - s < p - 1
    BY <1>5, <1>8
  <2>2. m[p - 1 - (k - 1 - s)] = l[n - (k - 1 - s)]
    BY <1>6, <2>1, Zenon
  <2>3. p - 1 - (k - 1 - s) = p - k + s /\ n - (k - 1 - s) = n - (k - 1) + s
    OBVIOUS
  <2>. QED  BY <2>2, <2>3, Zenon
<1>9. ASSUME k <= p
      PROVE  (\A s \in 1..k : m[p - k + s] \in Shutter[s])
               <=> ((\A s \in 1..(k - 1) : l[n - (k - 1) + s] \in Shutter[s]) /\ r \in Shutter[k])
  <2>1. m[p - k + k] = r
    <3>1. p - k + k = p
      OBVIOUS
    <3>. QED  BY <1>5, <3>1, Zenon
  <2>2. 1..k = (1..(k - 1)) \cup {k}
    OBVIOUS
  <2>. QED  BY <1>8, <1>9, <2>1, <2>2, Zenon
<1>10. Fits(m, k) <=> (k <= p /\ \A s \in 1..k : m[p - k + s] \in Shutter[s])
  BY <1>4, Zenon DEF Fits
<1>11. Fits(l, k - 1) <=> (k - 1 <= n /\ \A s \in 1..(k - 1) : l[n - (k - 1) + s] \in Shutter[s])
  BY <1>2, Zenon DEF Fits
<1>. QED  BY <1>7, <1>9, <1>10, <1>11, Zenon

\* The longest run of the ritual at the end of the history, as far as the engine knows.
Longest(l, p) == Fits(l, p) /\ \A k \in 1..Len(Shutter) : Fits(l, k) => k <= p

\* In a ritual that does not overlap itself the engine's progress stays the longest run.
LEMMA LongestGoesOn ==
  ASSUME CaptureAssumption, RitualAssumption,
         NEW l \in Seq(CaptureRequests), Len(l) <= Len(Shutter), NEW r \in CaptureRequests,
         NEW m, m = IF Len(Append(l, r)) <= Len(Shutter) THEN Append(l, r) ELSE Tail(Append(l, r)),
         NEW p \in Nat, p < Len(Shutter), Longest(l, p),
         NEW q, q = IF r \in Shutter[p + 1] THEN p + 1 ELSE IF r \in Shutter[1] THEN 1 ELSE 0
  PROVE  Longest(m, q)
<1>1. Len(Shutter) \in Nat /\ Len(Shutter) > 0
  BY DEF CaptureAssumption
<1>2. \A k \in Nat : k >= 1 /\ k <= Len(Shutter) =>
         (Fits(m, k) <=> (Fits(l, k - 1) /\ r \in Shutter[k]))
  BY FitsOn, Zenon
<1>3. Fits(l, 0) /\ Fits(m, 0)
  <2>1. Carried(l, r, m)
    BY Remembered, Zenon
  <2>. QED  BY <2>1, SMTT(30) DEF Fits, Carried
<1>4. Fits(m, q)
  <2>1. CASE r \in Shutter[p + 1]
    <3>1. Fits(m, p + 1) <=> (Fits(l, p + 1 - 1) /\ r \in Shutter[p + 1])
      BY <1>1, <1>2
    <3>2. p + 1 - 1 = p
      OBVIOUS
    <3>. QED  BY <2>1, <3>1, <3>2, Zenon DEF Longest
  <2>2. CASE r \notin Shutter[p + 1] /\ r \in Shutter[1]
    <3>1. Fits(m, 1) <=> (Fits(l, 1 - 1) /\ r \in Shutter[1])
      BY <1>1, <1>2
    <3>2. 1 - 1 = 0
      OBVIOUS
    <3>. QED  BY <1>3, <2>2, <3>1, <3>2, Zenon
  <2>3. CASE r \notin Shutter[p + 1] /\ r \notin Shutter[1]
    BY <1>3, <2>3, Zenon
  <2>. QED  BY <2>1, <2>2, <2>3, Zenon
<1>5. ASSUME NEW k \in 1..Len(Shutter), Fits(m, k)
      PROVE  k <= q
  <2>1. k \in Nat /\ k >= 1 /\ k <= Len(Shutter) /\ k - 1 \in Nat
    BY <1>1
  <2>2. Fits(l, k - 1) /\ r \in Shutter[k]
    BY <1>2, <1>5, <2>1, Zenon
  <2>3. k - 1 <= p
    BY <1>1, <2>1, <2>2, SMTT(30) DEF Longest
  <2>4. CASE r \in Shutter[p + 1]
    BY <2>1, <2>3, <2>4, SMTT(30)
  <2>5. CASE r \notin Shutter[p + 1] /\ k = 1
    BY <2>2, <2>5, SMTT(30)
  <2>6. CASE r \notin Shutter[p + 1] /\ k > 1
    <3>1. k # p + 1
      BY <2>2, <2>6, Zenon
    <3>2. k \in 2..p /\ p \in 2..(Len(Shutter) - 1)
      BY <1>1, <2>1, <2>3, <2>6, <3>1, SMTT(30)
    <3>3. PICK s \in 1..(k - 1) : Shutter[p - k + 1 + s] \cap Shutter[s] = {}
      BY <2>2, <2>6, <3>2, Zenon DEF RitualAssumption
    <3>4. PICK n \in Nat : n = Len(l)
      OBVIOUS
    <3>5. l[n - (k - 1) + s] \in Shutter[s]
      BY <2>2, <3>4, Zenon DEF Fits
    <3>6. p - k + 1 + s \in 1..p
      BY <2>1, <3>2, SMTT(30)
    <3>7. l[n - p + (p - k + 1 + s)] \in Shutter[p - k + 1 + s]
      BY <3>4, <3>6, Zenon DEF Longest, Fits
    <3>8. n - p + (p - k + 1 + s) = n - (k - 1) + s
      BY <2>1
    <3>. QED  BY <3>3, <3>5, <3>7, <3>8, SMTT(30)
  <2>. QED  BY <2>1, <2>4, <2>5, <2>6, SMTT(30)
<1>. QED  BY <1>4, <1>5, Zenon DEF Longest

\* The ritual and its history, and with them the queue.
CaptureInv == Listed /\ Ritual

\* Both parts hold at the start.
LEMMA CaptureStarts ==
  ASSUME CaptureAssumption, CaptureInit
  PROVE  CaptureInv /\ Longest(accepted, shutter_progress)
<1>8. driven \in BOOLEAN
  BY Zenon DEF CaptureInit
<1>9. (next_index = Total /\ busy = 0) \/ (next_index \in Seeds /\ busy \in Busies)
  BY Zenon DEF CaptureInit
<1>10. Total \in Nat /\ Seeds \subseteq 0..Total /\ Busies \subseteq Nat
  BY Zenon DEF CaptureAssumption
<1>1. next_index \in Nat /\ next_index <= Total /\ busy \in Nat
  <2>1. next_index = Total \/ next_index \in 0..Total
    BY <1>9, <1>10, Zenon
  <2>2. busy = 0 \/ busy \in Nat
    BY <1>9, <1>10, Zenon
  <2>. QED  BY <1>10, <2>1, <2>2
<1>2. IsFiniteSet(1..next_index) /\ Cardinality(1..next_index) = next_index
  <2>1. 1 \in Int /\ next_index \in Int
    BY <1>1
  <2>2. IsFiniteSet(1..next_index)
        /\ Cardinality(1..next_index) = IF 1 > next_index THEN 0 ELSE next_index - 1 + 1
    BY <2>1, FS_Interval, Zenon
  <2>. QED  BY <1>1, <2>2
<1>3. Listed
  BY <1>1, <1>2 DEF Listed, CaptureInit
<1>4. accepted \in Seq(CaptureRequests) /\ Len(accepted) = 0 /\ shutter_progress = 0 /\ Len(Shutter) \in Nat /\ Len(Shutter) > 0
  BY DEF CaptureInit, CaptureAssumption
<1>5. RunsBack(shutter_progress)
  BY <1>4 DEF RunsBack
<1>6. Ritual
  BY <1>1, <1>4, <1>5, <1>8, SMTT(30) DEF Ritual
<1>7. Longest(accepted, shutter_progress)
  BY <1>4 DEF Longest, Fits
<1>. QED  BY <1>3, <1>6, <1>7, Zenon DEF CaptureInv

\* A deletion takes one object from the queue to the completed ones.
LEMMA DeletionKeeps ==
  ASSUME CaptureAssumption, Listed, NEW h \in available, available' = available \ {h},
         completed' = completed + 1, UNCHANGED <<next_index, emitted, seeded>>
  PROVE  Listed'
<1>1. /\ IsFiniteSet(available) /\ Cardinality(available) + completed = next_index
      /\ completed \in Nat /\ next_index \in Nat /\ Cardinality(available) \in Nat
  BY FS_CardinalityType, Zenon DEF Listed
<1>2. IsFiniteSet(available') /\ Cardinality(available') = Cardinality(available) - 1
  BY <1>1, FS_RemoveElement, Zenon
<1>3. Cardinality(available') + completed' = next_index' /\ completed' \in Nat
  BY <1>1, <1>2
<1>. QED  BY <1>2, <1>3, Zenon DEF Listed

\* Every step keeps both parts.
LEMMA CaptureStep ==
  ASSUME CaptureAssumption, CaptureInv, [CaptureNext]_captureVars
  PROVE  CaptureInv'
<1>1. /\ Len(Shutter) \in Nat /\ Len(Shutter) > 0 /\ PerShutter \in Nat
      /\ accepted \in Seq(CaptureRequests) /\ Len(accepted) <= Len(Shutter) /\ shutter_progress \in Nat
      /\ shutter_progress < Len(Shutter) /\ busy \in Nat
  BY DEF CaptureAssumption, CaptureInv, Ritual
<1>2. driven \in BOOLEAN /\ Listed /\ (driven => RunsBack(shutter_progress))
  BY Zenon DEF CaptureInv, Ritual
<1>3. ASSUME shutter_progress' = 0, accepted' = <<>>, UNCHANGED <<driven, busy>>
      PROVE  Ritual'
  <2>1. accepted' \in Seq(CaptureRequests) /\ Len(accepted') = 0
    BY <1>3
  <2>2. RunsBack(shutter_progress)'
    BY <1>3, <2>1 DEF RunsBack
  <2>. QED  BY <1>1, <1>2, <1>3, <2>1, <2>2, SMTT(30) DEF Ritual
<1>4. ASSUME NEW r \in CaptureRequests, Request(r)
      PROVE  CaptureInv'
  <2>1. CASE driven /\ Advance(r) >= Len(Shutter)
    <3>1. Added(PerShutter) /\ shutter_progress' = 0 /\ accepted' = <<>>
          /\ UNCHANGED <<driven, busy, completed, seeded>>
      BY <1>4, <2>1, Zenon DEF Request, SucceedCapture
    <3>. QED  BY <1>1, <1>2, <1>3, <3>1, AddedKeeps, SMTT(30) DEF CaptureInv
  <2>2. CASE ~ (driven /\ Advance(r) >= Len(Shutter))
    <3>1. /\ shutter_progress' = IF driven THEN Advance(r) ELSE shutter_progress
          /\ accepted' = IF driven THEN Remember(r) ELSE accepted
          /\ UNCHANGED <<available, next_index, emitted, driven, busy, completed, seeded>>
      BY <1>4, <2>2, Zenon DEF Request, SucceedCapture
    <3>2. Listed'
      BY <1>2, <3>1, Zenon DEF Listed
    <3>3. CASE driven
      <4> DEFINE m == Remember(r)
                 q == Advance(r)
      <4>1. m = IF Len(Append(accepted, r)) <= Len(Shutter) THEN Append(accepted, r) ELSE Tail(Append(accepted, r))
        BY Zenon DEF Remember
      <4>2. q = IF r \in Shutter[shutter_progress + 1] THEN shutter_progress + 1 ELSE IF r \in Shutter[1] THEN 1 ELSE 0
        BY Zenon DEF Advance
      <4>3. accepted' = m /\ shutter_progress' = q
        BY <3>1, <3>3, Zenon
      <4>4. ~ (q >= Len(Shutter))
        BY <2>2, <3>3, Zenon
      <4> HIDE DEF m, q
      <4>5. Carried(accepted, r, m)
        BY <1>1, <4>1, Remembered, Zenon
      <4>6. q \in Nat /\ q < Len(Shutter)
        BY <1>1, <4>2, <4>4, SMTT(30)
      <4>7. Fits(m, q)
        <5>1. \A k \in Nat : k >= 1 /\ k <= Len(Shutter) =>
                 (Fits(m, k) <=> (Fits(accepted, k - 1) /\ r \in Shutter[k]))
          BY <1>1, <4>1, FitsOn, Zenon
        <5>2. Fits(accepted, shutter_progress)
          BY <1>2, <3>3, Zenon DEF RunsBack, Fits
        <5>3. Fits(accepted, 0) /\ Fits(m, 0)
          BY <1>1, <4>5, SMTT(30) DEF Fits, Carried
        <5>4. CASE r \in Shutter[shutter_progress + 1]
          <6>1. Fits(m, shutter_progress + 1) <=> (Fits(accepted, shutter_progress + 1 - 1) /\ r \in Shutter[shutter_progress + 1])
            BY <1>1, <5>1
          <6>2. shutter_progress + 1 - 1 = shutter_progress
            BY <1>1, SMTT(30)
          <6>. QED  BY <4>2, <5>2, <5>4, <6>1, <6>2, Zenon
        <5>5. CASE r \notin Shutter[shutter_progress + 1] /\ r \in Shutter[1]
          <6>1. Fits(m, 1) <=> (Fits(accepted, 1 - 1) /\ r \in Shutter[1])
            BY <1>1, <5>1
          <6>2. 1 - 1 = 0
            OBVIOUS
          <6>. QED  BY <4>2, <5>3, <5>5, <6>1, <6>2, Zenon
        <5>6. CASE r \notin Shutter[shutter_progress + 1] /\ r \notin Shutter[1]
          BY <4>2, <5>3, <5>6, Zenon
        <5>. QED  BY <5>4, <5>5, <5>6, Zenon
      <4>8. RunsBack(shutter_progress)'
        BY <4>3, <4>7, Zenon DEF RunsBack, Fits
      <4>9. accepted' \in Seq(CaptureRequests) /\ Len(accepted') <= Len(Shutter) /\ shutter_progress' \in Nat
            /\ shutter_progress' < Len(Shutter)
        BY <4>3, <4>5, <4>6, Zenon DEF Carried
      <4>. QED  BY <1>1, <1>2, <3>1, <3>2, <4>8, <4>9, SMTT(30) DEF Ritual, CaptureInv
    <3>4. CASE ~ driven
      BY <1>1, <3>1, <3>2, <3>4, Zenon DEF Ritual, CaptureInv, RunsBack
    <3>. QED  BY <3>3, <3>4, Zenon
  <2>. QED  BY <2>1, <2>2, Zenon
<1>5. ASSUME NEW r \in CaptureRequests, BusyReply(r)
      PROVE  CaptureInv'
  <2>1. /\ busy > 0 /\ busy' = busy - 1
        /\ UNCHANGED <<driven, available, next_index, completed, shutter_progress, emitted, seeded, accepted>>
    BY <1>5, Zenon DEF BusyReply, IsBusy
  <2>2. busy' \in Nat
    BY <1>1, <2>1
  <2>. QED  BY <2>1, <2>2, Zenon DEF CaptureInv, Listed, Ritual, RunsBack
<1>6. ASSUME NEW h \in 1..Total, DeleteObject(h)
      PROVE  CaptureInv'
  <2>1. Listed'
    BY <1>2, <1>6, DeletionKeeps, Zenon DEF DeleteObject
  <2>2. Ritual'
    BY <1>3, <1>6, Zenon DEF DeleteObject
  <2>. QED  BY <2>1, <2>2, Zenon DEF CaptureInv
<1>7. ASSUME NEW n \in 1..MaxAction, ResponderAction(n)
      PROVE  CaptureInv'
  <2>1. n \in Nat
    BY DEF CaptureAssumption
  <2>2. Added(n) /\ UNCHANGED <<driven, completed, shutter_progress, busy, seeded, accepted>>
    BY <1>7, Zenon DEF ResponderAction
  <2>3. Listed'
    BY <1>2, <2>1, <2>2, AddedKeeps, Zenon
  <2>. QED  BY <2>2, <2>3, Zenon DEF CaptureInv, Ritual, RunsBack
<1>8. CASE UNCHANGED captureVars
  BY <1>8, Zenon DEF captureVars, CaptureInv, Listed, Ritual, RunsBack
<1>. QED  BY <1>4, <1>5, <1>6, <1>7, <1>8, Zenon DEF CaptureNext

\* In a ritual that does not overlap itself no step loses a run of it.
LEMMA LongestStep ==
  ASSUME CaptureAssumption, RitualAssumption, CaptureInv, driven => Longest(accepted, shutter_progress), [CaptureNext]_captureVars
  PROVE  (driven => Longest(accepted, shutter_progress))'
<1>1. /\ Len(Shutter) \in Nat /\ Len(Shutter) > 0
      /\ accepted \in Seq(CaptureRequests) /\ Len(accepted) <= Len(Shutter) /\ shutter_progress \in Nat
      /\ shutter_progress < Len(Shutter)
  BY SMTT(30) DEF CaptureAssumption, CaptureInv, Ritual
<1>2. ASSUME shutter_progress' = 0, accepted' = <<>>
      PROVE  Longest(accepted, shutter_progress)'
  <2>1. Len(accepted') = 0
    BY <1>2, Zenon
  <2>. QED  BY <1>1, <1>2, <2>1, SMTT(30) DEF Longest, Fits
<1>3. ASSUME UNCHANGED <<driven, shutter_progress, accepted>>
      PROVE  (driven => Longest(accepted, shutter_progress))'
  BY <1>3, Zenon DEF Longest, Fits
<1>4. ASSUME NEW r \in CaptureRequests, Request(r), driven
      PROVE  Longest(accepted, shutter_progress)'
  <2>1. CASE Advance(r) >= Len(Shutter)
    BY <1>2, <1>4, <2>1, Zenon DEF Request, SucceedCapture
  <2>2. CASE ~ (Advance(r) >= Len(Shutter))
    <3> DEFINE m == Remember(r)
               q == Advance(r)
    <3>1. m = IF Len(Append(accepted, r)) <= Len(Shutter) THEN Append(accepted, r) ELSE Tail(Append(accepted, r))
      BY Zenon DEF Remember
    <3>2. q = IF r \in Shutter[shutter_progress + 1] THEN shutter_progress + 1 ELSE IF r \in Shutter[1] THEN 1 ELSE 0
      BY Zenon DEF Advance
    <3>3. accepted' = m /\ shutter_progress' = q
      BY <1>4, <2>2, Zenon DEF Request, SucceedCapture
    <3> HIDE DEF m, q
    <3>4. Longest(m, q)
      BY <1>1, <1>4, <3>1, <3>2, LongestGoesOn, Zenon
    <3>. QED  BY <3>3, <3>4, Zenon DEF Longest, Fits
  <2>. QED  BY <2>1, <2>2, Zenon
<1>5. ASSUME NEW r \in CaptureRequests, Request(r)
      PROVE  (driven => Longest(accepted, shutter_progress))'
  <2>1. driven' = driven
    BY <1>5, Zenon DEF Request
  <2>. QED  BY <1>4, <1>5, <2>1, Zenon
<1>6. ASSUME NEW r \in CaptureRequests, BusyReply(r)
      PROVE  (driven => Longest(accepted, shutter_progress))'
  BY <1>3, <1>6, Zenon DEF BusyReply
<1>7. ASSUME NEW h \in 1..Total, DeleteObject(h)
      PROVE  (driven => Longest(accepted, shutter_progress))'
  BY <1>2, <1>7, Zenon DEF DeleteObject
<1>8. ASSUME NEW n \in 1..MaxAction, ResponderAction(n)
      PROVE  (driven => Longest(accepted, shutter_progress))'
  BY <1>3, <1>8, Zenon DEF ResponderAction
<1>9. CASE UNCHANGED captureVars
  BY <1>3, <1>9, Zenon DEF captureVars
<1>. QED  BY <1>5, <1>6, <1>7, <1>8, <1>9, SMTT(30) DEF CaptureNext

\* What the invariant says of the queue, and of the ritual.
LEMMA CaptureMeans ==
  ASSUME CaptureAssumption, CaptureInv
  PROVE  QueueIsExact /\ ShutterIsEarned
<1>1. /\ Total \in Nat /\ next_index \in Nat /\ next_index <= Total /\ completed \in Nat
      /\ seeded \in Nat /\ seeded <= next_index /\ Len(Shutter) \in Nat
      /\ available \subseteq 1..next_index /\ Cardinality(available) \in Nat
      /\ Cardinality(available) + completed = next_index
  BY FS_CardinalityType DEF CaptureAssumption, CaptureInv, Listed
<1>2. available \subseteq 1..Total /\ completed \in 0..Total
  BY <1>1
<1>3. shutter_progress \in 0..(Len(Shutter) - 1) /\ busy \in Nat /\ accepted \in Seq(CaptureRequests)
  BY <1>1 DEF CaptureInv, Ritual
<1>4. emitted \in Seq(1..Total)
  BY Zenon DEF CaptureInv, Listed, Numbers
<1>5. driven \in BOOLEAN /\ ShutterIsEarned
  BY Zenon DEF CaptureInv, Ritual, ShutterIsEarned
<1>6. CaptureTypeOK
  BY <1>1, <1>2, <1>3, <1>4, <1>5, SMTT(30) DEF CaptureTypeOK
<1>7. AnnouncedInOrder
  BY AnnouncedAsListed, Zenon DEF CaptureInv, AnnouncedInOrder
<1>. QED  BY <1>1, <1>5, <1>6, <1>7, Zenon DEF QueueIsExact, StatsAddUp

\* For every catalog, budget and shutter ritual: the queue's objects are announced and
\* counted once, and an object of the shutter needs all of its steps, one after the other
\* (enqueue_standard_objects, advance_transfer_queue, complete_standard_object).
THEOREM ShutterHolds == CaptureSpec => [](QueueIsExact /\ ShutterIsEarned)
<1> USE CaptureAssumption
<1>1. CaptureInit => CaptureInv
  BY CaptureStarts, Zenon
<1>2. CaptureInv /\ [CaptureNext]_captureVars => CaptureInv'
  BY CaptureStep, Zenon
<1>3. CaptureInv => QueueIsExact /\ ShutterIsEarned
  BY CaptureMeans, Zenon
<1>. QED  BY <1>1, <1>2, <1>3, PTL DEF CaptureSpec

\* For every ritual that does not overlap itself, captures are exact: no complete ritual
\* is missed either.
THEOREM CapturesHold ==
  ASSUME RitualAssumption
  PROVE  CaptureSpec => []CapturesAreExact
<1> USE CaptureAssumption
<1> DEFINE Inv == CaptureInv /\ (driven => Longest(accepted, shutter_progress))
<1>1. CaptureInit => Inv
  BY CaptureStarts, Zenon
<1>2. Inv /\ [CaptureNext]_captureVars => Inv'
  BY CaptureStep, LongestStep, Zenon
<1>3. Inv => CapturesAreExact
  <2> SUFFICES ASSUME Inv  PROVE CapturesAreExact
    OBVIOUS
  <2>1. QueueIsExact /\ ShutterIsEarned
    BY CaptureMeans, Zenon
  <2>2. Len(Shutter) \in 1..Len(Shutter) /\ shutter_progress \in Nat /\ shutter_progress < Len(Shutter)
    BY DEF CaptureAssumption, CaptureInv, Ritual
  <2>3. ASSUME driven, RunsBack(Len(Shutter))
        PROVE  FALSE
    <3>1. Fits(accepted, Len(Shutter)) /\ Longest(accepted, shutter_progress)
      BY <2>3, Zenon DEF RunsBack, Fits
    <3>. QED  BY <2>2, <3>1 DEF Longest
  <2>. QED  BY <2>1, <2>3, Zenon DEF CapturesAreExact, ShutterIsExact, CaptureIsNotMissed
<1> HIDE DEF Inv
<1>. QED  BY <1>1, <1>2, <1>3, PTL DEF CaptureSpec
=============================================================================
