----------------------------- MODULE WireProofs -----------------------------
(***************************************************************************)
(* Proofs about FrameReader and DataIn: how the bytes of a connection      *)
(* become frames and how packets become a data phase.  ReaderIsExact needs *)
(* which part of the next frame the reader holds, in its prefix or in its  *)
(* body (InPrefix, InBody), and that Ends are the sums of the lengths.     *)
(* AcceptsExactly needs what the packets read so far look like at each     *)
(* stage of the collector (Collected).  Sums over a sequence are reasoned  *)
(* about by induction over the set of lengths for which a fact holds.      *)
(***************************************************************************)
EXTENDS FrameReader, DataIn, WellFoundedInduction, NaturalsInduction, TLAPS

\* Every non-empty set of naturals has a least element.
LEMMA LeastElement ==
  ASSUME NEW T \in SUBSET Nat, T # {}
  PROVE  \E m \in T : \A k \in T : m <= k
<1> DEFINE R == {ss \in Nat \X Nat : ss[1] < ss[2]}
<1>1. IsWellFoundedOn(OpToRel(<, Nat), Nat)
  BY NatLessThanWellFounded
<1>2. OpToRel(<, Nat) = R
  BY DEF OpToRel
<1>3. IsWellFoundedOn(R, Nat)
  BY <1>1, <1>2
<1> HIDE DEF R
<1>4. PICK x \in T : \A y \in T : ~ (<<y, x>> \in R)
  BY <1>3, WFMin, Zenon
<1>5. ASSUME NEW k \in T
      PROVE  x <= k
  <2>1. x \in Nat /\ k \in Nat /\ <<k, x>> \notin R
    BY <1>4
  <2>2. ~ (k < x)
    BY <2>1 DEF R
  <2>. QED  BY <2>1, <2>2
<1>. QED  BY <1>5

\* A set of naturals with 0 and with the successor of each of its members is Nat.
LEMMA Induction ==
  ASSUME NEW P \in SUBSET Nat, 0 \in P, \A n \in P : n + 1 \in P
  PROVE  P = Nat
<1> SUFFICES ASSUME Nat \ P # {}
             PROVE  FALSE
  BY Zenon
<1>1. PICK m \in Nat \ P : \A k \in Nat \ P : m <= k
  BY LeastElement, Zenon
<1>2. m - 1 \in Nat /\ m - 1 < m
  BY <1>1
<1>3. m - 1 \in P
  BY <1>1, <1>2
<1>. QED  BY <1>1, <1>2, <1>3

\* The sums of the beginnings of a sequence of naturals exist.
LEMMA PartialSums ==
  ASSUME NEW n \in Nat, NEW w \in [1..n -> Nat]
  PROVE  \E f \in [0..n -> Nat] : f[0] = 0 /\ \A i \in 1..n : f[i] = f[i - 1] + w[i]
<1> DEFINE Partial(k) == \E f \in [0..k -> Nat] : f[0] = 0 /\ \A i \in 1..k : f[i] = f[i - 1] + w[i]
           P == {k \in Nat : k <= n => Partial(k)}
<1>1. 0 \in P
  <2> DEFINE f == [i \in 0..0 |-> 0]
  <2>1. f \in [0..0 -> Nat] /\ f[0] = 0 /\ 1..0 = {}
    OBVIOUS
  <2> HIDE DEF f
  <2>2. Partial(0)
    BY <2>1
  <2>. QED  BY <2>2
<1>2. ASSUME NEW k \in P
      PROVE  k + 1 \in P
  <2> HIDE DEF Partial
  <2> SUFFICES ASSUME k + 1 <= n
               PROVE  Partial(k + 1)
    OBVIOUS
  <2>1. k \in Nat /\ k <= n /\ Partial(k)
    OBVIOUS
  <2> USE DEF Partial
  <2>2. PICK f \in [0..k -> Nat] : f[0] = 0 /\ \A i \in 1..k : f[i] = f[i - 1] + w[i]
    BY <2>1, Zenon
  <2> DEFINE g == [i \in 0..(k + 1) |-> IF i = k + 1 THEN f[k] + w[k + 1] ELSE f[i]]
  <2>3. f[k] + w[k + 1] \in Nat
    BY <2>1, <2>2
  <2>4. g \in [0..(k + 1) -> Nat]
    BY <2>1, <2>2, <2>3
  <2>5. g[0] = 0 /\ g[k + 1] = f[k] + w[k + 1] /\ \A i \in 0..k : g[i] = f[i]
    BY <2>1, <2>2
  <2> HIDE DEF g
  <2>6. ASSUME NEW i \in 1..(k + 1)
        PROVE  g[i] = g[i - 1] + w[i]
    <3>1. CASE i = k + 1
      <4>1. i - 1 = k /\ k \in 0..k
        BY <2>1, <3>1
      <4>. QED  BY <2>5, <3>1, <4>1
    <3>2. CASE i # k + 1
      <4>1. i \in 1..k /\ i - 1 \in 0..k /\ i \in 0..k
        BY <2>1, <3>2
      <4>. QED  BY <2>2, <2>5, <4>1, Zenon
    <3>. QED  BY <3>1, <3>2
  <2>. QED  BY <2>4, <2>5, <2>6, Zenon
<1>3. P \in SUBSET Nat
  OBVIOUS
<1> HIDE DEF P
<1>4. P = Nat
  BY <1>1, <1>2, <1>3, Induction, Zenon
<1> HIDE DEF Partial
<1>5. Partial(n)
  BY <1>4 DEF P
<1>. QED  BY <1>5, Zenon DEF Partial

\* What is at most a bound is below it or is the bound.
LEMMA AtMost ==
  ASSUME NEW a \in Nat, NEW b \in Nat, a <= b
  PROVE  a < b \/ a = b
OBVIOUS

\* What lies behind a start is what was counted from it.
LEMMA FromStart ==
  ASSUME NEW a \in Nat, NEW b \in Nat, NEW c \in Nat
  PROVE  ((a + b) + c) - a = b + c /\ b + c \in Nat
OBVIOUS

\* More frames have at least as much time.
LEMMA TimesGrows ==
  ASSUME NEW a \in Nat, NEW b \in Nat, NEW t \in Nat, a <= b
  PROVE  a * t <= b * t /\ a * t \in Nat /\ b * t \in Nat
OBVIOUS

-----------------------------------------------------------------------------
\* The ends of the frames in the stream are the sums of their lengths.
LEMMA EndsAreSums ==
  ASSUME ReaderAssumption
  PROVE  /\ Len(Lengths) \in Nat
         /\ Ends \in [0..Len(Lengths) -> Nat]
         /\ Ends[0] = 0
         /\ \A i \in 1..Len(Lengths) : Lengths[i] \in Nat /\ Ends[i] = Ends[i - 1] + Lengths[i]
<1> DEFINE n == Len(Lengths)
           Def(f) == [i \in 0..n |-> IF i = 0 THEN 0 ELSE f[i - 1] + Lengths[i]]
<1>1. n \in Nat /\ Lengths \in [1..n -> Nat] /\ \A i \in 1..n : Lengths[i] \in Nat
  BY DEF ReaderAssumption
<1> HIDE DEF n
<1>2. PICK f \in [0..n -> Nat] : f[0] = 0 /\ \A i \in 1..n : f[i] = f[i - 1] + Lengths[i]
  BY <1>1, PartialSums, Zenon
<1>3. f = Def(f)
  BY <1>1, <1>2
<1> DEFINE g == Ends
<1>4. g = Def(g)
  BY <1>3 DEF Ends, n
<1> HIDE DEF g
<1>5. g[0] = 0 /\ \A i \in 1..n : g[i] = g[i - 1] + Lengths[i]
  <2>1. n \in Nat /\ 0 \in 0..n /\ \A i \in 1..n : i \in 0..n /\ i # 0
    BY <1>1
  <2>2. \A i \in 0..n : g[i] = IF i = 0 THEN 0 ELSE g[i - 1] + Lengths[i]
    BY <1>4, Zenon
  <2>. QED  BY <2>1, <2>2
<1>6. g = [i \in 0..n |-> g[i]]
  BY <1>4
<1>7. \A i \in 0..n : g[i] = f[i]
  <2> DEFINE P == {i \in Nat : i \in 0..n => g[i] = f[i]}
  <2>1. 0 \in P
    BY <1>2, <1>5
  <2>2. ASSUME NEW i \in P
        PROVE  i + 1 \in P
    <3> SUFFICES ASSUME i + 1 \in 0..n
                 PROVE  g[i + 1] = f[i + 1]
      OBVIOUS
    <3>1. i + 1 \in 1..n /\ i \in 0..n /\ (i + 1) - 1 = i
      BY <1>1
    <3>. QED  BY <1>2, <1>5, <3>1
  <2>3. P \in SUBSET Nat
    OBVIOUS
  <2> HIDE DEF P
  <2>4. P = Nat
    BY <2>1, <2>2, <2>3, Induction, Zenon
  <2>. QED  BY <1>1, <2>4, SMTT(30) DEF P
<1>8. g \in [0..n -> Nat]
  BY <1>2, <1>6, <1>7
<1>. QED  BY <1>1, <1>5, <1>8 DEF g, n

\* Later frames end later.
LEMMA EndsGrow ==
  ASSUME ReaderAssumption, NEW i \in 0..Len(Lengths), NEW j \in 0..Len(Lengths), i < j
  PROVE  Ends[i] < Ends[j]
<1> DEFINE n == Len(Lengths)
           P == {k \in Nat : i < k /\ k <= n => Ends[i] < Ends[k]}
<1>1. /\ n \in Nat /\ Ends \in [0..n -> Nat]
      /\ \A k \in 1..n : Lengths[k] \in Nat /\ Ends[k] = Ends[k - 1] + Lengths[k]
  BY EndsAreSums
<1>2. \A k \in 1..n : Lengths[k] >= 1
  <2>1. Prefix \in Nat /\ Prefix >= 1 /\ \A k \in 1..n : Lengths[k] >= Prefix
    BY DEF ReaderAssumption
  <2>. QED  BY <1>1, <2>1
<1> HIDE DEF n
<1>3. 0 \in P
  BY DEF n
<1>4. ASSUME NEW k \in P
      PROVE  k + 1 \in P
  <2> SUFFICES ASSUME i < k + 1, k + 1 <= n
               PROVE  Ends[i] < Ends[k + 1]
    OBVIOUS
  <2>1. k + 1 \in 1..n /\ k \in 0..n /\ (k + 1) - 1 = k /\ i \in 0..n
    BY <1>1 DEF n
  <2>2. Ends[k + 1] = Ends[k] + Lengths[k + 1] /\ Lengths[k + 1] \in Nat /\ Lengths[k + 1] >= 1
    BY <1>1, <1>2, <2>1, Zenon
  <2>3. Ends[k] \in Nat /\ Ends[i] \in Nat
    BY <1>1, <2>1
  <2>4. CASE i = k
    BY <2>2, <2>3, <2>4
  <2>5. CASE i < k
    <3>1. Ends[i] < Ends[k]
      BY <1>1, <2>1, <2>5
    <3>. QED  BY <2>2, <2>3, <3>1, SMTT(30)
  <2>. QED  BY <2>1, <2>4, <2>5
<1>5. P \in SUBSET Nat
  OBVIOUS
<1> HIDE DEF P
<1>6. P = Nat
  BY <1>3, <1>4, <1>5, Induction, Zenon
<1>. QED  BY <1>1, <1>6 DEF P, n

\* The first m bytes of frame i.
Part(i, m) == [j \in 1..m |-> <<i, j>>]

\* A byte of the stream belongs to the frame whose ends it lies between.
LEMMA ByteOfFrame ==
  ASSUME ReaderAssumption, NEW i \in Nat, i \in 1..Len(Lengths),
         NEW k \in Nat, k >= 1, k <= Lengths[i]
  PROVE  ByteAt(Ends[i - 1] + k) = <<i, k>>
<1> DEFINE n == Len(Lengths)
           p == Ends[i - 1] + k
           At(j) == Ends[j - 1] < p /\ p <= Ends[j]
<1>1. /\ n \in Nat /\ Ends \in [0..n -> Nat]
      /\ \A j \in 1..n : Lengths[j] \in Nat /\ Ends[j] = Ends[j - 1] + Lengths[j]
  BY EndsAreSums
<1>0. i \in 1..n
  OBVIOUS
<1> HIDE DEF n
<1>2. /\ i - 1 \in 0..n /\ Ends[i - 1] \in Nat /\ Lengths[i] \in Nat
      /\ Ends[i] = Ends[i - 1] + Lengths[i]
  BY <1>0, <1>1
<1>3. p \in Nat /\ k \in Nat /\ At(i) /\ p - Ends[i - 1] = k
  BY <1>2, SMTT(30)
<1> HIDE DEF p
<1>4. ASSUME NEW j \in Nat, j \in 1..n, At(j)
      PROVE  j = i
  <2>1. /\ i \in 1..n /\ i \in 0..n /\ j \in 0..n /\ i - 1 \in 0..n /\ j - 1 \in 0..n
        /\ Ends[i] \in Nat /\ Ends[j] \in Nat /\ Ends[i - 1] \in Nat /\ Ends[j - 1] \in Nat
    BY <1>0, <1>1, <1>4
  <2>2. CASE i < j
    <3>1. i = j - 1 \/ i < j - 1
      BY <2>1, <2>2
    <3>2. i < j - 1 => Ends[i] < Ends[j - 1]
      BY <2>1, EndsGrow, Zenon DEF n
    <3>3. Ends[i] <= Ends[j - 1]
      BY <2>1, <3>1, <3>2
    <3>. QED  BY <1>3, <1>4, <2>1, <3>3
  <2>3. CASE j < i
    <3>1. j = i - 1 \/ j < i - 1
      BY <2>1, <2>3
    <3>2. j < i - 1 => Ends[j] < Ends[i - 1]
      BY <2>1, EndsGrow, Zenon DEF n
    <3>3. Ends[j] <= Ends[i - 1]
      BY <2>1, <3>1, <3>2, SMTT(30)
    <3>. QED  BY <1>3, <1>4, <2>1, <3>3, SMTT(30)
  <2>. QED  BY <2>1, <2>2, <2>3
<1>5. (CHOOSE j \in 1..n : At(j)) = i
  BY <1>3, <1>4 DEF n
<1>. QED  BY <1>3, <1>5, Zenon DEF ByteAt, n, p

\* A byte is its frame and its place in it.
Byte == Nat \X Nat

\* A part of a frame is a sequence of that many bytes.
LEMMA PartIsSequence ==
  ASSUME NEW i \in Nat, NEW m \in Nat
  PROVE  /\ Part(i, m) \in Seq(Byte)
         /\ Len(Part(i, m)) = m
         /\ Part(i, m) = <<>> <=> m = 0
         /\ m >= 1 => Part(i, m)[1] = <<i, 1>>
<1>1. \A j \in 1..m : <<i, j>> \in Byte
  BY DEF Byte
<1>2. Part(i, m) \in [1..m -> Byte]
  BY <1>1 DEF Part
<1>3. Part(i, m) \in Seq(Byte) /\ Len(Part(i, m)) = m
  BY <1>2
<1>4. m >= 1 => Part(i, m)[1] = <<i, 1>>
  BY DEF Part
<1>5. m = 0 => Part(i, m) = <<>>
  BY <1>3
<1>6. Part(i, m) = <<>> => m = 0
  BY <1>3
<1>. QED  BY <1>3, <1>4, <1>5, <1>6

\* What is joined: the elements of one sequence and then those of the other.
LEMMA Joined ==
  \A a, b \in Seq(Byte) :
     /\ a \o b \in Seq(Byte)
     /\ Len(a \o b) = Len(a) + Len(b)
     /\ \A j \in 1..Len(a) : (a \o b)[j] = a[j]
     /\ \A j \in 1..Len(b) : (a \o b)[Len(a) + j] = b[j]
OBVIOUS

\* Two sequences of one length with the same elements are equal.
LEMMA SameElements ==
  ASSUME NEW S, NEW a \in Seq(S), NEW b \in Seq(S), Len(a) = Len(b),
         \A j \in 1..Len(a) : a[j] = b[j]
  PROVE  a = b
OBVIOUS

\* Reading on in a frame gives a longer part of it.
LEMMA ReadingOn ==
  ASSUME ReaderAssumption, NEW i \in Nat, i \in 1..Len(Lengths), NEW m \in Nat, NEW q \in Nat,
         m + q <= Lengths[i]
  PROVE  Part(i, m) \o Stream(Ends[i - 1] + m, q) = Part(i, m + q)
<1> DEFINE e == Ends[i - 1]
           a == Part(i, m)
           b == Stream(e + m, q)
<1>1. e \in Nat /\ Lengths[i] \in Nat
  <2>1. /\ Len(Lengths) \in Nat /\ Ends \in [0..Len(Lengths) -> Nat]
        /\ \A j \in 1..Len(Lengths) : Lengths[j] \in Nat
    BY EndsAreSums
  <2>2. i - 1 \in 0..Len(Lengths)
    BY <2>1
  <2>. QED  BY <2>1, <2>2, Zenon
<1> HIDE DEF e
<1>2. \A j \in 1..q : b[j] = <<i, m + j>> /\ <<i, m + j>> \in Byte
  <2> SUFFICES ASSUME NEW j \in 1..q
               PROVE  b[j] = <<i, m + j>> /\ <<i, m + j>> \in Byte
    OBVIOUS
  <2>1. j \in Nat /\ m + j \in Nat /\ m + j >= 1 /\ m + j <= Lengths[i]
    BY <1>1
  <2>2. b[j] = ByteAt((e + m) + j)
    BY DEF Stream
  <2>3. (e + m) + j = e + (m + j)
    BY <1>1, <2>1
  <2>4. ByteAt(e + (m + j)) = <<i, m + j>>
    BY <2>1, ByteOfFrame, Zenon DEF e
  <2>5. <<i, m + j>> \in Byte
    BY <2>1 DEF Byte
  <2>. QED  BY <2>2, <2>3, <2>4, <2>5
<1>3. b \in Seq(Byte) /\ Len(b) = q
  <2>1. b = [j \in 1..q |-> b[j]]
    BY DEF Stream
  <2> HIDE DEF b
  <2>2. b \in [1..q -> Byte]
    BY <1>2, <2>1, Zenon
  <2>. QED  BY <2>2
<1>4. a \in Seq(Byte) /\ Len(a) = m /\ \A j \in 1..m : a[j] = <<i, j>>
  BY PartIsSequence, Zenon DEF Part
<1> HIDE DEF a, b
<1> DEFINE c == a \o b
<1>5. /\ c \in Seq(Byte) /\ Len(c) = m + q
      /\ \A j \in 1..m : c[j] = a[j]
      /\ \A j \in 1..q : c[m + j] = b[j]
  <2>1. /\ a \o b \in Seq(Byte)
        /\ Len(a \o b) = Len(a) + Len(b)
        /\ \A j \in 1..Len(a) : (a \o b)[j] = a[j]
        /\ \A j \in 1..Len(b) : (a \o b)[Len(a) + j] = b[j]
    BY <1>3, <1>4, Joined, Zenon
  <2>. QED  BY <1>3, <1>4, <2>1, Zenon
<1> HIDE DEF c
<1>6. ASSUME NEW j \in 1..(m + q)
      PROVE  c[j] = <<i, j>>
  <2>1. CASE j <= m
    <3>1. j \in 1..m
      BY <2>1
    <3>. QED  BY <1>4, <1>5, <3>1
  <2>2. CASE j > m
    <3>1. j - m \in 1..q /\ m + (j - m) = j
      BY <2>2
    <3>2. c[m + (j - m)] = b[j - m] /\ b[j - m] = <<i, m + (j - m)>>
      BY <1>2, <1>5, <3>1, Zenon
    <3>. QED  BY <3>1, <3>2
  <2>. QED  BY <2>1, <2>2
<1>7. Part(i, m + q) \in Seq(Byte) /\ Len(Part(i, m + q)) = m + q
      /\ \A j \in 1..(m + q) : Part(i, m + q)[j] = <<i, j>>
  <2>1. m + q \in Nat
    OBVIOUS
  <2>2. \A j \in 1..(m + q) : Part(i, m + q)[j] = <<i, j>>
    BY DEF Part
  <2>. QED  BY <2>1, <2>2, PartIsSequence, Zenon
<1>8. c = Part(i, m + q)
  BY <1>5, <1>6, <1>7, SameElements, Zenon
<1>. QED  BY <1>8 DEF c, a, b, e

-----------------------------------------------------------------------------
\* How much is read of the frame that comes next.
Held == pos - Ends[Len(frames)]

\* The reader is in the prefix of the next frame: it has a part of it, and no body yet.
InPrefix ==
  /\ body = <<>> /\ capacity = 0
  /\ prefix = Part(Len(frames) + 1, Held)
  /\ Held <= Prefix
  /\ Held = Prefix => result = "error"

\* The reader is in the body: the prefix is whole and the body has its capacity.
InBody ==
  /\ Len(frames) < Len(Lengths)
  /\ prefix = Part(Len(frames) + 1, Prefix)
  /\ body = Part(Len(frames) + 1, Held)
  /\ capacity = Lengths[Len(frames) + 1] /\ capacity <= MaxFrame
  /\ Prefix <= Held /\ Held < capacity

\* The bytes: the frames that were returned end where the part that is held begins.
Bytes ==
  /\ sent \in Nat /\ pos \in Nat /\ pos <= sent /\ sent <= Total
  /\ frames \in Seq(Seq(Byte)) /\ Len(frames) <= Len(Lengths)
  /\ Ends[Len(frames)] <= pos
  /\ \A i \in 1..Len(frames) : frames[i] = Part(i, Lengths[i])
  /\ InPrefix \/ InBody

\* The control: a read that failed or met the end of the stream is not called again.
Control ==
  /\ call \in {"none", "ready", "parked"}
  /\ result \in {"running", "closed", "error"}
  /\ result # "running" => call = "none"

\* The time: every frame was given its timeout once.
Times ==
  /\ clock \in Nat /\ started \in Nat
  /\ OriginalDeadline
  /\ clock <= MaxTime + Len(frames) * Timeout + (IF prefix = <<>> THEN 0 ELSE Timeout)
  /\ started <= MaxTime + Len(frames) * Timeout

\* The inductive invariant of the reader.
IInv == Bytes /\ Control /\ Times

\* Where the reader stands in the stream.
LEMMA Place ==
  ASSUME ReaderAssumption, Bytes
  PROVE  /\ Len(frames) \in Nat /\ Len(Lengths) \in Nat /\ Total \in Nat
         /\ Ends[Len(frames)] \in Nat /\ Held \in Nat /\ pos = Ends[Len(frames)] + Held
         /\ pos < sent \/ Held > 0 => Len(frames) < Len(Lengths)
         /\ Len(frames) < Len(Lengths) =>
              /\ Lengths[Len(frames) + 1] \in Nat
              /\ Lengths[Len(frames) + 1] >= Prefix
              /\ Ends[Len(frames) + 1] = Ends[Len(frames)] + Lengths[Len(frames) + 1]
<1> DEFINE k == Len(frames)
           n == Len(Lengths)
<1>1. /\ n \in Nat /\ Ends \in [0..n -> Nat]
      /\ \A i \in 1..n : Lengths[i] \in Nat /\ Ends[i] = Ends[i - 1] + Lengths[i]
      /\ \A i \in 1..n : Lengths[i] >= Prefix
  BY EndsAreSums DEF ReaderAssumption
<1>2. /\ k \in Nat /\ k <= n /\ pos \in Nat /\ sent \in Nat
      /\ pos <= sent /\ sent <= Total /\ Ends[k] <= pos
  BY DEF Bytes
<1> HIDE DEF k, n
<1>3. k \in 0..n /\ n \in 0..n
  BY <1>1, <1>2
<1>4. Ends[k] \in Nat /\ Ends[n] \in Nat
  BY <1>1, <1>3
<1>5. Total = Ends[n]
  BY DEF Total, n
<1>6. Held = pos - Ends[k]
  BY DEF Held, k
<1>7. pos < sent \/ Held > 0 => k < n
  <2> SUFFICES ASSUME k = n, pos < sent \/ Held > 0
               PROVE  FALSE
    BY <1>1, <1>2
  <2>. QED  BY <1>2, <1>4, <1>5, <1>6
<1>8. k < n => Lengths[k + 1] \in Nat /\ Lengths[k + 1] >= Prefix
               /\ Ends[k + 1] = Ends[k] + Lengths[k + 1]
  <2>1. k < n => k + 1 \in 1..n /\ (k + 1) - 1 = k
    BY <1>1, <1>2
  <2>. QED  BY <1>1, <2>1, Zenon
<1>9. Held \in Nat /\ pos = Ends[k] + Held
  BY <1>2, <1>4, <1>6
<1>. QED  BY <1>1, <1>2, <1>4, <1>5, <1>7, <1>8, <1>9, Zenon DEF k, n

\* What the reader holds, by the lengths of its buffers.
LEMMA Buffers ==
  ASSUME ReaderAssumption, Bytes
  PROVE  /\ InPrefix => Len(prefix) = Held /\ (prefix = <<>> <=> Held = 0)
         /\ InBody => /\ Len(prefix) = Prefix /\ prefix # <<>>
                      /\ Len(body) = Held /\ body # <<>>
<1>1. Len(frames) + 1 \in Nat /\ Held \in Nat /\ Prefix \in Nat /\ Prefix > 0
  BY Place DEF ReaderAssumption
<1>2. /\ Len(Part(Len(frames) + 1, Held)) = Held
      /\ Part(Len(frames) + 1, Held) = <<>> <=> Held = 0
      /\ Len(Part(Len(frames) + 1, Prefix)) = Prefix
      /\ Part(Len(frames) + 1, Prefix) = <<>> <=> Prefix = 0
  BY <1>1, PartIsSequence, Zenon
<1>3. InBody => Held > 0
  BY <1>1 DEF InBody
<1>. QED  BY <1>1, <1>2, <1>3 DEF InPrefix, InBody

\* A step that reads nothing keeps the bytes.
LEMMA BytesKept ==
  ASSUME ReaderAssumption, Bytes, UNCHANGED <<pos, prefix, body, capacity, frames>>,
         sent' \in Nat, sent <= sent', sent' <= Total,
         result = "error" => result' = "error"
  PROVE  Bytes'
<1>1. Held' = Held
  BY DEF Held
<1>2. pos \in Nat /\ sent \in Nat /\ pos <= sent
  BY DEF Bytes
<1>3. pos' <= sent'
  BY <1>2
<1>4. InPrefix => InPrefix'
  BY <1>1 DEF InPrefix
<1>5. InBody => InBody'
  BY <1>1 DEF InBody
<1>. QED  BY <1>3, <1>4, <1>5 DEF Bytes

\* What one read of n bytes adds to a part of the frame that comes next.
LEMMA NextPart ==
  ASSUME ReaderAssumption, Bytes, NEW n \in Nat, Len(frames) < Len(Lengths),
         Held + n <= Lengths[Len(frames) + 1]
  PROVE  Part(Len(frames) + 1, Held) \o Stream(pos, n) = Part(Len(frames) + 1, Held + n)
<1> DEFINE i == Len(frames) + 1
<1>1. /\ Len(frames) \in Nat /\ Len(Lengths) \in Nat
      /\ Held \in Nat /\ pos = Ends[Len(frames)] + Held
  BY Place
<1>2. i \in Nat /\ i \in 1..Len(Lengths) /\ i - 1 = Len(frames)
  BY <1>1
<1>3. Held + n <= Lengths[i]
  OBVIOUS
<1> HIDE DEF i
<1>4. Part(i, Held) \o Stream(Ends[i - 1] + Held, n) = Part(i, Held + n)
  BY <1>1, <1>2, <1>3, ReadingOn, ZenonT(30)
<1>5. Ends[i - 1] + Held = pos
  BY <1>1, <1>2
<1>. QED  BY <1>4, <1>5, Zenon DEF i

\* Reading bytes of a prefix.
LEMMA ReadPrefixKeeps ==
  ASSUME ReaderAssumption, IInv, ReadPrefix
  PROVE  IInv'
<1> DEFINE k == Len(frames)
<1>1. PICK n \in 1..(Prefix - Len(prefix)) :
       LET p == prefix \o Stream(pos, n)
       IN  /\ n <= sent - pos
           /\ pos' = pos + n
           /\ prefix' = p
           /\ deadline' = DeadlineSet
           /\ started' = IF prefix = <<>> THEN clock ELSE started
           /\ IF Len(p) < Prefix
              THEN call' = "ready" /\ until' = 0 /\ UNCHANGED <<body, capacity, result>>
              ELSE IF Refused(p)
              THEN Fails /\ UNCHANGED <<body, capacity>>
              ELSE /\ call' = "ready" /\ until' = 0
                   /\ body' = p /\ capacity' = Advertised(p)
                   /\ UNCHANGED result
  BY Zenon DEF ReadPrefix
<1>2. /\ call = "parked" /\ pos < sent /\ Len(prefix) < Prefix
      /\ UNCHANGED <<clock, sent, eof, frames>>
  BY Zenon DEF ReadPrefix
<1>3. Bytes /\ Control /\ Times
  BY DEF IInv
<1>4. /\ k \in Nat /\ k < Len(Lengths) /\ Len(Lengths) \in Nat /\ Held \in Nat
      /\ Lengths[k + 1] \in Nat /\ Lengths[k + 1] >= Prefix
      /\ Ends[k] \in Nat /\ pos = Ends[k] + Held
  BY <1>2, <1>3, Place, Zenon
<1>5. Prefix \in Nat /\ Prefix > 0 /\ MinFrame \in Nat /\ MinFrame > Prefix /\ MaxFrame \in Nat
  BY DEF ReaderAssumption
<1>6. InPrefix /\ Len(prefix) = Held /\ (prefix = <<>> <=> Held = 0)
  BY <1>2, <1>3, <1>5, Buffers DEF Bytes
<1>7. n \in Nat /\ n >= 1 /\ Held + n <= Prefix /\ Held < Prefix
  BY <1>2, <1>4, <1>5, <1>6
<1>8. prefix' = Part(k + 1, Held + n)
  <2>1. Held + n <= Lengths[k + 1]
    BY <1>4, <1>5, <1>7, SMTT(30)
  <2>2. Part(k + 1, Held) \o Stream(pos, n) = Part(k + 1, Held + n)
    BY <1>3, <1>4, <1>7, <2>1, NextPart, Zenon
  <2>3. prefix = Part(k + 1, Held) /\ prefix' = prefix \o Stream(pos, n)
    BY <1>1, <1>6, Zenon DEF InPrefix
  <2>. QED  BY <2>2, <2>3, Zenon
<1>9. Held' = Held + n /\ Held + n \in Nat
  <2>1. Held' = pos' - Ends[k]
    BY <1>2 DEF Held
  <2>2. pos' = (Ends[k] + Held) + n
    BY <1>1, <1>4, Zenon
  <2>3. ((Ends[k] + Held) + n) - Ends[k] = Held + n /\ Held + n \in Nat
    BY <1>4, <1>7, FromStart, ZenonT(30)
  <2>. QED  BY <2>1, <2>2, <2>3, Zenon
<1>10. Len(prefix') = Held + n /\ prefix' # <<>> /\ prefix'[1] = <<k + 1, 1>>
  <2>1. k + 1 \in Nat /\ Held + n >= 1
    BY <1>4, <1>7
  <2>2. /\ Len(Part(k + 1, Held + n)) = Held + n
        /\ Part(k + 1, Held + n) = <<>> <=> Held + n = 0
        /\ Held + n >= 1 => Part(k + 1, Held + n)[1] = <<k + 1, 1>>
    BY <1>9, <2>1, PartIsSequence, Zenon
  <2>3. Held + n # 0
    BY <1>9, <2>1
  <2>. QED  BY <1>8, <2>1, <2>2, <2>3
<1>11. /\ sent' \in Nat /\ pos' \in Nat /\ pos' <= sent' /\ sent' <= Total
       /\ Ends[k] <= pos'
  <2>1. pos \in Nat /\ sent \in Nat /\ sent <= Total /\ Ends[k] <= pos
    BY <1>3 DEF Bytes
  <2>2. pos' = pos + n /\ n <= sent - pos /\ sent' = sent
    BY <1>1, <1>2, Zenon
  <2>3. Ends[k] \in Nat /\ Total \in Nat
    BY <1>3, Place, Zenon
  <2>. QED  BY <1>7, <2>1, <2>2, <2>3
<1>12. Advertised(prefix') = Lengths[k + 1]
  BY <1>10 DEF Advertised
<1>13. result = "running"
  BY <1>2, <1>3 DEF Control
<1>14. Control' /\ (InPrefix \/ InBody)'
  <2>1. CASE Held + n < Prefix
    <3>1. call' = "ready" /\ UNCHANGED <<body, capacity, result>>
      BY <1>1, <1>10, <2>1, Zenon
    <3>2. InPrefix'
      BY <1>2, <1>6, <1>7, <1>8, <1>9, <2>1, <3>1, <1>4, <1>5 DEF InPrefix
    <3>. QED  BY <1>2, <1>13, <3>1, <3>2 DEF Control
  <2>2. CASE Held + n = Prefix /\ Refused(prefix')
    <3>1. call' = "none" /\ result' = "error" /\ UNCHANGED <<body, capacity>>
      BY <1>1, <1>5, <1>10, <2>2 DEF Fails
    <3>2. InPrefix'
      BY <1>2, <1>6, <1>7, <1>8, <1>9, <2>2, <3>1, <1>4, <1>5, Zenon DEF InPrefix
    <3>. QED  BY <3>1, <3>2 DEF Control
  <2>3. CASE Held + n = Prefix /\ ~ Refused(prefix')
    <3>1. call' = "ready" /\ UNCHANGED result /\ body' = prefix' /\ capacity' = Advertised(prefix')
      BY <1>1, <1>5, <1>10, <2>3, SMTT(30)
    <3>2. Prefix < Lengths[k + 1] /\ Lengths[k + 1] <= MaxFrame
      BY <1>4, <1>5, <1>12, <2>3, SMTT(30) DEF Refused
    <3>3. InBody'
      <4>1. Len(frames') = k /\ Held' = Prefix /\ k < Len(Lengths)
        BY <1>2, <1>4, <1>9, <2>3, Zenon
      <4>2. prefix' = Part(k + 1, Prefix) /\ body' = Part(k + 1, Prefix)
        BY <1>8, <2>3, <3>1
      <4>3. capacity' = Lengths[k + 1]
        BY <1>12, <3>1
      <4>4. Prefix \in Nat /\ Lengths[k + 1] \in Nat
        BY <1>4, <1>5
      <4> HIDE DEF k
      <4>. QED  BY <3>2, <4>1, <4>2, <4>3, <4>4 DEF InBody
    <3>. QED  BY <1>13, <3>1, <3>3 DEF Control
  <2>. QED  BY <1>4, <1>5, <1>7, <2>1, <2>2, <2>3
<1>15. Bytes'
  BY <1>2, <1>3, <1>11, <1>14, Zenon DEF Bytes
<1>16. Times'
  <2> DEFINE z == Len(frames) * Timeout
  <2>1. Timeout \in Nat /\ Timeout > 0 /\ MaxTime \in Nat
    BY DEF ReaderAssumption
  <2>2. z \in Nat
    BY <1>4, <2>1
  <2>3. /\ clock \in Nat /\ started \in Nat
        /\ deadline = IF prefix = <<>> THEN 0 ELSE started + Timeout
        /\ clock <= MaxTime + z + (IF prefix = <<>> THEN 0 ELSE Timeout)
        /\ started <= MaxTime + z
    BY <1>3 DEF Times, OriginalDeadline
  <2>4. /\ clock' = clock /\ z' = z
        /\ started' = IF prefix = <<>> THEN clock ELSE started
        /\ deadline' = IF deadline = 0 THEN clock + Timeout ELSE deadline
    BY <1>1, <1>2, Zenon DEF DeadlineSet
  <2> HIDE DEF z
  <2>5. /\ clock' \in Nat /\ started' \in Nat
        /\ deadline' = IF prefix' = <<>> THEN 0 ELSE started' + Timeout
        /\ clock' <= MaxTime + z' + (IF prefix' = <<>> THEN 0 ELSE Timeout)
        /\ started' <= MaxTime + z'
    BY <1>10, <2>1, <2>2, <2>3, <2>4
  <2>. QED  BY <2>5 DEF Times, OriginalDeadline, z
<1>. QED  BY <1>14, <1>15, <1>16 DEF IInv

\* Reading bytes of a body: more of it, or the frame.
LEMMA ReadBodyKeeps ==
  ASSUME ReaderAssumption, IInv, ReadBody
  PROVE  IInv'
<1> DEFINE k == Len(frames)
<1>1. PICK n \in 1..(capacity - Len(body)) :
       LET b == body \o Stream(pos, n)
       IN  /\ n <= sent - pos
           /\ pos' = pos + n
           /\ until' = 0
           /\ IF Len(b) < capacity
              THEN /\ call' = "ready" /\ body' = b
                   /\ UNCHANGED <<prefix, capacity, deadline, started, frames>>
              ELSE /\ call' = "none"
                   /\ frames' = Append(frames, b)
                   /\ prefix' = <<>> /\ body' = <<>> /\ capacity' = 0
                   /\ deadline' = 0 /\ started' = 0
  BY Zenon DEF ReadBody
<1> DEFINE b == body \o Stream(pos, n)
<1>2. /\ call = "parked" /\ pos < sent /\ Len(prefix) = Prefix
      /\ UNCHANGED <<clock, sent, eof, result>>
  BY Zenon DEF ReadBody
<1>3. Bytes /\ Control /\ Times /\ result = "running"
  BY <1>2 DEF IInv, Control
<1>4. /\ k \in Nat /\ k < Len(Lengths) /\ Len(Lengths) \in Nat /\ Held \in Nat
      /\ Lengths[k + 1] \in Nat /\ Lengths[k + 1] >= Prefix
      /\ Ends[k] \in Nat /\ pos = Ends[k] + Held
      /\ Ends[k + 1] = Ends[k] + Lengths[k + 1]
      /\ Total \in Nat
  BY <1>2, <1>3, Place, Zenon
<1>5. Prefix \in Nat /\ Prefix > 0 /\ Timeout \in Nat /\ Timeout > 0 /\ MaxTime \in Nat
  BY DEF ReaderAssumption
<1>6. InBody /\ Len(body) = Held
  BY <1>2, <1>3, Buffers, Zenon DEF Bytes, InPrefix
<1>7. capacity = Lengths[k + 1] /\ capacity \in Nat /\ n \in Nat /\ n >= 1 /\ Held + n <= capacity
  BY <1>4, <1>6, SMTT(30) DEF InBody
<1>8. b = Part(k + 1, Held + n) /\ Len(b) = Held + n
  <2>1. Held + n <= Lengths[k + 1] /\ Held + n \in Nat /\ k + 1 \in Nat
    BY <1>4, <1>7
  <2>2. Part(k + 1, Held) \o Stream(pos, n) = Part(k + 1, Held + n)
    BY <1>3, <1>4, <1>7, <2>1, NextPart, Zenon
  <2>3. body = Part(k + 1, Held)
    BY <1>6 DEF InBody
  <2>4. Len(Part(k + 1, Held + n)) = Held + n
    BY <2>1, PartIsSequence, Zenon
  <2>. QED  BY <2>2, <2>3, <2>4, Zenon
<1>9. /\ sent' \in Nat /\ pos' \in Nat /\ pos' <= sent' /\ sent' <= Total
      /\ Ends[k] <= pos' /\ pos' = Ends[k] + (Held + n)
  <2>1. pos \in Nat /\ sent \in Nat /\ sent <= Total
    BY <1>3 DEF Bytes
  <2>2. pos' = pos + n /\ n <= sent - pos /\ sent' = sent
    BY <1>1, <1>2, Zenon
  <2>3. Ends[k] \in Nat /\ Total \in Nat /\ Held \in Nat /\ pos = Ends[k] + Held
    BY <1>4
  <2>4. PICK e \in Nat : e = Ends[k]
    BY <2>3
  <2>5. PICK h \in Nat : h = Held
    BY <2>3
  <2>6. n \in Nat /\ pos = e + h
    BY <1>7, <2>3, <2>4, <2>5, Zenon
  <2>7. /\ sent' \in Nat /\ pos' \in Nat /\ pos' <= sent' /\ sent' <= Total
        /\ e <= pos' /\ pos' = e + (h + n)
    BY <2>1, <2>2, <2>6
  <2>. QED  BY <2>4, <2>5, <2>7
<1> DEFINE z == Len(frames) * Timeout
<1>10. z \in Nat
  BY <1>4, <1>5
<1>11. /\ clock \in Nat /\ started \in Nat /\ prefix # <<>>
       /\ deadline = started + Timeout
       /\ clock <= MaxTime + z + Timeout
       /\ started <= MaxTime + z
  <2>1. prefix # <<>>
    BY <1>3, <1>6, Buffers, Zenon
  <2>. QED  BY <1>3, <2>1, Zenon DEF Times, OriginalDeadline
<1>12. CASE Held + n < capacity
  <2>1. call' = "ready" /\ body' = b /\ UNCHANGED <<prefix, capacity, deadline, started, frames>>
    BY <1>1, <1>8, <1>12, Zenon
  <2>2. Held' = Held + n
    <3>1. Held' = pos' - Ends[k]
      BY <2>1, Zenon DEF Held
    <3>2. PICK e \in Nat : e = Ends[k]
      BY <1>4, Zenon
    <3>3. Held + n \in Nat
      BY <1>4, <1>7
    <3>4. pos' = e + (Held + n) /\ Held' = pos' - e
      BY <1>9, <3>1, <3>2
    <3>. QED  BY <3>2, <3>3, <3>4
  <2>3. InBody'
    BY <1>4, <1>5, <1>6, <1>7, <1>8, <1>12, <2>1, <2>2 DEF InBody
  <2>4. Bytes'
    BY <1>3, <1>9, <2>1, <2>3, Zenon DEF Bytes
  <2>5. Control'
    BY <1>2, <1>3, <2>1, Zenon DEF Control
  <2>6. Times'
    BY <1>2, <1>3, <2>1, Zenon DEF Times, OriginalDeadline
  <2>. QED  BY <2>4, <2>5, <2>6 DEF IInv
<1>13. CASE Held + n = capacity
  <2>1. /\ call' = "none" /\ frames' = Append(frames, b)
        /\ prefix' = <<>> /\ body' = <<>> /\ capacity' = 0
        /\ deadline' = 0 /\ started' = 0
    <3>1. Len(b) = capacity /\ ~ (Len(b) < capacity)
      BY <1>7, <1>8, <1>13
    <3>. QED  BY <1>1, <3>1, Zenon
  <2>2. b = Part(k + 1, Lengths[k + 1]) /\ b \in Seq(Byte)
    <3>1. k + 1 \in Nat /\ Lengths[k + 1] \in Nat /\ Held + n = Lengths[k + 1]
      BY <1>4, <1>7, <1>13
    <3>2. Part(k + 1, Lengths[k + 1]) \in Seq(Byte)
      BY <3>1, PartIsSequence, Zenon
    <3>. QED  BY <1>8, <3>1, <3>2, Zenon
  <2> HIDE DEF b
  <2>3. /\ frames' \in Seq(Seq(Byte)) /\ Len(frames') = k + 1
        /\ \A i \in 1..k : frames'[i] = frames[i]
        /\ frames'[k + 1] = b
    BY <1>3, <2>1, <2>2 DEF Bytes
  <2>4. \A i \in 1..Len(frames') : frames'[i] = Part(i, Lengths[i])
    <3> SUFFICES ASSUME NEW i \in 1..(k + 1)
                 PROVE  frames'[i] = Part(i, Lengths[i])
      BY <2>3, Zenon
    <3>1. CASE i \in 1..k
      BY <1>3, <2>3, <3>1, Zenon DEF Bytes
    <3>2. CASE i = k + 1
      BY <2>2, <2>3, <3>2, Zenon
    <3>. QED  BY <1>4, <3>1, <3>2
  <2>5. Held' = 0 /\ Ends[Len(frames')] <= pos'
    <3>1. Ends[k + 1] = pos' /\ pos' \in Nat
      BY <1>4, <1>7, <1>9, <1>13, Zenon
    <3>2. Held' = pos' - Ends[k + 1]
      BY <2>3, Zenon DEF Held
    <3>3. Len(frames') = k + 1
      BY <2>3, Zenon
    <3>4. PICK p \in Nat : p = pos'
      BY <3>1
    <3>5. Ends[k + 1] = p
      BY <3>1, <3>4
    <3>6. Held' = p - p
      BY <3>2, <3>4, <3>5, Zenon
    <3>7. p - p = 0 /\ p <= p
      OBVIOUS
    <3>. QED  BY <3>3, <3>4, <3>5, <3>6, <3>7, Zenon
  <2>6. InPrefix'
    <3>1. (k + 1) + 1 \in Nat /\ 0 \in Nat
      BY <1>4
    <3>2. Part((k + 1) + 1, 0) = <<>>
      BY <3>1, PartIsSequence, Zenon
    <3>3. prefix' = Part(Len(frames') + 1, Held')
      BY <2>1, <2>3, <2>5, <3>2, Zenon
    <3>. QED  BY <1>5, <2>1, <2>5, <3>3 DEF InPrefix
  <2>7. Bytes'
    BY <1>4, <1>9, <2>3, <2>4, <2>5, <2>6 DEF Bytes
  <2>8. Control'
    BY <1>2, <1>3, <2>1, Zenon DEF Control
  <2>9. Times'
    <3>1. Len(frames') * Timeout = z + Timeout
      BY <1>4, <1>5, <2>3
    <3>2. clock' <= MaxTime + (z + Timeout) + 0 /\ 0 <= MaxTime + (z + Timeout)
      <4> HIDE DEF z
      <4>. QED  BY <1>2, <1>5, <1>10, <1>11
    <3>. QED  BY <1>2, <1>11, <2>1, <3>1, <3>2, Zenon DEF Times, OriginalDeadline
  <2>. QED  BY <2>7, <2>8, <2>9 DEF IInv
<1>14. Held + n < capacity \/ Held + n = capacity
  <2>1. Held + n \in Nat
    BY <1>4, <1>7
  <2>. QED  BY <1>7, <2>1, AtMost, Zenon
<1>. QED  BY <1>12, <1>13, <1>14

\* Every other step leaves what was read alone.
LEMMA OtherStepsKeep ==
  ASSUME ReaderAssumption, IInv,
         \/ PeerSends \/ PeerCloses \/ Tick \/ Call \/ Cancel \/ Park \/ Expire \/ ReadEof
         \/ UNCHANGED vars
  PROVE  IInv'
<1>1. Bytes /\ Control /\ Times
  BY Zenon DEF IInv
<1>2. UNCHANGED <<pos, prefix, body, capacity, deadline, started, frames>>
  BY Zenon DEF PeerSends, PeerCloses, Tick, Call, Cancel, Park, Expire, ReadEof, Fails, readerVars, vars
<1>3. Control' /\ (result = "error" => result' = "error")
  BY <1>1, Zenon DEF Control, PeerSends, PeerCloses, Tick, Call, Cancel, Park, Expire, ReadEof, Fails, vars
<1>4. sent' \in Nat /\ sent <= sent' /\ sent' <= Total
  <2>1. sent \in Nat /\ sent <= Total /\ Total \in Nat
    BY <1>1, Place, Zenon DEF Bytes
  <2>2. sent' = sent \/ sent' \in (sent + 1)..Total
    BY Zenon DEF PeerSends, PeerCloses, Tick, Call, Cancel, Park, Expire, ReadEof, Fails, vars
  <2>. QED  BY <2>1, <2>2
<1>5. Bytes'
  BY <1>1, <1>2, <1>3, <1>4, BytesKept, Zenon
<1>6. Times'
  <2> DEFINE z == Len(frames) * Timeout
  <2>1. Timeout \in Nat /\ Timeout > 0 /\ MaxTime \in Nat
    BY DEF ReaderAssumption
  <2>2. z \in Nat /\ z' = z
    BY <1>1, <1>2, <2>1, Place
  <2>3. /\ clock \in Nat /\ started \in Nat
        /\ deadline = IF prefix = <<>> THEN 0 ELSE started + Timeout
        /\ clock <= MaxTime + z + (IF prefix = <<>> THEN 0 ELSE Timeout)
        /\ started <= MaxTime + z
    BY <1>1, Zenon DEF Times, OriginalDeadline
  <2>4. clock' = clock \/ (clock' = clock + 1 /\ (clock < MaxTime \/ clock < deadline))
    BY Zenon DEF PeerSends, PeerCloses, Tick, Call, Cancel, Park, Expire, ReadEof, Fails, vars
  <2> HIDE DEF z
  <2>5. clock' \in Nat /\ clock' <= MaxTime + z + (IF prefix = <<>> THEN 0 ELSE Timeout)
    BY <2>1, <2>2, <2>3, <2>4
  <2>. QED  BY <1>2, <2>2, <2>3, <2>5, Zenon DEF Times, OriginalDeadline, z
<1>. QED  BY <1>3, <1>5, <1>6, Zenon DEF IInv

\* At the start nothing is read.
LEMMA ReaderStarts ==
  ASSUME ReaderAssumption, Init
  PROVE  IInv
<1>1. /\ Len(Lengths) \in Nat /\ Ends \in [0..Len(Lengths) -> Nat] /\ Ends[0] = 0
  BY EndsAreSums, Zenon
<1>2. Total \in Nat
  <2>1. Len(Lengths) \in 0..Len(Lengths)
    BY <1>1
  <2>. QED  BY <1>1, <2>1 DEF Total
<1>3. frames = <<>> /\ Len(frames) = 0 /\ frames \in Seq(Seq(Byte))
  BY DEF Init
<1>4. Held = 0
  BY <1>1, <1>3 DEF Held, Init
<1>5. Part(1, 0) = <<>>
  <2>1. 1 \in Nat /\ 0 \in Nat
    OBVIOUS
  <2>. QED  BY <2>1, PartIsSequence, Zenon
<1>6. InPrefix
  <2>1. Prefix \in Nat /\ Prefix # 0
    BY DEF ReaderAssumption
  <2>2. Len(frames) + 1 = 1
    BY <1>3
  <2>. QED  BY <1>4, <1>5, <2>1, <2>2 DEF InPrefix, Init
<1>7. Bytes
  BY <1>1, <1>2, <1>3, <1>6 DEF Bytes, Init
<1>8. Times
  <2>1. Timeout \in Nat /\ MaxTime \in Nat
    BY DEF ReaderAssumption
  <2>2. Len(frames) * Timeout = 0
    BY <1>3, <2>1
  <2>. QED  BY <2>1, <2>2 DEF Times, OriginalDeadline, Init
<1>. QED  BY <1>7, <1>8, Zenon DEF IInv, Control, Init

\* The invariant says that the reader is exact.
LEMMA ReaderMeans ==
  ASSUME ReaderAssumption, IInv
  PROVE  ReaderIsExact
<1> DEFINE k == Len(frames)
<1>1. Bytes /\ Control /\ Times
  BY DEF IInv
<1>2. /\ k \in Nat /\ Len(Lengths) \in Nat /\ k <= Len(Lengths) /\ Total \in Nat /\ Held \in Nat
      /\ Held > 0 => k < Len(Lengths)
      /\ pos \in Nat /\ sent \in Nat /\ pos <= sent /\ sent <= Total
  BY <1>1, Place, Zenon DEF Bytes
<1>3. /\ Prefix \in Nat /\ Prefix > 0 /\ MaxFrame \in Nat
      /\ Timeout \in Nat /\ Timeout > 0 /\ MaxTime \in Nat
  BY DEF ReaderAssumption
<1>4. clock \in 0..(MaxTime + Len(Lengths) * Timeout)
  <2>1. /\ clock \in Nat
        /\ clock <= MaxTime + k * Timeout + (IF prefix = <<>> THEN 0 ELSE Timeout)
    BY <1>1, Zenon DEF Times
  <2>2. prefix # <<>> => k < Len(Lengths)
    <3>1. CASE InPrefix
      <4>1. prefix # <<>> => Held # 0
        BY <1>1, <3>1, Buffers, Zenon DEF Bytes
      <4>. QED  BY <1>2, <4>1
    <3>2. CASE InBody
      BY <3>2, Zenon DEF InBody
    <3>. QED  BY <1>1, <3>1, <3>2, Zenon DEF Bytes
  <2>3. CASE prefix = <<>>
    <3>1. k * Timeout <= Len(Lengths) * Timeout /\ k * Timeout \in Nat
          /\ Len(Lengths) * Timeout \in Nat
      BY <1>2, <1>3, TimesGrows, Zenon
    <3>. QED  BY <1>3, <2>1, <2>3, <3>1, SMTT(30)
  <2>4. CASE prefix # <<>>
    <3>1. /\ (k + 1) * Timeout = k * Timeout + Timeout /\ k * Timeout \in Nat
          /\ k + 1 \in Nat /\ k + 1 <= Len(Lengths)
      BY <1>2, <1>3, <2>2, <2>4
    <3>2. (k + 1) * Timeout <= Len(Lengths) * Timeout /\ Len(Lengths) * Timeout \in Nat
      BY <1>2, <1>3, <3>1, TimesGrows, Zenon
    <3>. QED  BY <1>3, <2>1, <2>4, <3>1, <3>2, SMTT(30)
  <2>. QED  BY <2>3, <2>4
<1>5. TypeOK
  <2>1. pos \in 0..sent /\ sent \in 0..Total
    BY <1>2
  <2>2. CASE InPrefix
    <3>1. Len(prefix) <= Prefix /\ body = <<>> /\ capacity \in 0..MaxFrame
      BY <1>1, <1>2, <1>3, <2>2, Buffers DEF InPrefix
    <3>. QED  BY <1>1, <1>4, <2>1, <3>1, Zenon DEF TypeOK, Control
  <2>3. CASE InBody
    <3>1. Len(prefix) = Prefix /\ Len(body) = Held
      BY <1>1, <2>3, Buffers
    <3>2. Held < capacity /\ capacity \in 0..MaxFrame
      BY <1>1, <1>2, <1>3, <2>3, Place, SMTT(30) DEF InBody
    <3>. QED  BY <1>1, <1>3, <1>4, <2>1, <3>1, <3>2 DEF TypeOK, Control
  <2>. QED  BY <1>1, <2>2, <2>3, Zenon DEF Bytes
<1>6. \A i \in 1..Len(frames) : frames[i] = FrameBytes(i)
  BY <1>1 DEF Bytes, FrameBytes, Part
<1>7. Part(k + 1, Held) = Stream(Ends[k], Held)
  <2>1. CASE Held = 0
    <3>1. Part(k + 1, Held) = [j \in 1..0 |-> <<k + 1, j>>] /\ Stream(Ends[k], Held) = [j \in 1..0 |-> ByteAt(Ends[k] + j)]
      BY <2>1 DEF Part, Stream
    <3>2. 1..0 = {}
      OBVIOUS
    <3>. QED  BY <3>1, <3>2, Zenon
  <2>2. CASE Held > 0
    <3>1. /\ k < Len(Lengths) /\ k + 1 \in Nat /\ k + 1 \in 1..Len(Lengths) /\ (k + 1) - 1 = k
          /\ Ends[k] \in Nat /\ Held <= Lengths[k + 1]
      <4>1. /\ k < Len(Lengths) /\ Ends[k] \in Nat
            /\ Lengths[k + 1] \in Nat /\ Lengths[k + 1] >= Prefix
        BY <1>1, <1>2, <2>2, Place, Zenon
      <4>2. Held <= Prefix \/ Held < Lengths[k + 1]
        BY <1>1, Zenon DEF Bytes, InPrefix, InBody
      <4>. QED  BY <1>2, <1>3, <4>1, <4>2
    <3>2. \A j \in 1..Held : ByteAt(Ends[k] + j) = <<k + 1, j>>
      <4> SUFFICES ASSUME NEW j \in 1..Held
                   PROVE  ByteAt(Ends[k] + j) = <<k + 1, j>>
        OBVIOUS
      <4>1. Lengths[k + 1] \in Nat
        BY <1>1, <3>1, Place, Zenon
      <4>2. j \in Nat /\ j >= 1 /\ j <= Lengths[k + 1]
        BY <1>2, <3>1, <4>1, SMTT(30)
      <4>3. ByteAt(Ends[(k + 1) - 1] + j) = <<k + 1, j>>
        BY <3>1, <4>2, ByteOfFrame, Zenon
      <4>. QED  BY <3>1, <4>3, Zenon
    <3>. QED  BY <3>2, Zenon DEF Part, Stream
  <2>. QED  BY <1>2, <2>1, <2>2
<1>8. (IF body = <<>> THEN prefix ELSE body) = Part(k + 1, Held)
  BY <1>1, Buffers, Zenon DEF Bytes, InPrefix, InBody
<1>9. FramesAreIntact
  BY <1>6, <1>7, <1>8, Zenon DEF FramesAreIntact, Held
<1>. QED  BY <1>1, <1>5, <1>9 DEF ReaderIsExact, Times

\* The reader is exact, whatever the fragmentation and the cancellations, for every
\* list of frame lengths and all limits (read_frame of InboundFrameReader).
THEOREM ReaderHolds == Spec => []ReaderIsExact
<1> USE ReaderAssumption
<1>1. Init => IInv
  BY ReaderStarts
<1>2. IInv /\ [Next]_vars => IInv'
  <2> SUFFICES ASSUME IInv, [Next]_vars
               PROVE  IInv'
    OBVIOUS
  <2>. QED  BY ReadPrefixKeeps, ReadBodyKeeps, OtherStepsKeep, Zenon DEF Next, Read
<1>3. IInv => ReaderIsExact
  BY ReaderMeans
<1>. QED  BY <1>1, <1>2, <1>3, PTL DEF Spec

-----------------------------------------------------------------------------
\* The sums of the beginnings of a sequence of packets.
UpTo(l) == CHOOSE f : f = [i \in 0..Len(l) |-> IF i = 0 THEN 0 ELSE f[i - 1] + l[i].n]

\* Sum is the last of the sums of the beginnings, which the recursion determines.
LEMMA SumsExist ==
  ASSUME DataAssumption, NEW l \in Seq(Packets)
  PROVE  /\ UpTo(l) \in [0..Len(l) -> Nat]
         /\ UpTo(l)[0] = 0
         /\ \A i \in 1..Len(l) : UpTo(l)[i] = UpTo(l)[i - 1] + l[i].n
         /\ Sum(l) = UpTo(l)[Len(l)]
<1> DEFINE n == Len(l)
           w == [i \in 1..n |-> l[i].n]
           Def(f) == [i \in 0..n |-> IF i = 0 THEN 0 ELSE f[i - 1] + l[i].n]
<1>1. n \in Nat
  OBVIOUS
<1>2. \A i \in 1..n : l[i].n \in Nat
  <2>1. \A i \in 1..n : l[i] \in Packets
    OBVIOUS
  <2>2. \A p \in Packets : p.n \in Nat
    BY Zenon DEF Packets, DataAssumption
  <2>. QED  BY <2>1, <2>2, Zenon
<1>3. w \in [1..n -> Nat]
  BY <1>2, Zenon
<1>4. \A i \in 1..n : w[i] = l[i].n
  OBVIOUS
<1> HIDE DEF w, n
<1>5. PICK f \in [0..n -> Nat] : f[0] = 0 /\ \A i \in 1..n : f[i] = f[i - 1] + w[i]
  BY <1>1, <1>3, PartialSums, Zenon
<1>6. \A i \in 1..n : f[i] = f[i - 1] + l[i].n
  BY <1>4, <1>5, Zenon
<1>7. f = Def(f)
  BY <1>1, <1>5, <1>6
<1>8. UpTo(l) = Def(UpTo(l))
  BY <1>7, Zenon DEF UpTo, n
<1>9. Sum(l) = UpTo(l)[n]
  BY DEF Sum, UpTo, n
<1> DEFINE g == UpTo(l)
<1>10. g[0] = 0 /\ \A i \in 1..n : g[i] = g[i - 1] + l[i].n
  BY <1>1, <1>8, SMTT(30)
<1>11. g = [i \in 0..n |-> g[i]]
  BY <1>8
<1> HIDE DEF g
<1>12. \A i \in 0..n : g[i] \in Nat
  <2> DEFINE P == {i \in Nat : i \in 0..n => g[i] \in Nat}
  <2>1. 0 \in P
    BY <1>10, SMTT(30)
  <2>2. ASSUME NEW i \in P
        PROVE  i + 1 \in P
    <3> SUFFICES ASSUME i + 1 \in 0..n
                 PROVE  g[i + 1] \in Nat
      OBVIOUS
    <3>1. i + 1 \in 1..n /\ i \in 0..n /\ (i + 1) - 1 = i
      BY <1>1
    <3>2. g[i] \in Nat /\ l[i + 1].n \in Nat
      BY <1>2, <3>1, Zenon
    <3>3. g[i + 1] = g[i] + l[i + 1].n
      BY <1>10, <3>1, Zenon
    <3>. QED  BY <3>2, <3>3
  <2>3. P \in SUBSET Nat
    OBVIOUS
  <2> HIDE DEF P
  <2>4. P = Nat
    BY <2>1, <2>2, <2>3, Induction
  <2>. QED  BY <1>1, <2>4 DEF P
<1>13. g \in [0..n -> Nat]
  BY <1>11, <1>12
<1>. QED  BY <1>9, <1>10, <1>13, Zenon DEF g, n

\* A packet more adds its number.
LEMMA SumAppend ==
  ASSUME DataAssumption, NEW l \in Seq(Packets), NEW p \in Packets
  PROVE  Sum(l) \in Nat /\ Sum(Append(l, p)) = Sum(l) + p.n
<1> DEFINE n == Len(l)
           m == Append(l, p)
           f == UpTo(l)
           g == UpTo(m)
<1>1. n \in Nat /\ m \in Seq(Packets) /\ Len(m) = n + 1
  OBVIOUS
<1>2. m[n + 1] = p /\ \A i \in 1..n : m[i] = l[i]
  BY SMTT(30)
<1>3. /\ f \in [0..n -> Nat] /\ f[0] = 0
      /\ \A i \in 1..n : f[i] = f[i - 1] + l[i].n
      /\ Sum(l) = f[n]
  BY SumsExist, Zenon
<1>4. /\ g[0] = 0
      /\ \A i \in 1..(n + 1) : g[i] = g[i - 1] + m[i].n
      /\ Sum(m) = g[n + 1]
  <2> HIDE DEF m, n
  <2>. QED  BY <1>1, SumsExist, Zenon
<1> HIDE DEF f, g, m, n
<1>5. \A i \in 0..n : g[i] = f[i]
  <2> DEFINE P == {i \in Nat : i \in 0..n => g[i] = f[i]}
  <2>1. 0 \in P
    BY <1>3, <1>4, Zenon
  <2>2. ASSUME NEW i \in P
        PROVE  i + 1 \in P
    <3> SUFFICES ASSUME i + 1 \in 0..n
                 PROVE  g[i + 1] = f[i + 1]
      OBVIOUS
    <3>1. i + 1 \in 1..n /\ i + 1 \in 1..(n + 1) /\ i \in 0..n /\ (i + 1) - 1 = i
      BY <1>1
    <3>. QED  BY <1>2, <1>3, <1>4, <3>1, SMTT(30)
  <2>3. P \in SUBSET Nat
    OBVIOUS
  <2> HIDE DEF P
  <2>4. P = Nat
    BY <2>1, <2>2, <2>3, Induction
  <2>. QED  BY <1>1, <2>4 DEF P
<1>6. n \in 0..n /\ n + 1 \in 1..(n + 1) /\ (n + 1) - 1 = n
  BY <1>1
<1>7. g[n + 1] = g[n] + p.n
  BY <1>2, <1>4, <1>6, Zenon
<1>8. g[n] = f[n] /\ f[n] \in Nat
  BY <1>3, <1>5, <1>6, Zenon
<1>. QED  BY <1>3, <1>4, <1>7, <1>8, Zenon DEF m

\* Where the collector stands, by the packets it has read.
Collected ==
  /\ packets \in Seq(Packets)
  /\ standard \in BOOLEAN
  /\ stage = "first" => packets = <<>> /\ total = 0 /\ payload = 0
  /\ stage = "more" =>
       /\ standard
       /\ Len(packets) >= 1 /\ packets[1].type = "StartData" /\ packets[1].n = total
       /\ \A i \in 1..Len(packets) : packets[i].tid = Tid
       /\ \A i \in 2..Len(packets) : packets[i].type = "Data"
       /\ Sum(packets) = total + payload
  /\ stage = "ok" => Valid(packets) /\ (standard => payload = total)
  /\ stage = "error" => ~ Valid(packets)

\* The inductive invariant of the collector.
DataInv == DataTypeOK /\ Collected

\* The first packet of a standard phase.
LEMMA StartKept ==
  ASSUME DataAssumption, DataInv, NEW p \in Packets, ReadStart(p), packets' = Append(packets, p),
         UNCHANGED standard
  PROVE  DataInv'
<1>1. /\ packets = <<>> /\ total = 0 /\ payload = 0 /\ standard /\ stage = "first"
      /\ payload' = payload /\ standard' = standard
  BY Zenon DEF ReadStart, DataInv, Collected
<1>2. /\ packets' = <<p>> /\ Len(packets') = 1 /\ packets'[1] = p /\ packets' \in Seq(Packets)
  BY <1>1
<1>3. p.n \in Nat /\ Cap \in Nat
  BY Zenon DEF Packets, DataAssumption
<1>4. Sum(packets') = p.n
  <2>1. <<>> \in Seq(Packets) /\ Len(<<>>) = 0 /\ Sum(<<>>) = 0
    <3>1. <<>> \in Seq(Packets) /\ Len(<<>>) = 0
      OBVIOUS
    <3>2. UpTo(<<>>)[0] = 0 /\ Sum(<<>>) = UpTo(<<>>)[Len(<<>>)]
      BY <3>1, SumsExist, Zenon
    <3>. QED  BY <3>1, <3>2, Zenon
  <2>2. Sum(packets') = 0 + p.n
    BY <1>1, <2>1, SumAppend, Zenon
  <2>. QED  BY <1>3, <2>2
<1>5. CASE Starts(p)
  <2>1. stage' = "more" /\ total' = p.n /\ p.type = "StartData" /\ p.tid = Tid /\ p.n <= Cap
    BY <1>5, Zenon DEF ReadStart, Starts
  <2>2. DataTypeOK'
    BY <1>1, <1>3, <2>1, SMTT(30) DEF DataTypeOK
  <2>3. Collected'
    BY <1>1, <1>2, <1>3, <1>4, <2>1, SMTT(30) DEF Collected, DataInv
  <2>. QED  BY <2>2, <2>3 DEF DataInv
<1>6. CASE ~ Starts(p)
  <2>1. stage' = "error" /\ total' = total
    BY <1>6 DEF ReadStart
  <2>2. ~ Valid(packets)'
    BY <1>1, <1>2 DEF Valid
  <2>3. DataTypeOK'
    BY <1>1, <1>3, <2>1, Zenon DEF DataTypeOK, DataInv
  <2>. QED  BY <1>1, <1>2, <2>1, <2>2, <2>3, Zenon DEF DataInv, Collected
<1>. QED  BY <1>5, <1>6

\* A packet after StartData.
LEMMA MoreKept ==
  ASSUME DataAssumption, DataInv, NEW p \in Packets, ReadMore(p), packets' = Append(packets, p),
         UNCHANGED standard
  PROVE  DataInv'
<1> DEFINE n == Len(packets)
<1>1. /\ stage = "more" /\ total' = total /\ standard' = standard /\ standard
      /\ packets[1].type = "StartData" /\ packets[1].n = total
      /\ \A i \in 1..n : packets[i].tid = Tid
      /\ \A i \in 2..n : packets[i].type = "Data"
      /\ Sum(packets) = total + payload
  BY DEF ReadMore, DataInv, Collected
<1>2. /\ n \in Nat /\ n >= 1 /\ packets \in Seq(Packets)
      /\ packets' \in Seq(Packets) /\ Len(packets') = n + 1
      /\ \A i \in 1..n : packets'[i] = packets[i]
      /\ packets'[n + 1] = p
  BY DEF ReadMore, DataInv, Collected
<1>3. /\ p.n \in Nat /\ Cap \in Nat /\ total \in Nat /\ payload \in Nat
      /\ total <= Cap /\ payload <= total
  <2>1. payload <= total /\ total \in 0..Cap /\ payload \in 0..Cap
    BY <1>1, Zenon DEF DataInv, DataTypeOK
  <2>2. p.n \in Nat /\ Cap \in Nat
    BY Zenon DEF Packets, DataAssumption
  <2>. QED  BY <2>1, <2>2
<1>4. Sum(packets') = total + payload + p.n
  BY <1>1, <1>2, <1>3, SumAppend, Zenon
<1>5. packets'[1] = packets[1] /\ packets'[Len(packets')] = p /\ Len(packets') > 1
  BY <1>2
<1>6. ASSUME NEW i \in 1..Len(packets')
      PROVE  (i \in 1..n /\ packets'[i] = packets[i]) \/ packets'[i] = p
  BY <1>2, SMTT(30)
<1> HIDE DEF n
<1>7. CASE Fits(p) /\ EndsPhase(p)
  <2>1. /\ stage' = "ok" /\ payload' = payload + p.n /\ payload + p.n = total
        /\ p.type = "EndData" /\ p.tid = Tid
    BY <1>7, Zenon DEF ReadMore, Fits, EndsPhase
  <2>2. \A i \in 1..Len(packets') : packets'[i].tid = Tid
    BY <1>1, <1>6, <2>1, Zenon
  <2>3. \A i \in 2..(Len(packets') - 1) : packets'[i].type = "Data"
    <3>1. ASSUME NEW i \in 2..(Len(packets') - 1)
          PROVE  i \in 2..n /\ packets'[i] = packets[i]
      BY <1>2
    <3>. QED  BY <1>1, <3>1, Zenon
  <2>4. packets'[1].n = total /\ packets'[1].type = "StartData"
    BY <1>1, <1>5, Zenon
  <2>5. Sum(packets') = 2 * total /\ packets'[1].n <= Cap /\ Len(packets') > 0
    <3>1. Sum(packets') = total + total
      BY <1>3, <1>4, <2>1, SMTT(30)
    <3>. QED  BY <1>2, <1>3, <2>4, <3>1
  <2>6. Valid(packets)'
    <3>1. standard' /\ packets'[Len(packets')].type = "EndData" /\ Sum(packets') = 2 * packets'[1].n
      BY <1>1, <1>5, <2>1, <2>4, <2>5
    <3>. QED  BY <1>5, <2>2, <2>3, <2>4, <2>5, <3>1, Zenon DEF Valid
  <2>7. DataTypeOK'
    BY <1>1, <1>3, <2>1, SMTT(30) DEF DataTypeOK
  <2>. QED  BY <1>1, <1>2, <2>1, <2>6, <2>7, Zenon DEF DataInv, Collected
<1>8. CASE Fits(p) /\ p.type = "Data"
  <2>1. /\ stage' = "more" /\ payload' = payload + p.n /\ payload + p.n <= total
        /\ p.tid = Tid
    BY <1>8, Zenon DEF ReadMore, Fits, EndsPhase
  <2>2. \A i \in 1..Len(packets') : packets'[i].tid = Tid
    BY <1>1, <1>6, <2>1, Zenon
  <2>3. \A i \in 2..Len(packets') : packets'[i].type = "Data"
    BY <1>1, <1>2, <1>8, SMTT(30)
  <2>4. DataTypeOK'
    BY <1>1, <1>3, <2>1 DEF DataTypeOK
  <2>5. Sum(packets') = total' + payload'
    BY <1>1, <1>3, <1>4, <2>1, SMTT(30)
  <2>6. Len(packets') >= 1 /\ packets'[1].type = "StartData" /\ packets'[1].n = total'
    BY <1>1, <1>2, <1>5, SMTT(30)
  <2>. QED  BY <1>1, <1>2, <2>1, <2>2, <2>3, <2>4, <2>5, <2>6 DEF DataInv, Collected
<1>9. CASE ~ (Fits(p) /\ EndsPhase(p)) /\ ~ (Fits(p) /\ p.type = "Data")
  <2>1. stage' = "error"
    BY <1>9 DEF ReadMore
  <2>2. ~ Valid(packets)'
    <3> SUFFICES ASSUME Valid(packets)'
                 PROVE  FALSE
      BY Zenon
    <3>1. p.type = "EndData" /\ Sum(packets') = 2 * total
      BY <1>1, <1>5, Zenon DEF Valid
    <3>2. p.tid = Tid
      BY <1>2, <1>5 DEF Valid
    <3>3. payload + p.n = total
      BY <1>3, <1>4, <3>1
    <3>. QED  BY <1>3, <1>9, <3>1, <3>2, <3>3 DEF Fits, EndsPhase
  <2>3. payload' \in 0..Cap /\ payload' <= total
    BY <1>3 DEF ReadMore, Fits
  <2>4. DataTypeOK'
    BY <1>1, <1>3, <2>1, <2>3, SMTT(30) DEF DataTypeOK
  <2>. QED  BY <1>1, <1>2, <2>1, <2>2, <2>4, Zenon DEF DataInv, Collected
<1>. QED  BY <1>7, <1>8, <1>9, Zenon

\* The container of the other framings.
LEMMA ContainerKept ==
  ASSUME DataAssumption, DataInv, NEW p \in Packets, ReadContainer(p), packets' = Append(packets, p),
         UNCHANGED standard
  PROVE  DataInv'
<1>1. /\ packets = <<>> /\ total = 0 /\ payload = 0 /\ ~ standard /\ stage = "first"
      /\ total' = total /\ standard' = standard
  BY Zenon DEF ReadContainer, DataInv, Collected
<1>2. /\ Len(packets') = 1 /\ packets'[1] = p /\ packets' \in Seq(Packets)
  BY <1>1, SMTT(30)
<1>3. p.n \in Nat /\ Cap \in Nat
  BY Zenon DEF Packets, DataAssumption
<1>4. stage' = "ok" <=> Valid(packets)'
  BY <1>1, <1>2 DEF ReadContainer, Valid
<1>5. stage' \in {"ok", "error"} /\ payload' \in 0..Cap
  BY <1>1, <1>3 DEF ReadContainer
<1>6. DataTypeOK'
  BY <1>1, <1>3, <1>5 DEF DataTypeOK
<1>. QED  BY <1>1, <1>2, <1>4, <1>5, <1>6 DEF DataInv, Collected

\* A data phase is accepted exactly if its packets are one, whatever their number, their
\* sizes and the cap (collect_data_in and collect_standard_data_in).
THEOREM DataPhasesHold == DataSpec => []AcceptsExactly
<1> USE DataAssumption
<1>1. DataInit => DataInv
  <2> SUFFICES ASSUME DataInit
               PROVE  DataInv
    OBVIOUS
  <2>1. DataTypeOK
    BY DEF DataInit, DataTypeOK, DataAssumption
  <2>. QED  BY <2>1 DEF DataInit, DataInv, Collected
<1>2. DataInv /\ [DataNext]_dataVars => DataInv'
  <2> SUFFICES ASSUME DataInv, [DataNext]_dataVars
               PROVE  DataInv'
    OBVIOUS
  <2>1. CASE Packet
    <3>1. PICK p \in Packets : /\ ReadStart(p) \/ ReadMore(p) \/ ReadContainer(p)
                               /\ packets' = Append(packets, p)
      BY <2>1, Zenon DEF Packet
    <3>2. UNCHANGED standard
      BY <2>1, Zenon DEF Packet
    <3>. QED  BY <3>1, <3>2, StartKept, MoreKept, ContainerKept, Zenon
  <2>2. CASE Fail
    <3>1. /\ stage' = "error" /\ packets' = <<>> /\ packets' \in Seq(Packets)
          /\ UNCHANGED <<standard, total, payload>>
      BY <2>2 DEF Fail
    <3>2. ~ Valid(packets)'
      BY <3>1 DEF Valid
    <3>3. DataTypeOK'
      BY <3>1, Zenon DEF DataInv, DataTypeOK
    <3>. QED  BY <3>1, <3>2, <3>3, Zenon DEF DataInv, Collected
  <2>3. CASE UNCHANGED dataVars
    BY <2>3, Zenon DEF dataVars, DataInv, DataTypeOK, Collected, Valid
  <2>. QED  BY <2>1, <2>2, <2>3, Zenon DEF DataNext
<1>3. DataInv => DataTypeOK /\ AcceptedIsValid
  <2> SUFFICES ASSUME DataInv
               PROVE  AcceptedIsValid
    BY DEF DataInv
  <2>1. stage \in {"first", "more", "ok", "error"}
    BY Zenon DEF DataInv, DataTypeOK
  <2>2. CASE stage = "first"
    BY <2>2 DEF DataInv, Collected, AcceptedIsValid, Valid
  <2>3. CASE stage = "more"
    <3>1. ~ Valid(packets)
      <4> SUFFICES ASSUME Valid(packets)
                   PROVE  FALSE
        BY Zenon
      <4>1. standard /\ packets \in Seq(Packets) /\ Len(packets) \in Nat
            /\ \A i \in 2..Len(packets) : packets[i].type = "Data"
        BY <2>3 DEF DataInv, Collected
      <4>2. Len(packets) > 1 /\ packets[Len(packets)].type = "EndData"
        BY <4>1, Zenon DEF Valid
      <4>. QED  BY <4>1, <4>2
    <3>. QED  BY <2>3, <3>1, Zenon DEF AcceptedIsValid
  <2>4. CASE stage = "ok"
    BY <2>4, Zenon DEF DataInv, Collected, AcceptedIsValid
  <2>5. CASE stage = "error"
    BY <2>5, Zenon DEF DataInv, Collected, AcceptedIsValid
  <2>. QED  BY <2>1, <2>2, <2>3, <2>4, <2>5
<1>. QED  BY <1>1, <1>2, <1>3, PTL DEF AcceptsExactly, DataSpec
=============================================================================
