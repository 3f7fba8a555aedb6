--------------------------- MODULE ObserverProofs ---------------------------
(***************************************************************************)
(* Proofs about StateCallback and TraceTail: what those who watch the      *)
(* service from outside know of it.  QuiescentIsCurrent needs what the     *)
(* push task knows while it is under way (CallbackInv).  TailIsExact needs *)
(* which events of the present life the console can have in its log for    *)
(* each answer that it may still act on (Current), and that a filter keeps *)
(* exactly the later events (by induction over the length of the list).    *)
(***************************************************************************)
EXTENDS StateCallback, TraceTail, WellFoundedInduction, NaturalsInduction, TLAPS

\* Every non-empty set of naturals has a least element.
LEMMA LeastElement ==
  ASSUME NEW T \in SUBSET Nat, T # {}
  PROVE  \E m \in T : \A k \in T : m <= k
<1> DEFINE R == {ss \in Nat \X Nat : ss[1] < ss[2]}
<1>1. IsWellFoundedOn(OpToRel(<, Nat), Nat)
  BY NatLessThanWellFounded
<1>2. OpToRel(<, Nat) = R
  BY DEF OpToRel
<1>3. IsWellFoundedOn(R, Nat)
  BY <1>1, <1>2
<1> HIDE DEF R
<1>4. PICK x \in T : \A y \in T : ~ (<<y, x>> \in R)
  BY <1>3, WFMin, Zenon
<1>5. ASSUME NEW k \in T
      PROVE  x <= k
  <2>1. x \in Nat /\ k \in Nat /\ <<k, x>> \notin R
    BY <1>4
  <2>2. ~ (k < x)
    BY <2>1 DEF R
  <2>. QED  BY <2>1, <2>2
<1>. QED  BY <1>5

\* A set of naturals with 0 and with the successor of each of its members is Nat.
LEMMA Induction ==
  ASSUME NEW P \in SUBSET Nat, 0 \in P, \A n \in P : n + 1 \in P
  PROVE  P = Nat
<1> SUFFICES ASSUME Nat \ P # {}
             PROVE  FALSE
  BY Zenon
<1>1. PICK m \in Nat \ P : \A k \in Nat \ P : m <= k
  BY LeastElement, Zenon
<1>2. m - 1 \in Nat /\ m - 1 < m
  BY <1>1
<1>3. m - 1 \in P
  BY <1>1, <1>2
<1>. QED  BY <1>1, <1>2, <1>3

-----------------------------------------------------------------------------
\* Proof that a task at rest is current, for any number of writers and targets.

\* Target t has what was last posted to it, or that post failed.
Has(t, b) == t \in failed \/ posted[t] = b

\* Nobody will notify, and no change was kept back.
Settled == ~ permit /\ ~ silent /\ \A w \in Writers : writer[w] = "idle"

\* What the push task knows: the last push reached everybody of its registry, a push in
\* progress has reached those that it is through with, and while nothing is announced the
\* registry and the state that it took are those there are.
CallbackInv ==
  /\ CallbackTypeOK
  /\ snapshot.version <= version /\ last.version <= version
  /\ version = 0 => targets = {}
  /\ snapshot.targets \subseteq targets
  /\ pusher # "post" /\ last.version = version => \A t \in targets : Has(t, last.body)
  /\ pusher = "state" /\ snapshot.version = version => snapshot.targets = targets
  /\ pusher = "post" /\ snapshot.version = version =>
       \A t \in targets \ snapshot.targets : Has(t, body)
  /\ Settled /\ pusher \in {"state", "post"} => snapshot.version = version
  /\ Settled /\ pusher = "post" => Json(body) = Json(state)
  /\ Settled /\ pusher = "wait" /\ targets # {} =>
       Json(last.body) = Json(state) /\ last.version = version

\* Whoever changes the state or the registry is about to notify, has notified, or is known
\* to have kept the change back.
LEMMA WriterInvariant ==
  ASSUME CallbackAssumption, CallbackInv, NEW w \in Writers,
         \/ Mutate(w) \/ InvokeActionNotifies(w) \/ NotifyOne(w) \/ AbortWriter(w)
         \/ \E t \in Targets : AddUrl(w, t)
  PROVE  CallbackInv'
<1> USE DEF CallbackAssumption
<1>1. CASE Mutate(w)
  <2>1. CallbackTypeOK' BY <1>1 DEF Mutate, CallbackInv, CallbackTypeOK, pushVars
  <2>2. ~ Settled' BY <1>1 DEF Mutate, Settled, CallbackInv, CallbackTypeOK
  <2> QED BY <1>1, <2>1, <2>2, Zenon DEF Mutate, CallbackInv, Has, pushVars
<1>2. CASE InvokeActionNotifies(w)
  <2>1. CallbackTypeOK'
    <3>1. state' \in 0..MaxState
      BY <1>2 DEF InvokeActionNotifies, CallbackInv, CallbackTypeOK
    <3>2. permit' \in BOOLEAN /\ silent' \in BOOLEAN
      BY <1>2, Zenon DEF InvokeActionNotifies
    <3> QED BY <1>2, <3>1, <3>2, Zenon DEF InvokeActionNotifies, CallbackInv, CallbackTypeOK, pushVars
  <2> QED BY <1>2, <2>1, Zenon DEF InvokeActionNotifies, CallbackInv, Has, Settled, pushVars
<1>3. CASE NotifyOne(w)
  <2>1. CallbackTypeOK' BY <1>3, Zenon DEF NotifyOne, CallbackInv, CallbackTypeOK, pushVars
  <2> QED BY <1>3, <2>1, Zenon DEF NotifyOne, CallbackInv, Has, Settled, pushVars
<1>4. CASE AbortWriter(w)
  <2>1. CallbackTypeOK' BY <1>4 DEF AbortWriter, CallbackInv, CallbackTypeOK, pushVars
  <2> QED BY <1>4, <2>1, Zenon DEF AbortWriter, CallbackInv, Has, Settled, pushVars
<1>5. ASSUME NEW t \in Targets, AddUrl(w, t)
      PROVE  CallbackInv'
  <2>1. CallbackTypeOK'
    <3>1. /\ version' \in 0..MaxVersion /\ writer' \in [Writers -> {"idle", "notify", "registered"}]
          /\ targets' \subseteq Targets /\ owed' \subseteq targets' /\ failed' \subseteq targets'
      BY <1>5 DEF AddUrl, CallbackInv, CallbackTypeOK
    <3> QED BY <1>5, <3>1, Zenon DEF AddUrl, CallbackInv, CallbackTypeOK, pushVars
  <2>2. ~ Settled' BY <1>5 DEF AddUrl, Settled, CallbackInv, CallbackTypeOK
  <2>3. last'.version < version' /\ snapshot'.version < version' /\ version' # 0
    BY <1>5 DEF AddUrl, CallbackInv, CallbackTypeOK, pushVars
  <2> QED BY <1>5, <2>1, <2>2, <2>3 DEF AddUrl, CallbackInv, CallbackTypeOK, pushVars
<1> QED BY <1>1, <1>2, <1>3, <1>4, <1>5

\* The push task, step by step; and a session that ends without a notification.
LEMMA CallbackPushInvariant ==
  ASSUME CallbackAssumption, CallbackInv, Push \/ Shutdown \/ TeardownSession
  PROVE  CallbackInv'
<1> USE DEF CallbackAssumption
<1>1. CASE Shutdown
  <2>1. CallbackTypeOK' BY <1>1 DEF Shutdown, CallbackInv, CallbackTypeOK, pushVars
  <2> QED BY <1>1, <2>1, Zenon DEF Shutdown, CallbackInv, Has, Settled, pushVars
<1>2. CASE Notified
  <2>1. CallbackTypeOK' BY <1>2, Zenon DEF Notified, CallbackInv, CallbackTypeOK, pushVars
  <2> QED BY <1>2, <2>1, Zenon DEF Notified, CallbackInv, Has, Settled, pushVars
<1>3. CASE TakeRegistry
  <2>1. CallbackTypeOK' BY <1>3 DEF TakeRegistry, CallbackInv, CallbackTypeOK
  <2>2. snapshot'.version = version /\ snapshot'.targets = targets
    BY <1>3 DEF TakeRegistry
  <2>3. version \in Nat BY DEF CallbackInv, CallbackTypeOK
  <2> QED BY <1>3, <2>1, <2>2, <2>3 DEF TakeRegistry, CallbackInv, Has, Settled
<1>4. CASE TakeState
  <2>1. CallbackTypeOK' BY <1>4 DEF TakeState, CallbackInv, CallbackTypeOK
  <2>2. snapshot.version = version => snapshot.targets = targets
    BY <1>4, Zenon DEF TakeState, CallbackInv
  <2>3. Settled' <=> Settled
    BY <1>4 DEF TakeState, Settled
  <2> QED BY <1>4, <2>1, <2>2, <2>3, Zenon DEF TakeState, CallbackInv, Has, Json
<1>5. ASSUME NEW t \in Targets, Post(t)
      PROVE  CallbackInv'
  <2>1. /\ pusher' = "post" /\ snapshot' = [snapshot EXCEPT !.targets = @ \ {t}]
        /\ UNCHANGED <<state, writer, permit, version, targets, body, last, silent>>
    BY <1>5 DEF Post
  <2>2. snapshot \in [version : 0..MaxVersion, targets : SUBSET Targets]
    BY Zenon DEF CallbackInv, CallbackTypeOK
  <2>3. snapshot'.version = snapshot.version /\ snapshot'.targets = snapshot.targets \ {t}
    BY <2>1, <2>2
  <2>4. \A u \in Targets : (u # t => Has(u, body)' = Has(u, body)) /\ (u = t => Has(u, body)')
    BY <1>5, <2>1 DEF Post, Has, CallbackInv, CallbackTypeOK
  <2>5. CallbackTypeOK'
    <3>1. t \in targets /\ body \in 0..MaxState
      BY <1>5 DEF Post, CallbackInv, CallbackTypeOK
    <3>2. /\ posted' \in [Targets -> 0..MaxState \cup {Never}]
          /\ owed' \subseteq targets /\ failed' \subseteq targets
      BY <1>5, <3>1 DEF Post, CallbackInv, CallbackTypeOK
    <3>3. snapshot' \in [version : 0..MaxVersion, targets : SUBSET Targets]
      BY <2>1, <2>2
    <3> QED BY <2>1, <3>2, <3>3, Zenon DEF CallbackInv, CallbackTypeOK
  <2>6. \A u \in targets' \ snapshot'.targets : u \in Targets /\ (u = t \/ u \in targets \ snapshot.targets)
    BY <2>1, <2>3 DEF CallbackInv, CallbackTypeOK
  <2>7. snapshot'.version = version' => \A u \in targets' \ snapshot'.targets : Has(u, body)'
    BY <1>5, <2>1, <2>3, <2>4, <2>6, Zenon DEF CallbackInv, Post
  <2> QED BY <1>5, <2>1, <2>3, <2>5, <2>7 DEF CallbackInv, Settled, Json, Post
<1>6. CASE Remember
  <2>1. CallbackTypeOK' BY <1>6 DEF Remember, CallbackInv, CallbackTypeOK
  <2>2. last'.version = snapshot.version /\ last'.body = body
    BY <1>6, Zenon DEF Remember
  <2> QED BY <1>6, <2>1, <2>2, Zenon DEF Remember, CallbackInv, Has, Settled, Json
<1>7. CASE TeardownSession
  <2>1. CallbackTypeOK' BY <1>7 DEF TeardownSession, CallbackInv, CallbackTypeOK, pushVars
  <2> QED BY <1>7, <2>1, Zenon DEF TeardownSession, CallbackInv, Has, Settled, pushVars
<1> QED BY <1>1, <1>2, <1>3, <1>4, <1>5, <1>6, <1>7 DEF Push

\* Whatever the number of writers, targets and changes: when nobody is about to notify and
\* the push task waits, it has pushed the state there is to the registry there is, and only
\* a target whose own post failed may lack it.
THEOREM RestIsCurrent == CallbackSpec => []QuiescentIsCurrent
<1> USE CallbackAssumption
<1>1. CallbackInit => CallbackInv
  <2> SUFFICES ASSUME CallbackInit PROVE CallbackInv
    OBVIOUS
  <2>1. CallbackTypeOK
    <3>1. permit \in BOOLEAN /\ silent \in BOOLEAN
      BY Zenon DEF CallbackInit
    <3>2. 0 \in 0..MaxState /\ 0 \in 0..MaxVersion
      BY DEF CallbackAssumption
    <3> QED BY <3>1, <3>2, Zenon DEF CallbackInit, CallbackTypeOK
  <2>2. /\ snapshot.version = 0 /\ last.version = 0 /\ version = 0 /\ pusher = "registry"
        /\ targets = {} /\ snapshot.targets = {}
    BY DEF CallbackInit
  <2> QED BY <2>1, <2>2 DEF CallbackInv
<1>2. CallbackInv /\ [CallbackNext]_callbackVars => CallbackInv'
  <2> SUFFICES ASSUME CallbackInv, [CallbackNext]_callbackVars PROVE CallbackInv'
    OBVIOUS
  <2>1. CASE UNCHANGED callbackVars
    BY <2>1 DEF callbackVars, pushVars, CallbackInv, CallbackTypeOK, Has, Settled, Json
  <2>2. CASE CallbackNext
    BY <2>2, WriterInvariant, CallbackPushInvariant DEF CallbackNext
  <2> QED BY <2>1, <2>2
<1>3. CallbackInv => CallbackTypeOK /\ RestIsPushed
  BY Zenon DEF CallbackInv, RestIsPushed, Settled, Has, Json
<1> QED BY <1>1, <1>2, <1>3, PTL DEF QuiescentIsCurrent, CallbackSpec

-----------------------------------------------------------------------------
\* The numbers of events, and lists of them.
Events == 1 .. MaxRecorded

\* A list has no element twice.
Distinct(l) == \A i, j \in 1 .. Len(l) : l[i] = l[j] => i = j

\* A list with one more event.
LEMMA EventAppended ==
  \A l \in Seq(Events) : \A e \in Events :
     /\ Append(l, e) \in Seq(Events) /\ Len(Append(l, e)) = Len(l) + 1
     /\ \A i \in 1 .. Len(l) : Append(l, e)[i] = l[i]
     /\ Append(l, e)[Len(l) + 1] = e
OBVIOUS

\* A part of a list, from m to its end.
LEMMA EventsFrom ==
  \A l \in Seq(Events) : \A m \in 1 .. Len(l) :
     /\ SubSeq(l, m, Len(l)) \in Seq(Events)
     /\ Len(SubSeq(l, m, Len(l))) = Len(l) - m + 1
     /\ \A i \in 1 .. (Len(l) - m + 1) : SubSeq(l, m, Len(l))[i] = l[m + i - 1]
OBVIOUS

\* What the trace keeps after a push is distinct, in the type, and within its bound.
LEMMA BoundedKeeps ==
  ASSUME TailAssumption, NEW l \in Seq(Events), Distinct(l), Len(l) <= MaxEvents,
         NEW e \in Events, \A i \in 1 .. Len(l) : l[i] < e
  PROVE  LET b == Bounded(Append(l, e))
         IN  /\ b \in Seq(Events) /\ Distinct(b) /\ Len(b) <= MaxEvents
             /\ \A i \in 1 .. Len(b) : b[i] <= e
<1> DEFINE n == Len(l)
           a == Append(l, e)
           m == IF Len(a) > MaxEvents THEN Len(a) - MaxEvents + 1 ELSE 1
           b == Bounded(a)
<1>1. n \in Nat /\ a \in Seq(Events) /\ Len(a) = n + 1 /\ (\A i \in 1 .. n : a[i] = l[i]) /\ a[n + 1] = e
  BY EventAppended
<1>2. MaxEvents \in Nat /\ MaxEvents >= 1 /\ MaxRecorded \in Nat
  BY DEF TailAssumption
<1>3. m \in 1 .. Len(a) /\ n + 1 - m + 1 <= MaxEvents
  BY <1>1, <1>2
<1>4. b = SubSeq(a, m, Len(a))
  BY DEF Bounded
<1> HIDE DEF a, m, b, n
<1>5. b \in Seq(Events) /\ Len(b) = n + 1 - m + 1 /\ \A i \in 1 .. Len(b) : b[i] = a[m + i - 1]
  BY <1>1, <1>3, <1>4, EventsFrom
<1>6. \A i \in 1 .. (n + 1) : a[i] \in Nat /\ a[i] <= e /\ (a[i] = e => i = n + 1)
  <2> TAKE i \in 1 .. (n + 1)
  <2>1. e \in Nat /\ \A j \in 1 .. n : l[j] \in Nat /\ l[j] < e
    BY <1>2 DEF Events, n
  <2>2. CASE i = n + 1
    BY <1>1, <2>1, <2>2
  <2>3. CASE i # n + 1
    <3>1. i \in 1 .. n
      BY <1>1, <2>3
    <3>. QED  BY <1>1, <2>1, <3>1
  <2>. QED  BY <2>2, <2>3
<1>7. ASSUME NEW i \in 1 .. (n + 1), NEW j \in 1 .. (n + 1), a[i] = a[j]
      PROVE  i = j
  <2>1. CASE i = n + 1 \/ j = n + 1
    BY <1>1, <1>6, <1>7, <2>1
  <2>2. CASE i # n + 1 /\ j # n + 1
    <3>1. i \in 1 .. n /\ j \in 1 .. n
      BY <1>1, <2>2
    <3>. QED  BY <1>1, <1>7, <3>1 DEF Distinct, n
  <2>. QED  BY <2>1, <2>2
<1>8. \A i \in 1 .. Len(b) : m + i - 1 \in 1 .. (n + 1)
  BY <1>1, <1>3, <1>5
<1>9. Distinct(b)
  <2> SUFFICES ASSUME NEW i \in 1 .. Len(b), NEW j \in 1 .. Len(b), b[i] = b[j]
               PROVE  i = j
    BY DEF Distinct
  <2>1. m + i - 1 = m + j - 1
    BY <1>5, <1>7, <1>8, SMTT(30)
  <2>. QED  BY <1>1, <1>3, <2>1
<1>10. \A i \in 1 .. Len(b) : b[i] <= e
  BY <1>5, <1>6, <1>8, Zenon
<1>. QED  BY <1>3, <1>5, <1>9, <1>10 DEF a, b, n

-----------------------------------------------------------------------------
\* The list after each turn of the filter.
Turns(l, after) ==
  CHOOSE f : f = [i \in 0 .. Len(l) |->
                    IF i = 0 THEN <<>>
                    ELSE IF l[i] > after THEN Append(f[i - 1], l[i]) ELSE f[i - 1]]

\* They exist.
LEMMA FilterExists ==
  ASSUME NEW n \in Nat, NEW l \in [1 .. n -> Events], NEW after \in Nat
  PROVE  \E f \in [0 .. n -> Seq(Events)] :
            /\ f[0] = <<>>
            /\ \A i \in 1 .. n : f[i] = IF l[i] > after THEN Append(f[i - 1], l[i]) ELSE f[i - 1]
<1> DEFINE Turn(f, i) == IF l[i] > after THEN Append(f[i - 1], l[i]) ELSE f[i - 1]
           Partial(k) == \E f \in [0 .. k -> Seq(Events)] :
                            f[0] = <<>> /\ \A i \in 1 .. k : f[i] = Turn(f, i)
           P == {k \in Nat : k <= n => Partial(k)}
<1>1. 0 \in P
  <2> DEFINE f == [i \in 0 .. 0 |-> <<>>]
  <2>1. <<>> \in Seq(Events)
    OBVIOUS
  <2>2. f \in [0 .. 0 -> Seq(Events)] /\ f[0] = <<>> /\ 1 .. 0 = {}
    BY <2>1
  <2> HIDE DEF f
  <2>3. Partial(0)
    BY <2>2
  <2>. QED  BY <2>3
<1>2. ASSUME NEW k \in P
      PROVE  k + 1 \in P
  <2> HIDE DEF Partial
  <2> SUFFICES ASSUME k + 1 <= n
               PROVE  Partial(k + 1)
    OBVIOUS
  <2>1. k \in Nat /\ k <= n /\ Partial(k)
    OBVIOUS
  <2> USE DEF Partial
  <2>2. PICK f \in [0 .. k -> Seq(Events)] :
            f[0] = <<>> /\ \A i \in 1 .. k : f[i] = Turn(f, i)
    BY <2>1, Zenon
  <2>3. PICK x \in Seq(Events) : x = IF l[k + 1] > after THEN Append(f[k], l[k + 1]) ELSE f[k]
    <3>1. f[k] \in Seq(Events) /\ l[k + 1] \in Events
      BY <2>1, <2>2
    <3>2. Append(f[k], l[k + 1]) \in Seq(Events)
      BY <3>1, EventAppended, Zenon
    <3>. QED  BY <3>1, <3>2, Zenon
  <2> DEFINE g == [i \in 0 .. (k + 1) |-> IF i = k + 1 THEN x ELSE f[i]]
  <2>4. g \in [0 .. (k + 1) -> Seq(Events)]
    BY <2>1, <2>2, <2>3
  <2>5. g[0] = <<>> /\ g[k + 1] = x /\ \A i \in 0 .. k : g[i] = f[i]
    BY <2>1, <2>2
  <2> HIDE DEF g
  <2>6. ASSUME NEW i \in 1 .. (k + 1)
        PROVE  g[i] = Turn(g, i)
    <3>1. CASE i = k + 1
      <4>1. i - 1 = k /\ k \in 0 .. k
        BY <2>1, <3>1
      <4>. QED  BY <2>3, <2>5, <3>1, <4>1, Zenon
    <3>2. CASE i # k + 1
      <4>1. i \in 1 .. k /\ i - 1 \in 0 .. k /\ i \in 0 .. k
        BY <2>1, <3>2
      <4>. QED  BY <2>2, <2>5, <4>1, Zenon
    <3>. QED  BY <3>1, <3>2, Zenon
  <2>. QED  BY <2>4, <2>5, <2>6, Zenon
<1>3. P \in SUBSET Nat
  OBVIOUS
<1> HIDE DEF P
<1>4. P = Nat
  BY <1>1, <1>2, <1>3, Induction
<1> HIDE DEF Partial
<1>5. Partial(n)
  BY <1>4 DEF P
<1>. QED  BY <1>5, Zenon DEF Partial

\* The filter keeps the events after the cursor, and only these, each of them once.
LEMMA LaterFilters ==
  ASSUME NEW l \in Seq(Events), Distinct(l), NEW after \in Nat
  PROVE  /\ Later(l, after) \in Seq(Events)
         /\ Distinct(Later(l, after))
         /\ \A e : (\E i \in 1 .. Len(Later(l, after)) : Later(l, after)[i] = e)
                     <=> (e > after /\ \E i \in 1 .. Len(l) : l[i] = e)
<1> DEFINE n == Len(l)
           g == Turns(l, after)
           Def(f) == [i \in 0 .. n |->
                        IF i = 0 THEN <<>>
                        ELSE IF l[i] > after THEN Append(f[i - 1], l[i]) ELSE f[i - 1]]
<1>1. n \in Nat /\ l \in [1 .. n -> Events] /\ \A i \in 1 .. n : l[i] \in Events
  OBVIOUS
<1>2. Later(l, after) = g[n]
  BY DEF Later, Turns
<1> HIDE DEF n, g
<1>3. PICK f \in [0 .. n -> Seq(Events)] :
         /\ f[0] = <<>>
         /\ \A i \in 1 .. n : f[i] = IF l[i] > after THEN Append(f[i - 1], l[i]) ELSE f[i - 1]
  BY <1>1, FilterExists, Zenon
<1>4. f = Def(f)
  <2>1. \A i \in 0 .. n : i = 0 \/ (i # 0 /\ i \in 1 .. n)
    BY <1>1
  <2>2. \A i \in 0 .. n : f[i] = IF i = 0 THEN <<>>
                                 ELSE IF l[i] > after THEN Append(f[i - 1], l[i]) ELSE f[i - 1]
    BY <1>3, <2>1, Zenon
  <2>3. f = [i \in 0 .. n |-> f[i]]
    OBVIOUS
  <2>. QED  BY <2>2, <2>3, Zenon
<1>5. g = Def(g)
  BY <1>4, Zenon DEF g, Turns, n
<1>6. /\ g[0] = <<>>
      /\ \A i \in 1 .. n : g[i] = IF l[i] > after THEN Append(g[i - 1], l[i]) ELSE g[i - 1]
  <2>1. n \in Nat /\ 0 \in 0 .. n /\ \A i \in 1 .. n : i \in 0 .. n /\ i # 0
    BY <1>1
  <2>2. \A i \in 0 .. n : g[i] = IF i = 0 THEN <<>>
                                 ELSE IF l[i] > after THEN Append(g[i - 1], l[i]) ELSE g[i - 1]
    BY <1>5, Zenon
  <2>. QED  BY <2>1, <2>2, Zenon
<1> DEFINE Good(k) == /\ g[k] \in Seq(Events) /\ Distinct(g[k])
                      /\ \A e : (\E i \in 1 .. Len(g[k]) : g[k][i] = e)
                                  <=> (e > after /\ \E i \in 1 .. k : l[i] = e)
           P == {k \in Nat : k <= n => Good(k)}
<1>7. 0 \in P
  <2>1. <<>> \in Seq(Events) /\ Distinct(<<>>) /\ Len(<<>>) = 0 /\ 1 .. 0 = {}
    BY DEF Distinct
  <2>2. Good(0)
    BY <1>6, <2>1, Zenon
  <2>. QED  BY <2>2, Zenon
<1>8. ASSUME NEW k \in P
      PROVE  k + 1 \in P
  <2> HIDE DEF Good
  <2> SUFFICES ASSUME k + 1 <= n
               PROVE  Good(k + 1)
    OBVIOUS
  <2>0. k \in Nat /\ (k <= n => Good(k))
    OBVIOUS
  <2> USE DEF Good
  <2> DEFINE m == g[k]
             x == l[k + 1]
             e1 == g[k + 1]
  <2>1. k \in Nat /\ k + 1 \in 1 .. n /\ k <= n /\ (k + 1) - 1 = k /\ x \in Events
    BY <1>1, <2>0
  <2>2. e1 = IF x > after THEN Append(m, x) ELSE m
    BY <1>6, <2>1, Zenon
  <2>3. /\ m \in Seq(Events) /\ Distinct(m)
        /\ \A e : (\E i \in 1 .. Len(m) : m[i] = e) <=> (e > after /\ \E i \in 1 .. k : l[i] = e)
    BY <2>0, <2>1, Zenon
  <2>4. 1 .. (k + 1) = (1 .. k) \cup {k + 1} /\ k + 1 \notin 1 .. k
    BY <2>1
  <2>5. \A i \in 1 .. k : l[i] # x
    BY <1>1, <2>1, <2>4 DEF Distinct, n
  <2>6. \A e : (\E i \in 1 .. (k + 1) : l[i] = e) <=> ((\E i \in 1 .. k : l[i] = e) \/ e = x)
    BY <2>4, Zenon
  <2> HIDE DEF m, x, e1
  <2>7. CASE x > after
    <3>1. /\ e1 \in Seq(Events) /\ Len(e1) = Len(m) + 1 /\ (\A i \in 1 .. Len(m) : e1[i] = m[i])
          /\ e1[Len(m) + 1] = x /\ Len(m) \in Nat
      BY <2>1, <2>2, <2>3, <2>7, EventAppended
    <3>2. \A i \in 1 .. Len(m) : m[i] # x
      BY <2>3, <2>5, Zenon
    <3>3. 1 .. Len(e1) = (1 .. Len(m)) \cup {Len(m) + 1}
      BY <3>1
    <3>4. Distinct(e1)
      <4> SUFFICES ASSUME NEW i \in 1 .. Len(e1), NEW j \in 1 .. Len(e1), e1[i] = e1[j]
                   PROVE  i = j
        BY Zenon DEF Distinct
      <4>1. CASE i \in 1 .. Len(m) /\ j \in 1 .. Len(m)
        BY <2>3, <3>1, <4>1 DEF Distinct
      <4>2. CASE i = Len(m) + 1 \/ j = Len(m) + 1
        BY <3>1, <3>2, <3>3, <4>2, Zenon
      <4>. QED  BY <3>3, <4>1, <4>2, Zenon
    <3>5. \A e : (\E i \in 1 .. Len(e1) : e1[i] = e) <=> ((\E i \in 1 .. Len(m) : m[i] = e) \/ e = x)
      BY <3>1, <3>3, Zenon
    <3>6. \A e : (\E i \in 1 .. Len(e1) : e1[i] = e) <=> (e > after /\ \E i \in 1 .. (k + 1) : l[i] = e)
      BY <2>3, <2>6, <2>7, <3>5, Zenon
    <3>. QED  BY <3>1, <3>4, <3>6, Zenon DEF e1
  <2>8. CASE ~ (x > after)
    <3>1. e1 = m
      BY <2>2, <2>8, Zenon
    <3>2. \A e : (\E i \in 1 .. Len(e1) : e1[i] = e) <=> (e > after /\ \E i \in 1 .. (k + 1) : l[i] = e)
      BY <2>3, <2>6, <2>8, <3>1, Zenon
    <3>. QED  BY <2>3, <3>1, <3>2, Zenon DEF e1
  <2>. QED  BY <2>7, <2>8, Zenon
<1>9. P \in SUBSET Nat
  OBVIOUS
<1> HIDE DEF P
<1>10. P = Nat
  BY <1>7, <1>8, <1>9, Induction
<1> HIDE DEF Good
<1>11. Good(n)
  BY <1>1, <1>10 DEF P
<1>. QED  BY <1>2, <1>11, Zenon DEF n, Good

-----------------------------------------------------------------------------
\* What the console's log holds: the events of a life.
Logged == (1 .. Lives) \X Events

\* What the console remembers.
Consoles ==
  [cursor : 0 .. MaxRecorded, id : Ids \cup {None}, health : Ids \cup {None}, step : Steps]

\* The trace holds different events that are older than its next number.
Types ==
  /\ life \in 1 .. Lives
  /\ trace \in [next : 1 .. MaxRecorded + 1, events : Seq(Events)]
  /\ Len(trace.events) <= MaxEvents /\ Distinct(trace.events)
  /\ \A i \in 1 .. Len(trace.events) : trace.events[i] < trace.next
  /\ console \in Consoles
  /\ shown \in Seq(Logged)
  /\ missed \subseteq Logged
  /\ ahead \subseteq 1 .. Lives
  /\ carried \in 0 .. MaxRecorded

\* RepeatsAreExplained, of a log s.
Explained(s, met) ==
  \A i, j \in 1 .. Len(s) : i < j /\ s[i] = s[j] =>
    /\ s[i][1] \in met
    /\ \A k \in 1 .. Len(s) : k > j => s[k] # s[i]

\* What the console c knows of the events of life l that are in its log: they are older
\* than the next one; the console knows the instance, or has just forgotten it; those after
\* the cursor are there once and were met too early; and as long as the last health reply
\* names another instance, all of them are there once, up to the cursor.
Current(s, l, me, next, c, met) ==
  /\ \A i \in 1 .. Len(s) :
       /\ s[i][1] <= l
       /\ s[i][1] = l =>
            /\ s[i][2] < next
            /\ c.id \in {None, me} /\ c.step # "again"
            /\ c.health \notin {None, me} => l \in met /\ s[i][2] <= c.cursor /\ c.id = me
            /\ s[i][2] > c.cursor => l \in met /\ \A j \in 1 .. Len(s) : s[j] = s[i] => j = i
  /\ c.health \notin {None, me} =>
       \A i, j \in 1 .. Len(s) : s[i] = s[j] /\ s[i][1] = l => i = j

\* CursorPassesNothing, of a log s.
Passed(s, l, me, c, gone, kept) ==
  c.id = me => \A e \in 1 .. c.cursor : \/ <<l, e>> \in gone \/ e <= kept
                                        \/ \E i \in 1 .. Len(s) : s[i] = <<l, e>>

\* The inductive invariant of the console's tail.
TailInv ==
  /\ Types
  /\ console.id = None => console.cursor = 0
  /\ Passed(shown, life, InstanceId(life), console, missed, carried)
  /\ Explained(shown, ahead)
  /\ Current(shown, life, InstanceId(life), trace.next, console, ahead)

\* The log t is the log s and then the events e of life l.
Grown(t, s, l, e) ==
  /\ t \in Seq(Logged) /\ Len(t) = Len(s) + Len(e)
  /\ \A i \in 1 .. Len(s) : t[i] = s[i]
  /\ \A i \in 1 .. Len(e) : t[Len(s) + i] = <<l, e[i]>>

\* The log after some events of life l.
LEMMA LogGrows ==
  \A s \in Seq(Logged), l \in 1 .. Lives, e \in Seq(Events) :
    Grown(s \o [i \in DOMAIN e |-> <<l, e[i]>>], s, l, e)
<1> TAKE s \in Seq(Logged), l \in 1 .. Lives, e \in Seq(Events)
<1> DEFINE t == s \o [i \in DOMAIN e |-> <<l, e[i]>>]
           n == Len(e)
           a == [i \in 1 .. n |-> <<l, e[i]>>]
<1>1. n \in Nat /\ DOMAIN e = 1 .. n /\ \A i \in 1 .. n : <<l, e[i]>> \in Logged
  BY DEF Logged
<1>2. a \in [1 .. n -> Logged] /\ \A i \in 1 .. n : a[i] = <<l, e[i]>>
  BY <1>1
<1>3. t = s \o a
  BY <1>1
<1> HIDE DEF a, n, t
<1>4. a \in Seq(Logged) /\ Len(a) = n
  BY <1>1, <1>2
<1>5. \A b, c \in Seq(Logged) :
        /\ b \o c \in Seq(Logged) /\ Len(b \o c) = Len(b) + Len(c)
        /\ \A j \in 1 .. Len(b) : (b \o c)[j] = b[j]
        /\ \A j \in 1 .. Len(c) : (b \o c)[Len(b) + j] = c[j]
  OBVIOUS
<1>6. /\ t \in Seq(Logged) /\ Len(t) = Len(s) + Len(a)
      /\ \A j \in 1 .. Len(s) : t[j] = s[j]
      /\ \A j \in 1 .. Len(a) : t[Len(s) + j] = a[j]
  <2>1. /\ s \o a \in Seq(Logged) /\ Len(s \o a) = Len(s) + Len(a)
        /\ \A j \in 1 .. Len(s) : (s \o a)[j] = s[j]
        /\ \A j \in 1 .. Len(a) : (s \o a)[Len(s) + j] = a[j]
    BY <1>4, <1>5, Zenon
  <2>. QED  BY <1>3, <2>1, Zenon
<1>7. Grown(t, s, l, e)
  BY <1>2, <1>4, <1>6, Zenon DEF n, Grown
<1>. QED  BY <1>7 DEF t

\* New events repeat at most those that were there once and met too early.
LEMMA RepeatsGoOn ==
  ASSUME NEW s \in Seq(Logged), NEW l \in 1 .. Lives, NEW e \in Seq(Events), Distinct(e),
         NEW met, NEW met1, met \subseteq met1, Explained(s, met),
         \A i \in 1 .. Len(s) : \A k \in 1 .. Len(e) : s[i] = <<l, e[k]>> =>
            l \in met /\ \A j \in 1 .. Len(s) : s[j] = s[i] => j = i,
         NEW t \in Seq(Logged), Len(t) = Len(s) + Len(e),
         \A i \in 1 .. Len(s) : t[i] = s[i],
         \A i \in 1 .. Len(e) : t[Len(s) + i] = <<l, e[i]>>
  PROVE  Explained(t, met1)
<1> DEFINE n == Len(s)
<1>1. n \in Nat /\ Len(e) \in Nat
  OBVIOUS
<1>2. \A i \in 1 .. Len(t) : i > n => \E k \in 1 .. Len(e) : i = n + k /\ t[i] = <<l, e[k]>>
  <2> SUFFICES ASSUME NEW i \in 1 .. Len(t), i > n
               PROVE  \E k \in 1 .. Len(e) : i = n + k /\ t[i] = <<l, e[k]>>
    OBVIOUS
  <2>1. i - n \in 1 .. Len(e) /\ n + (i - n) = i
    BY <1>1
  <2>2. t[n + (i - n)] = <<l, e[i - n]>>
    BY <2>1, Zenon
  <2>. QED  BY <2>1, <2>2, Zenon
<1>3. ASSUME NEW i \in 1 .. Len(t), NEW j \in 1 .. Len(t), i > n, j > n, t[i] = t[j]
      PROVE  i = j
  <2>1. PICK k \in 1 .. Len(e) : i = n + k /\ t[i] = <<l, e[k]>>
    BY <1>2, <1>3, Zenon
  <2>2. PICK m \in 1 .. Len(e) : j = n + m /\ t[j] = <<l, e[m]>>
    BY <1>2, <1>3, Zenon
  <2>3. e[k] = e[m]
    BY <1>3, <2>1, <2>2
  <2>. QED  BY <2>1, <2>2, <2>3, Zenon DEF Distinct
<1> SUFFICES ASSUME NEW i \in 1 .. Len(t), NEW j \in 1 .. Len(t), i < j, t[i] = t[j]
             PROVE  t[i][1] \in met1 /\ \A k \in 1 .. Len(t) : k > j => t[k] # t[i]
  BY Zenon DEF Explained
<1>4. CASE j <= n
  <2>1. i \in 1 .. n /\ j \in 1 .. n /\ t[i] = s[i] /\ t[j] = s[j]
    BY <1>1, <1>4
  <2>2. s[i][1] \in met /\ \A k \in 1 .. n : k > j => s[k] # s[i]
    BY <2>1, Zenon DEF Explained
  <2>3. ASSUME NEW k \in 1 .. Len(t), k > j, t[k] = t[i]
        PROVE  FALSE
    <3>1. CASE k <= n
      BY <1>1, <2>1, <2>2, <2>3, <3>1
    <3>2. CASE k > n
      <4>1. PICK m \in 1 .. Len(e) : t[k] = <<l, e[m]>>
        BY <1>2, <3>2, Zenon
      <4>2. s[i] = <<l, e[m]>> /\ s[j] = s[i]
        BY <2>1, <2>3, <4>1, Zenon
      <4>3. j = i
        BY <2>1, <4>2, Zenon
      <4>. QED  BY <4>3
    <3>. QED  BY <1>1, <3>1, <3>2
  <2>. QED  BY <2>1, <2>2, <2>3, Zenon
<1>5. CASE j > n /\ i <= n
  <2>1. i \in 1 .. n /\ t[i] = s[i]
    BY <1>1, <1>5
  <2>2. PICK m \in 1 .. Len(e) : t[j] = <<l, e[m]>>
    BY <1>2, <1>5, Zenon
  <2>3. l \in met /\ t[i][1] = l
    <3>1. s[i] = <<l, e[m]>> /\ t[i] = <<l, e[m]>>
      BY <2>1, <2>2, Zenon
    <3>2. l \in met
      BY <2>1, <3>1, Zenon
    <3>. QED  BY <3>1, <3>2
  <2>4. \A k \in 1 .. Len(t) : k > j => t[k] # t[i]
    BY <1>1, <1>3, <1>5
  <2>. QED  BY <2>3, <2>4, Zenon
<1>6. CASE j > n /\ i > n
  BY <1>3, <1>6
<1>. QED  BY <1>1, <1>4, <1>5, <1>6

\* The parts of the types.
LEMMA Parts ==
  ASSUME TailAssumption, Types
  PROVE  /\ MaxRecorded \in Nat /\ Lives \in Nat /\ life \in Nat /\ life <= Lives /\ life >= 1
         /\ trace.next \in Nat /\ trace.next >= 1 /\ trace.next - 1 <= MaxRecorded
         /\ trace.events \in Seq(Events)
         /\ console.cursor \in Nat /\ console.cursor <= MaxRecorded
         /\ console.id \in Ids \cup {None} /\ console.health \in Ids \cup {None} /\ console.step \in Steps
         /\ InstanceId(life) \in Ids /\ InstanceId(life) # None
BY SMTT(30) DEF Types, TailAssumption, Consoles, Ids

\* The console's record after a step of its refresh.
LEMMA StepChanged ==
  ASSUME NEW c \in Consoles, NEW d \in Steps, NEW t, t = [c EXCEPT !.step = d]
  PROVE  /\ t \in Consoles
         /\ t.cursor = c.cursor /\ t.id = c.id /\ t.health = c.health /\ t.step = d
BY DEF Consoles

\* A reply of the instance that the console knows, or of the first one, is logged.
LEMMA ReplyIsLogged ==
  ASSUME TailAssumption, TailInv, console.id \in {None, InstanceId(life)}, NEW after \in Nat,
         NEW retry, ApplyTrace(Reply(after), after, retry), UNCHANGED <<life, trace>>,
         carried' \in 0 .. MaxRecorded,
         \A e \in 1 .. (trace.next - 1) : e <= carried => e <= carried',
         after = console.cursor \/ (after = 0 /\ console.step = "again")
  PROVE  TailInv'
<1> DEFINE me == InstanceId(life)
           l == life
           s == shown
           n == Len(shown)
           e == Later(trace.events, after)
           c == console'
<1>1. /\ MaxRecorded \in Nat /\ Lives \in Nat /\ life \in Nat /\ life <= Lives /\ life >= 1
      /\ trace.next \in Nat /\ trace.next >= 1 /\ trace.next - 1 <= MaxRecorded
      /\ trace.events \in Seq(Events)
      /\ console.cursor \in Nat /\ console.cursor <= MaxRecorded
      /\ me \in Ids /\ me # None /\ console \in Consoles
      /\ shown \in Seq(Logged) /\ n \in Nat
  BY Parts, SMTT(30) DEF TailInv, Types
<1>2. ~ (console.id # None /\ console.id # me)
  OBVIOUS
<1>3. /\ console' = [cursor |-> trace.next - 1, id |-> me, health |-> console.health, step |-> "idle"]
      /\ shown' = shown \o [i \in DOMAIN e |-> <<life, e[i]>>]
      /\ missed' = missed \cup {<<life, x>> : x \in (after + 1 .. trace.next - 1) \ Retained}
      /\ ahead' = IF console.health \notin {None, me} THEN ahead \cup {life} ELSE ahead
  BY <1>2, ZenonT(30) DEF ApplyTrace, Reply
<1>4. /\ c \in Consoles
      /\ c.cursor = trace.next - 1 /\ c.id = me /\ c.health = console.health /\ c.step = "idle"
  <2>1. trace.next - 1 \in 0 .. MaxRecorded /\ me \in Ids \cup {None} /\ "idle" \in Steps
    BY <1>1 DEF Steps
  <2>2. console.health \in Ids \cup {None}
    BY <1>1, Zenon DEF Consoles
  <2>. QED  BY <1>3, <2>1, <2>2, Zenon DEF Consoles
<1>5. /\ e \in Seq(Events) /\ Distinct(e)
      /\ \A x : (\E i \in 1 .. Len(e) : e[i] = x) <=> (x > after /\ \E i \in 1 .. Len(trace.events) : trace.events[i] = x)
  <2>1. Distinct(trace.events)
    BY Zenon DEF TailInv, Types
  <2>. QED  BY <1>1, <2>1, LaterFilters, Zenon
<1> HIDE DEF e
<1>6. \A i \in 1 .. Len(e) : e[i] \in Nat /\ e[i] > after /\ e[i] < trace.next
  <2> TAKE i \in 1 .. Len(e)
  <2>1. e[i] > after /\ \E k \in 1 .. Len(trace.events) : trace.events[k] = e[i]
    BY <1>5, Zenon
  <2>2. \A k \in 1 .. Len(trace.events) : trace.events[k] < trace.next
    BY Zenon DEF TailInv, Types
  <2>3. e[i] \in Nat
    BY <1>1, <1>5, SMTT(30) DEF Events
  <2>. QED  BY <2>1, <2>2, <2>3, Zenon
<1>7. /\ shown' \in Seq(Logged) /\ Len(shown') = n + Len(e)
      /\ \A i \in 1 .. n : shown'[i] = shown[i]
      /\ \A i \in 1 .. Len(e) : shown'[n + i] = <<life, e[i]>>
  <2>1. life \in 1 .. Lives
    BY <1>1
  <2>2. e \in Seq(Events) /\ shown \in Seq(Logged)
    BY <1>1, <1>5, Zenon
  <2>3. Grown(shown', shown, life, e)
    BY <1>3, <2>1, <2>2, LogGrows, ZenonT(30)
  <2>. QED  BY <2>3, Zenon DEF Grown
<1>8. Current(shown, life, me, trace.next, console, ahead)
  BY Zenon DEF TailInv
<1>9. \A i \in 1 .. n : shown[i] \in Logged /\ shown[i][1] \in Nat /\ shown[i][2] \in Nat
  <2>1. \A p \in Logged : p[1] \in Nat /\ p[2] \in Nat
    BY <1>1, SMTT(30) DEF Logged, Events
  <2>2. \A i \in 1 .. n : shown[i] \in Logged
    BY <1>1
  <2>. QED  BY <2>1, <2>2, Zenon
<1>10. \A i \in 1 .. n : shown[i][1] = life /\ shown[i][2] > after =>
          /\ life \in ahead /\ \A j \in 1 .. n : shown[j] = shown[i] => j = i
          /\ console.health \in {None, me}
  <2> SUFFICES ASSUME NEW i \in 1 .. n, shown[i][1] = life, shown[i][2] > after
               PROVE  /\ life \in ahead /\ \A j \in 1 .. n : shown[j] = shown[i] => j = i
                      /\ console.health \in {None, me}
    OBVIOUS
  <2>1. /\ console.step # "again"
        /\ console.health \notin {None, me} => shown[i][2] <= console.cursor
        /\ shown[i][2] > console.cursor =>
             life \in ahead /\ \A j \in 1 .. n : shown[j] = shown[i] => j = i
    BY <1>8, Zenon DEF Current
  <2>2. after = console.cursor
    BY <2>1, Zenon
  <2>. QED  BY <1>1, <1>9, <2>1, <2>2, SMTT(30)
<1>11. ahead \subseteq ahead' /\ ahead' \subseteq 1 .. Lives
       /\ (console.health \notin {None, me} => life \in ahead')
  <2>1. ahead \subseteq 1 .. Lives /\ life \in 1 .. Lives
    BY Zenon DEF TailInv, Types
  <2>. QED  BY <1>3, <2>1, Zenon
<1>12. Explained(shown', ahead')
  <2>1. Explained(shown, ahead) /\ life \in 1 .. Lives
    BY Zenon DEF TailInv, Types
  <2>2. ASSUME NEW i \in 1 .. n, NEW k \in 1 .. Len(e), shown[i] = <<life, e[k]>>
        PROVE  life \in ahead /\ \A j \in 1 .. n : shown[j] = shown[i] => j = i
    <3>1. shown[i][1] = life /\ shown[i][2] > after
      BY <1>6, <2>2
    <3>. QED  BY <1>10, <3>1, Zenon
  <2>. QED  BY <1>1, <1>5, <1>7, <1>11, <2>1, <2>2, RepeatsGoOn, ZenonT(30)
<1>13. \A i \in 1 .. Len(shown') : i \in 1 .. n \/ \E k \in 1 .. Len(e) : i = n + k
  <2> TAKE i \in 1 .. Len(shown')
  <2>1. Len(e) \in Nat
    BY <1>5
  <2>2. CASE i <= n
    BY <1>1, <2>2
  <2>3. CASE i > n
    <3>1. i - n \in 1 .. Len(e) /\ i = n + (i - n)
      BY <1>1, <1>7, <2>1, <2>3
    <3>. QED  BY <3>1, Zenon
  <2>. QED  BY <1>1, <2>2, <2>3
<1>14. \A i \in 1 .. Len(shown') :
         /\ shown'[i][1] \in Nat /\ shown'[i][2] \in Nat
         /\ shown'[i][1] <= life
         /\ shown'[i][1] = life => shown'[i][2] < trace.next
  <2> TAKE i \in 1 .. Len(shown')
  <2>1. CASE i \in 1 .. n
    <3>1. shown[i][1] <= life /\ (shown[i][1] = life => shown[i][2] < trace.next)
      BY <1>8, <2>1, Zenon DEF Current
    <3>. QED  BY <1>7, <1>9, <2>1, <3>1, Zenon
  <2>2. ASSUME NEW k \in 1 .. Len(e), i = n + k
        PROVE  /\ shown'[i][1] \in Nat /\ shown'[i][2] \in Nat
               /\ shown'[i][1] <= life
               /\ shown'[i][1] = life => shown'[i][2] < trace.next
    <3>1. shown'[i] = <<life, e[k]>>
      BY <1>7, <2>2, Zenon
    <3>. QED  BY <1>1, <1>6, <3>1, SMTT(30)
  <2>. QED  BY <1>13, <2>1, <2>2, Zenon
<1>15. ASSUME console.health \notin {None, me}, NEW i \in 1 .. Len(shown'), NEW j \in 1 .. Len(shown'),
              shown'[i] = shown'[j], shown'[i][1] = life
       PROVE  i = j
  <2>1. \A x \in 1 .. n : shown[x][1] = life => ~ (shown[x][2] > after)
    BY <1>10, <1>15, Zenon
  <2>2. \A x \in 1 .. n, k \in 1 .. Len(e) : shown[x] # <<life, e[k]>>
    BY <1>6, <2>1, SMTT(30)
  <2>3. CASE i \in 1 .. n /\ j \in 1 .. n
    <3>1. shown[i] = shown[j] /\ shown[i][1] = life
      BY <1>7, <1>15, <2>3, Zenon
    <3>. QED  BY <1>8, <1>15, <2>3, <3>1, Zenon DEF Current
  <2>4. ASSUME i \in 1 .. n, NEW k \in 1 .. Len(e), j = n + k
        PROVE  FALSE
    BY <1>7, <1>15, <2>2, <2>4, SMTT(30)
  <2>5. ASSUME j \in 1 .. n, NEW k \in 1 .. Len(e), i = n + k
        PROVE  FALSE
    BY <1>7, <1>15, <2>2, <2>5, SMTT(30)
  <2>6. ASSUME NEW k \in 1 .. Len(e), i = n + k, NEW m \in 1 .. Len(e), j = n + m
        PROVE  i = j
    <3>1. <<life, e[k]>> = <<life, e[m]>>
      BY <1>7, <1>15, <2>6
    <3>2. e[k] = e[m]
      BY <3>1, Zenon
    <3>. QED  BY <1>5, <2>6, <3>2, Zenon DEF Distinct
  <2>. QED  BY <1>13, <2>3, <2>4, <2>5, <2>6, Zenon
<1>16. Current(shown', life, me, trace.next, c, ahead')
  <2>1. c.cursor = trace.next - 1 /\ c.id = me /\ c.health = console.health /\ c.step = "idle"
    BY <1>4, Zenon
  <2> HIDE DEF c
  <2>2. ASSUME NEW i \in 1 .. Len(shown')
        PROVE  /\ shown'[i][1] <= life
               /\ shown'[i][1] = life =>
                    /\ shown'[i][2] < trace.next
                    /\ c.id \in {None, me} /\ c.step # "again"
                    /\ c.health \notin {None, me} => life \in ahead' /\ shown'[i][2] <= c.cursor /\ c.id = me
                    /\ ~ (shown'[i][2] > c.cursor)
    <3>1. shown'[i][1] = life => shown'[i][2] <= trace.next - 1 /\ ~ (shown'[i][2] > trace.next - 1)
      BY <1>1, <1>14, SMTT(30)
    <3>. QED  BY <1>11, <1>14, <2>1, <3>1, Zenon
  <2>3. c.health \notin {None, me} =>
          \A i, j \in 1 .. Len(shown') : shown'[i] = shown'[j] /\ shown'[i][1] = life => i = j
    BY <1>15, <2>1, Zenon
  <2>. QED  BY <2>2, <2>3, Zenon DEF Current
<1>17. ASSUME NEW x \in 1 .. (trace.next - 1)
       PROVE  \/ <<life, x>> \in missed' \/ x <= carried'
              \/ \E i \in 1 .. Len(shown') : shown'[i] = <<life, x>>
  <2>1. x \in Nat
    OBVIOUS
  <2>2. CASE x > after
    <3>1. CASE x \in Retained
      <4>1. \E i \in 1 .. Len(trace.events) : trace.events[i] = x
        BY <1>1, <3>1 DEF Retained
      <4>2. PICK k \in 1 .. Len(e) : e[k] = x
        BY <1>5, <2>2, <4>1, Zenon
      <4>3. n + k \in 1 .. Len(shown') /\ shown'[n + k] = <<life, x>>
        <5>1. Len(e) \in Nat
          BY <1>5
        <5>. QED  BY <1>1, <1>7, <4>2, <5>1, SMTT(30)
      <4>. QED  BY <4>3, Zenon
    <3>2. CASE x \notin Retained
      <4>1. x \in (after + 1 .. trace.next - 1) \ Retained
        BY <1>1, <2>2, <3>2, SMTT(30)
      <4>. QED  BY <1>3, <4>1, Zenon
    <3>. QED  BY <3>1, <3>2, Zenon
  <2>3. CASE x <= after
    <3>1. after = console.cursor /\ console.cursor >= 1 /\ x \in 1 .. console.cursor
      BY <1>1, <2>3, SMTT(30)
    <3>2. console.id = me
      <4>1. console.id = None => console.cursor = 0
        BY Zenon DEF TailInv
      <4>2. console.cursor # 0
        <5>1. console.cursor \in Nat
          BY <1>1, Zenon
        <5>. QED  BY <3>1, <5>1
      <4>. QED  BY <4>1, <4>2, Zenon
    <3>3. \/ <<life, x>> \in missed \/ x <= carried \/ \E i \in 1 .. n : shown[i] = <<life, x>>
      <4>1. Passed(shown, life, me, console, missed, carried)
        BY Zenon DEF TailInv
      <4>. QED  BY <3>1, <3>2, <4>1, Zenon DEF Passed
    <3>4. ASSUME NEW i \in 1 .. n, shown[i] = <<life, x>>
          PROVE  \E k \in 1 .. Len(shown') : shown'[k] = <<life, x>>
      <4>1. i \in 1 .. Len(shown') /\ Len(e) \in Nat
        <5>1. n \in Nat /\ Len(e) \in Nat /\ Len(shown') = n + Len(e)
          <6>1. Len(e) \in Nat
            BY <1>5
          <6>. QED  BY <1>1, <1>7, <6>1, Zenon
        <5> HIDE DEF e, n
        <5>. QED  BY <5>1
      <4>. QED  BY <1>7, <3>4, <4>1, Zenon
    <3>. QED  BY <1>3, <3>3, <3>4, Zenon
  <2>. QED  BY <2>1, <2>2, <2>3
<1>18. Passed(shown', life, me, c, missed', carried')
  BY <1>4, <1>17, Zenon DEF Passed
<1>19. missed' \subseteq Logged
  <2>1. \A x \in (after + 1 .. trace.next - 1) : <<life, x>> \in Logged
    <3>1. /\ MaxRecorded \in Nat /\ trace.next \in Nat /\ trace.next - 1 <= MaxRecorded
          /\ life \in 1 .. Lives
      BY <1>1, Zenon DEF TailInv, Types
    <3>2. \A x \in (after + 1 .. trace.next - 1) : x \in Events
      BY <3>1 DEF Events
    <3>. QED  BY <3>1, <3>2, Zenon DEF Logged
  <2>2. missed \subseteq Logged
    BY Zenon DEF TailInv, Types
  <2>. QED  BY <1>3, <2>1, <2>2, Zenon
<1>20. Types'
  <2>1. /\ life' \in 1 .. Lives
        /\ trace' \in [next : 1 .. MaxRecorded + 1, events : Seq(Events)]
        /\ Len(trace'.events) <= MaxEvents /\ Distinct(trace'.events)
        /\ \A i \in 1 .. Len(trace'.events) : trace'.events[i] < trace'.next
    BY Zenon DEF TailInv, Types
  <2>. QED  BY <1>4, <1>7, <1>11, <1>19, <2>1, Zenon DEF Types
<1>21. console'.id # None
  BY <1>1, <1>4, Zenon
<1>22. /\ Passed(shown, life, InstanceId(life), console, missed, carried)'
       /\ Explained(shown, ahead)'
       /\ Current(shown, life, InstanceId(life), trace.next, console, ahead)'
  BY <1>4, <1>12, <1>16, <1>18, Zenon
<1>. QED  BY <1>20, <1>21, <1>22, Zenon DEF TailInv

\* A console that has logged nothing of the current life knows nothing wrong of it.
LEMMA NothingLogged ==
  ASSUME NEW s, NEW l, NEW me, NEW next, NEW c, NEW met,
         \A i \in 1 .. Len(s) : s[i][1] <= l /\ s[i][1] # l
  PROVE  Current(s, l, me, next, c, met)
BY Zenon DEF Current

\* A reply of another instance than the one the console knows resets the cursor.
LEMMA ReplyIsRefused ==
  ASSUME TailAssumption, TailInv, console.id \notin {None, InstanceId(life)}, NEW after \in Nat,
         NEW retry \in BOOLEAN, ApplyTrace(Reply(after), after, retry), UNCHANGED <<life, trace>>,
         carried' \in 0 .. MaxRecorded
  PROVE  TailInv'
<1> DEFINE me == InstanceId(life)
<1>1. /\ me \in Ids /\ me # None /\ console \in Consoles /\ MaxRecorded \in Nat
      /\ console.health \in Ids \cup {None}
  BY Parts, Zenon DEF TailInv, Types
<1>2. /\ console' = [cursor |-> 0, id |-> me, health |-> console.health,
                     step |-> IF retry THEN "again" ELSE "idle"]
      /\ UNCHANGED <<shown, missed, ahead>>
  BY Zenon DEF ApplyTrace, Reply
<1>3. PICK d \in Steps : d = IF retry THEN "again" ELSE "idle"
  BY Zenon DEF Steps
<1>4. console' \in Consoles /\ console'.cursor = 0 /\ console'.id = me
  <2>1. console' = [cursor |-> 0, id |-> me, health |-> console.health, step |-> d]
    BY <1>2, <1>3, ZenonT(30)
  <2>. QED  BY <1>1, <2>1, SMTT(30) DEF Consoles
<1>5. \A i \in 1 .. Len(shown) : shown[i][1] <= life /\ shown[i][1] # life
  BY Zenon DEF TailInv, Current
<1>6. Current(shown, life, me, trace.next, console', ahead)
  BY <1>5, NothingLogged, Zenon
<1>7. Passed(shown, life, me, console', missed, carried')
  BY <1>4 DEF Passed
<1>8. Types'
  <2>1. Types
    BY ZenonT(30) DEF TailInv
  <2>. QED  BY <1>2, <1>4, <2>1, Zenon DEF Types
<1>9. Explained(shown, ahead)
  BY Zenon DEF TailInv
<1>10. /\ Passed(shown, life, InstanceId(life), console, missed, carried)'
       /\ Explained(shown, ahead)'
       /\ Current(shown, life, InstanceId(life), trace.next, console, ahead)'
       /\ (console.id # None)'
  BY <1>1, <1>2, <1>4, <1>6, <1>7, <1>9, Zenon
<1>. QED  BY <1>8, <1>10, Zenon DEF TailInv

\* A step of the console that only moves its refresh on.
LEMMA StepMoves ==
  ASSUME TailAssumption, TailInv, NEW d \in Steps, d # "again", console' = [console EXCEPT !.step = d],
         UNCHANGED <<life, trace, shown, missed, ahead, carried>>
  PROVE  TailInv'
<1>1. /\ console \in Consoles /\ Types
      /\ Passed(shown, life, InstanceId(life), console, missed, carried)
      /\ Explained(shown, ahead)
      /\ Current(shown, life, InstanceId(life), trace.next, console, ahead)
      /\ console.id = None => console.cursor = 0
  BY DEF TailInv, Types
<1>2. /\ console' \in Consoles
      /\ console'.cursor = console.cursor /\ console'.id = console.id
      /\ console'.health = console.health /\ console'.step = d
  BY <1>1, StepChanged
<1>3. Types'
  BY <1>1, <1>2 DEF Types
<1>4. Passed(shown, life, InstanceId(life), console', missed, carried)
  BY <1>1, <1>2, ZenonT(30) DEF Passed
<1>5. Current(shown, life, InstanceId(life), trace.next, console', ahead)
  BY <1>1, <1>2, Zenon DEF Current
<1>6. /\ Passed(shown, life, InstanceId(life), console, missed, carried)'
      /\ Explained(shown, ahead)'
      /\ Current(shown, life, InstanceId(life), trace.next, console, ahead)'
      /\ (console.id = None => console.cursor = 0)'
  BY <1>1, <1>2, <1>4, <1>5
<1>. QED  BY <1>3, <1>6 DEF TailInv

\* A recorded event is new.
LEMMA RecordKeeps ==
  ASSUME TailAssumption, TailInv, Record
  PROVE  TailInv'
<1> DEFINE e == Bounded(Append(trace.events, trace.next))
<1>1. /\ trace.next \in Nat /\ trace.next >= 1 /\ trace.next <= MaxRecorded
      /\ trace.events \in Seq(Events) /\ MaxRecorded \in Nat
      /\ trace' = [next |-> trace.next + 1, events |-> e]
      /\ UNCHANGED <<life, console, shown, missed, ahead, carried>>
  BY Parts, ZenonT(30) DEF TailInv, Record
<1>2. /\ Types
      /\ Passed(shown, life, InstanceId(life), console, missed, carried)
      /\ Explained(shown, ahead)
      /\ Current(shown, life, InstanceId(life), trace.next, console, ahead)
      /\ console.id = None => console.cursor = 0
  BY Zenon DEF TailInv
<1>3. /\ e \in Seq(Events) /\ Len(e) <= MaxEvents /\ Distinct(e)
      /\ \A i \in 1 .. Len(e) : e[i] < trace.next + 1
  <2>1. /\ trace.events \in Seq(Events) /\ trace.next \in Events /\ Distinct(trace.events)
        /\ Len(trace.events) <= MaxEvents /\ \A i \in 1 .. Len(trace.events) : trace.events[i] < trace.next
    BY <1>1, <1>2 DEF Types, Events
  <2>2. /\ e \in Seq(Events) /\ Distinct(e) /\ Len(e) <= MaxEvents
        /\ \A i \in 1 .. Len(e) : e[i] <= trace.next
    BY <2>1, BoundedKeeps, Zenon
  <2> HIDE DEF e
  <2>3. \A i \in 1 .. Len(e) : e[i] \in Nat
    BY <1>1, <2>2, SMTT(30) DEF Events
  <2>. QED  BY <1>1, <2>2, <2>3, SMTT(30)
<1> HIDE DEF e
<1>4. trace'.next = trace.next + 1 /\ trace'.events = e
      /\ trace' \in [next : 1 .. MaxRecorded + 1, events : Seq(Events)]
  BY <1>1, <1>3, SMTT(30)
<1>5. Types'
  BY <1>1, <1>2, <1>3, <1>4, Zenon DEF Types
<1>6. \A i \in 1 .. Len(shown) : shown[i][2] \in Nat
  <2>1. \A p \in Logged : p[2] \in Nat
    BY <1>1 DEF Logged, Events
  <2>2. \A i \in 1 .. Len(shown) : shown[i] \in Logged
    BY <1>2 DEF Types
  <2>. QED  BY <2>1, <2>2, Zenon
<1>7. Current(shown, life, InstanceId(life), trace.next + 1, console, ahead)
  <2>1. \A i \in 1 .. Len(shown) : shown[i][2] < trace.next => shown[i][2] < trace.next + 1
    BY <1>1, <1>6, SMTT(30)
  <2>. QED  BY <1>2, <2>1, Zenon DEF Current
<1>8. /\ Passed(shown, life, InstanceId(life), console, missed, carried)'
      /\ Explained(shown, ahead)'
      /\ Current(shown, life, InstanceId(life), trace.next, console, ahead)'
      /\ (console.id = None => console.cursor = 0)'
  BY <1>1, <1>2, <1>4, <1>7, ZenonT(30)
<1>. QED  BY <1>5, <1>8, Zenon DEF TailInv

\* A new life starts with an empty trace and nothing of it in the console's log.
LEMMA RestartKeeps ==
  ASSUME TailAssumption, TailInv, Restart
  PROVE  TailInv'
<1> DEFINE me == InstanceId(life + 1)
<1>1. /\ life \in Nat /\ life >= 1 /\ life + 1 \in 1 .. Lives /\ life' = life + 1
      /\ MaxRecorded \in Nat /\ console.cursor \in 0 .. MaxRecorded
      /\ trace' = NewTrace
      /\ carried' = IF console.id = me THEN console.cursor ELSE 0
      /\ UNCHANGED <<console, shown, missed, ahead>>
  <2>1. /\ life < Lives /\ life' = life + 1 /\ trace' = NewTrace
        /\ carried' = IF console.id = me THEN console.cursor ELSE 0
        /\ UNCHANGED <<console, shown, missed, ahead>>
    BY Zenon DEF Restart
  <2>2. /\ life \in Nat /\ life >= 1 /\ Lives \in Nat /\ MaxRecorded \in Nat
        /\ console.cursor \in Nat /\ console.cursor <= MaxRecorded
    BY Parts, Zenon DEF TailInv
  <2>3. life + 1 \in 1 .. Lives /\ console.cursor \in 0 .. MaxRecorded
    BY <2>1, <2>2, SMTT(30)
  <2>. QED  BY <2>1, <2>2, <2>3, Zenon
<1>2. /\ Types /\ Explained(shown, ahead)
      /\ Current(shown, life, InstanceId(life), trace.next, console, ahead)
      /\ console.id = None => console.cursor = 0
  BY Zenon DEF TailInv
<1>3. /\ trace'.next = 1 /\ trace'.events = <<>>
      /\ trace' \in [next : 1 .. MaxRecorded + 1, events : Seq(Events)]
      /\ Len(trace'.events) = 0
  BY <1>1, SMTT(30) DEF NewTrace
<1>4. carried' \in 0 .. MaxRecorded /\ (console.id = me => carried' = console.cursor)
  BY <1>1, SMTT(30)
<1>5. Types'
  <2>1. Len(trace'.events) <= MaxEvents /\ Distinct(trace'.events)
        /\ \A i \in 1 .. Len(trace'.events) : trace'.events[i] < trace'.next
    BY <1>3 DEF Distinct, TailAssumption
  <2>. QED  BY <1>1, <1>2, <1>3, <1>4, <2>1, Zenon DEF Types
<1>6. \A i \in 1 .. Len(shown) : shown[i][1] \in Nat
  <2>1. \A p \in Logged : p[1] \in Nat
    BY <1>1 DEF Logged, TailAssumption
  <2>2. \A i \in 1 .. Len(shown) : shown[i] \in Logged
    BY <1>2 DEF Types
  <2>. QED  BY <2>1, <2>2, Zenon
<1>7. \A i \in 1 .. Len(shown) : shown[i][1] <= life + 1 /\ shown[i][1] # life + 1
  <2>1. \A i \in 1 .. Len(shown) : shown[i][1] <= life
    BY <1>2, Zenon DEF Current
  <2>. QED  BY <1>1, <1>6, <2>1, SMTT(30)
<1>8. Current(shown, life + 1, me, trace'.next, console, ahead)
  BY <1>7, NothingLogged, Zenon
<1>9. Passed(shown, life + 1, me, console, missed, carried')
  <2> SUFFICES ASSUME console.id = me, NEW e \in 1 .. console.cursor
               PROVE  e <= carried'
    BY Zenon DEF Passed
  <2>. QED  BY <1>1, <1>4
<1>10. /\ Passed(shown, life, InstanceId(life), console, missed, carried)'
       /\ Explained(shown, ahead)'
       /\ Current(shown, life, InstanceId(life), trace.next, console, ahead)'
       /\ (console.id = None => console.cursor = 0)'
  BY <1>1, <1>2, <1>8, <1>9, Zenon
<1>. QED  BY <1>5, <1>10, Zenon DEF TailInv

\* A health reply: of another instance than the last one it makes the console forget its
\* cursor, and what it had logged of this life it had logged once.
LEMMA HealthKeeps ==
  ASSUME TailAssumption, TailInv, Health
  PROVE  TailInv'
<1> DEFINE me == InstanceId(life)
<1>1. /\ me \in Ids /\ me # None /\ console \in Consoles /\ MaxRecorded \in Nat
      /\ console.health \in Ids \cup {None} /\ console.id \in Ids \cup {None}
      /\ console.cursor \in 0 .. MaxRecorded
      /\ UNCHANGED <<life, trace, shown, missed, ahead, carried>>
  <2>1. UNCHANGED <<life, trace, shown, missed, ahead, carried>>
    BY Zenon DEF Health
  <2>2. /\ me \in Ids /\ me # None /\ MaxRecorded \in Nat
        /\ console.health \in Ids \cup {None} /\ console.id \in Ids \cup {None}
        /\ console.cursor \in Nat /\ console.cursor <= MaxRecorded
    BY Parts, Zenon DEF TailInv
  <2>3. console.cursor \in 0 .. MaxRecorded
    BY <2>2
  <2>4. console \in Consoles
    BY Zenon DEF TailInv, Types
  <2>. QED  BY <2>1, <2>2, <2>3, <2>4, Zenon
<1>2. /\ Types
      /\ Passed(shown, life, me, console, missed, carried)
      /\ Explained(shown, ahead)
      /\ Current(shown, life, me, trace.next, console, ahead)
      /\ console.id = None => console.cursor = 0
  BY Zenon DEF TailInv
<1>3. ASSUME console' \in Consoles, console'.id = None => console'.cursor = 0,
             Passed(shown, life, me, console', missed, carried),
             Current(shown, life, me, trace.next, console', ahead)
      PROVE  TailInv'
  <2>1. Types'
    BY <1>1, <1>2, <1>3, ZenonT(30) DEF Types
  <2>2. /\ Passed(shown, life, InstanceId(life), console, missed, carried)'
        /\ Explained(shown, ahead)'
        /\ Current(shown, life, InstanceId(life), trace.next, console, ahead)'
        /\ (console.id = None => console.cursor = 0)'
    BY <1>1, <1>2, <1>3, ZenonT(30)
  <2>. QED  BY <2>1, <2>2, Zenon DEF TailInv
<1>4. CASE console.health \in {None, me}
  <2>1. console' = [cursor |-> console.cursor, id |-> console.id, health |-> me, step |-> "trace"]
    BY <1>4, Zenon DEF Health
  <2>2. /\ console' \in Consoles /\ console'.cursor = console.cursor /\ console'.id = console.id
        /\ console'.health = me /\ console'.step = "trace"
    BY <1>1, <2>1, Zenon DEF Consoles, Steps
  <2>3. Passed(shown, life, me, console', missed, carried)
    BY <1>2, <2>2, Zenon DEF Passed
  <2>4. Current(shown, life, me, trace.next, console', ahead)
    BY <1>2, <2>2, ZenonT(30) DEF Current
  <2>. QED  BY <1>2, <1>3, <2>2, <2>3, <2>4, Zenon
<1>5. CASE console.health \notin {None, me}
  <2>1. console' = [cursor |-> 0, id |-> None, health |-> me, step |-> "trace"]
    BY <1>5, Zenon DEF Health
  <2>2. /\ console' \in Consoles /\ console'.cursor = 0 /\ console'.id = None
        /\ console'.health = me /\ console'.step = "trace"
    BY <1>1, <2>1, SMTT(30) DEF Consoles, Steps
  <2>3. Passed(shown, life, me, console', missed, carried)
    BY <1>1, <2>2, Zenon DEF Passed
  <2>4. Current(shown, life, me, trace.next, console', ahead)
    BY <1>2, <1>5, <2>2, ZenonT(30) DEF Current
  <2>. QED  BY <1>3, <2>2, <2>3, <2>4, ZenonT(30)
<1>. QED  BY <1>4, <1>5, Zenon

\* IInv holds at the start and every step keeps it.
LEMMA TailStarts ==
  ASSUME TailAssumption, TailInit
  PROVE  TailInv
<1>1. /\ MaxRecorded \in Nat /\ Lives \in Nat /\ 1 \in 1 .. Lives /\ MaxEvents \in Nat
      /\ InstanceId(1) # None
  BY SMTT(30) DEF TailAssumption
<1>2. /\ trace.next = 1 /\ trace.events = <<>> /\ Len(trace.events) = 0
      /\ trace \in [next : 1 .. MaxRecorded + 1, events : Seq(Events)]
  <2>1. trace = [next |-> 1, events |-> <<>>]
    BY Zenon DEF TailInit, NewTrace
  <2>2. 1 \in 1 .. MaxRecorded + 1 /\ <<>> \in Seq(Events) /\ Len(<<>>) = 0
    BY <1>1
  <2>. QED  BY <2>1, <2>2, Zenon
<1>3. /\ console \in Consoles /\ console.id = None /\ console.cursor = 0
  BY <1>1 DEF TailInit, Consoles, Steps
<1>4. shown = <<>> /\ shown \in Seq(Logged) /\ Len(shown) = 0
  BY SMTT(30) DEF TailInit
<1>5. Types
  <2>1. Len(trace.events) <= MaxEvents /\ Distinct(trace.events)
        /\ \A i \in 1 .. Len(trace.events) : trace.events[i] < trace.next
    BY <1>1, <1>2 DEF Distinct
  <2>2. /\ life \in 1 .. Lives /\ missed \subseteq Logged /\ ahead \subseteq 1 .. Lives
        /\ carried \in 0 .. MaxRecorded
    BY <1>1 DEF TailInit
  <2>. QED  BY <1>1, <1>2, <1>3, <1>4, <2>1, <2>2, Zenon DEF Types
<1>6. Explained(shown, ahead)
  BY <1>4 DEF Explained
<1>7. Current(shown, life, InstanceId(life), trace.next, console, ahead)
  BY <1>4, NothingLogged
<1>8. Passed(shown, life, InstanceId(life), console, missed, carried)
  BY <1>3 DEF Passed
<1>. QED  BY <1>3, <1>5, <1>6, <1>7, <1>8, Zenon DEF TailInv

\* Every step of the service and of the console keeps the invariant.
LEMMA TailStep ==
  ASSUME TailAssumption, TailInv, [TailNext]_tailVars
  PROVE  TailInv'
<1>1. CASE Record
  BY <1>1, RecordKeeps, Zenon
<1>2. CASE Restart
  BY <1>2, RestartKeeps, Zenon
<1>3. CASE Health
  BY <1>3, HealthKeeps
<1>4. CASE HealthFails \/ TraceFails
  <2>1. PICK d \in {"trace", "idle"} : console' = [console EXCEPT !.step = d]
    BY <1>4 DEF HealthFails, TraceFails
  <2>2. UNCHANGED <<life, trace, shown, missed, ahead, carried>>
    BY <1>4 DEF HealthFails, TraceFails
  <2>3. d \in Steps /\ d # "again"
    BY Zenon DEF Steps
  <2>. QED  BY <2>1, <2>2, <2>3, StepMoves
<1>5. /\ MaxRecorded \in Nat /\ trace.next \in Nat /\ trace.next >= 1 /\ trace.next - 1 <= MaxRecorded
      /\ console.cursor \in Nat /\ carried \in 0 .. MaxRecorded
  BY Parts, Zenon DEF TailInv, Types
<1>6. CASE Trace
  <2>1. /\ ApplyTrace(Reply(console.cursor), console.cursor, TRUE)
        /\ UNCHANGED <<life, trace>>
        /\ carried' = IF carried < trace.next THEN carried ELSE trace.next - 1
    BY <1>6, Zenon DEF Trace
  <2>2. /\ carried' \in 0 .. MaxRecorded
        /\ \A e \in 1 .. (trace.next - 1) : e <= carried => e <= carried'
    BY <1>5, <2>1
  <2>3. CASE console.id \in {None, InstanceId(life)}
    BY <1>5, <2>1, <2>2, <2>3, ReplyIsLogged, Zenon
  <2>4. CASE console.id \notin {None, InstanceId(life)}
    BY <1>5, <2>1, <2>2, <2>4, ReplyIsRefused, Zenon
  <2>. QED  BY <2>3, <2>4, Zenon
<1>7. CASE TraceAgain
  <2>1. /\ ApplyTrace(Reply(0), 0, FALSE)
        /\ UNCHANGED <<life, trace>> /\ carried' = carried /\ console.step = "again"
    BY <1>7, Zenon DEF TraceAgain
  <2>2. /\ carried' \in 0 .. MaxRecorded /\ 0 \in Nat
        /\ \A e \in 1 .. (trace.next - 1) : e <= carried => e <= carried'
    BY <1>5, <2>1, Zenon
  <2>3. CASE console.id \in {None, InstanceId(life)}
    BY <2>1, <2>2, <2>3, ReplyIsLogged, Zenon
  <2>4. CASE console.id \notin {None, InstanceId(life)}
    BY <2>1, <2>2, <2>4, ReplyIsRefused, Zenon
  <2>. QED  BY <2>3, <2>4
<1>8. CASE UNCHANGED tailVars
  BY <1>8, Zenon DEF tailVars, TailInv, Types
<1>. QED  BY <1>1, <1>2, <1>3, <1>4, <1>6, <1>7, <1>8, Zenon DEF TailNext

\* IInv says what the properties say.
LEMMA TailMeans ==
  ASSUME TailAssumption, TailInv
  PROVE  TailTypeOK /\ LogIsExact
<1>1. TailTypeOK
  BY Zenon DEF TailInv, Types, TailTypeOK, Consoles, Logged, Events
<1>2. shown \in Seq(Logged) /\ DOMAIN shown = 1 .. Len(shown)
  BY SMTT(30) DEF TailInv, Types
<1>3. CursorPassesNothing
  BY <1>2, ZenonT(30) DEF TailInv, Passed, CursorPassesNothing
<1>4. RepeatsAreExplained
  BY <1>2, Zenon DEF TailInv, Explained, RepeatsAreExplained
<1>. QED  BY <1>1, <1>3, <1>4, Zenon DEF LogIsExact

\* The console's log of the trace skips nothing that the trace still had and repeats an
\* event once at most, and only around a restart, for every number of lives, every retention
\* and every choice of instance identifiers (App::apply_trace, App::set_health, TraceLog).
THEOREM TailHolds == TailSpec => []TailIsExact
<1> USE TailAssumption
<1>1. TailInit => TailInv
  BY TailStarts, Zenon
<1>2. TailInv /\ [TailNext]_tailVars => TailInv'
  BY TailStep, Zenon
<1>3. TailInv => TailTypeOK /\ LogIsExact
  BY TailMeans, Zenon
<1>. QED  BY <1>1, <1>2, <1>3, PTL DEF TailIsExact, TailSpec
=============================================================================
