---------------------------- MODULE EventProofs -----------------------------
(***************************************************************************)
(* Proofs about StandardConnections and EventStream, for any number of     *)
(* connections, clients and events.  PairingIsExact needs in addition what *)
(* the event tasks hold while they wait or are about to broadcast          *)
(* (PairInv).  ExactlyOnce needs where an event may be on its way out: in  *)
(* the engine's queue, with one command task, in the backlog of a client   *)
(* or with the client, and in one of these only (StreamInv).               *)
(***************************************************************************)
EXTENDS StandardConnections, EventStream, TLAPS

\* Proof that the pairing is exact, for any number of connections.

\* PairingIsExact is not inductive: a task that waits for a client must hold no place,
\* and one that is about to broadcast must have removed its number.
PairInv ==
  /\ PairTypeOK
  /\ TableIsExact
  /\ \A e \in Events : ev[e] = "idle" => num[e] = 0
  /\ \A e \in Events : ev[e] = "sending" => num[e] \notin active

\* Steps that move a task and leave the table and the cancellations alone.
LEMMA PairStageInvariant ==
  ASSUME PairAssumption, PairInv, UNCHANGED <<next, active, attached, num, cancelled>>,
         cmd' \in [Commands -> CmdStages], ev' \in [Events -> EvStages],
         \A c \in Commands : cmd[c] = "sending" => cmd'[c] = "sending",
         \A e \in Events : ev[e] = "sending" <=> ev'[e] = "sending",
         \A e \in Events : ev'[e] = "idle" => ev[e] = "idle"
  PROVE  PairInv'
<1>1. PairTypeOK' BY DEF PairInv, PairTypeOK, Tasks
<1>2. PlaceIsHeld' BY DEF PairInv, TableIsExact, PlaceIsHeld, Holders
<1>3. NobodyIsForgotten' BY DEF PairInv, TableIsExact, NobodyIsForgotten, Tasks
<1> QED BY <1>1, <1>2, <1>3 DEF PairInv, TableIsExact

\* A fresh number is larger than any that a task works with.
LEMMA AllocateInvariant ==
  ASSUME PairAssumption, PairInv, NEW c \in Commands, Allocate(c)
  PROVE  PairInv'
<1> USE DEF PairAssumption
<1>1. PairTypeOK' BY DEF PairInv, PairTypeOK, Allocate, CmdMoves, CmdStages, Tasks
<1>2. /\ \A e \in Events : num'[e] = num[e] /\ num[e] <= next
      /\ next' = next + 1 /\ next \in Nat /\ active \subseteq 1..next
  BY DEF PairInv, PairTypeOK, Allocate, Tasks
<1>3. \A n \in active' : n = next + 1 \/ n \in active
  BY <1>2 DEF Allocate
<1>4. \A n : Holders(n)' = Holders(n)
  BY <1>2 DEF Holders
<1>5. PlaceIsHeld'
  <2>1. \A n \in active : (n \in attached <=> Holders(n) # {}) /\ \A e, f \in Holders(n) : e = f
    BY DEF PairInv, TableIsExact, PlaceIsHeld
  <2>2. \A n : n = next + 1 => Holders(n) = {} /\ n \notin attached
    BY <1>2 DEF PairInv, PairTypeOK, Holders
  <2>3. attached' = attached
    BY DEF Allocate
  <2> QED BY <1>3, <1>4, <2>1, <2>2, <2>3 DEF PlaceIsHeld
<1>6. NobodyIsForgotten'
  <2> SUFFICES ASSUME NEW t \in Tasks, num'[t] \notin active' \cup {0}
               PROVE  \/ t \in cancelled'
                      \/ \E d \in Commands : num'[d] = num'[t] /\ cmd'[d] = "sending"
                      \/ \E e \in Events : num'[e] = num'[t] /\ ev'[e] = "sending"
    BY DEF NobodyIsForgotten, Tasks
  <2>1. t # c /\ num'[t] = num[t] /\ num[t] \notin active \cup {0}
    BY DEF PairInv, PairTypeOK, Allocate, Tasks
  <2>2. \A d \in Commands : cmd[d] = "sending" => d # c /\ cmd'[d] = "sending" /\ num'[d] = num[d]
    BY DEF PairInv, PairTypeOK, Allocate, CmdMoves, Tasks
  <2>3. \A e \in Events : num'[e] = num[e] /\ ev'[e] = ev[e]
    BY <1>2 DEF Allocate
  <2> QED BY <2>1, <2>2, <2>3 DEF PairInv, TableIsExact, NobodyIsForgotten, Allocate
<1>7. \A e \in Events : ev'[e] = "sending" => num'[e] \notin active'
  BY <1>2 DEF PairInv, Allocate
<1>8. \A e \in Events : ev'[e] = "idle" => num'[e] = 0
  BY <1>2 DEF PairInv, Allocate
<1> QED BY <1>1, <1>5, <1>6, <1>7, <1>8 DEF PairInv, TableIsExact

\* Removing a number leaves the tasks of the other numbers as they are, and the task that
\* removed it is about to tell those of its own.
LEMMA RemoveInvariant ==
  ASSUME PairAssumption, PairInv,
         NEW t \in Tasks,
         active' = active \ {num[t]}, attached' = attached \ {num[t]},
         num' = IF num[t] \in active THEN num ELSE [num EXCEPT ![t] = 0],
         cancelled' = IF num[t] \in active THEN cancelled ELSE cancelled \ {t},
         next' = next,
         cmd' \in [Commands -> CmdStages], ev' \in [Events -> EvStages],
         \A c \in Commands : cmd[c] = "sending" => c # t /\ cmd'[c] = "sending",
         \A e \in Events : ev[e] = "sending" => e # t /\ ev'[e] = "sending",
         \A e \in Events \ {t} : ev'[e] = ev[e],
         t \in Commands => (cmd'[t] = IF num[t] \in active THEN "sending" ELSE "idle"),
         t \in Events => (ev'[t] = IF num[t] \in active THEN "sending" ELSE "idle")
  PROVE  PairInv'
<1> USE DEF PairAssumption
<1>1. num \in [Tasks -> 0..next] /\ next \in Nat /\ 0 \notin active
  BY DEF PairInv, PairTypeOK
<1>2. \A u \in Tasks : u # t => num'[u] = num[u]
  BY <1>1
<1>3. num'[t] = (IF num[t] \in active THEN num[t] ELSE 0)
  BY <1>1
<1>4. PairTypeOK'
  <2>1. num' \in [Tasks -> 0..next] BY <1>1
  <2> QED BY <2>1, Zenon DEF PairInv, PairTypeOK
<1>5. PlaceIsHeld'
  <2>1. \A n \in active' : n \in active /\ n # num[t] /\ n # 0
    BY <1>1
  <2>2. \A n \in active' : Holders(n)' = Holders(n)
    BY <1>2, <1>3, <2>1 DEF Holders, Tasks
  <2>3. \A n \in active' : n \in attached' <=> n \in attached
    BY <2>1
  <2> QED BY <2>1, <2>2, <2>3 DEF PairInv, TableIsExact, PlaceIsHeld
<1>6. NobodyIsForgotten'
  <2> SUFFICES ASSUME NEW u \in Tasks, num'[u] \notin active' \cup {0}
               PROVE  \/ u \in cancelled'
                      \/ \E d \in Commands : num'[d] = num'[u] /\ cmd'[d] = "sending"
                      \/ \E e \in Events : num'[e] = num'[u] /\ ev'[e] = "sending"
    BY Zenon DEF NobodyIsForgotten, Tasks
  <2>1. num'[u] = num[u]
    BY <1>2, <1>3
  <2>2. CASE num[u] = num[t] /\ num[t] \in active
    BY <1>2, <1>3, <2>1, <2>2 DEF Tasks
  <2>3. CASE ~ (num[u] = num[t] /\ num[t] \in active)
    <3>1. num[u] \notin active \cup {0}
      BY <2>1, <2>3, Zenon
    <3>2. \/ u \in cancelled
          \/ \E d \in Commands : num[d] = num[u] /\ cmd[d] = "sending"
          \/ \E e \in Events : num[e] = num[u] /\ ev[e] = "sending"
      BY <3>1, Zenon DEF PairInv, TableIsExact, NobodyIsForgotten
    <3>3. u \in cancelled => u \in cancelled'
      BY <1>3, <2>1, <3>1, Zenon
    <3>4. \A d \in Commands : cmd[d] = "sending" => num'[d] = num[d] /\ cmd'[d] = "sending"
      BY <1>2 DEF Tasks
    <3>5. \A e \in Events : ev[e] = "sending" => num'[e] = num[e] /\ ev'[e] = "sending"
      BY <1>2 DEF Tasks
    <3> QED BY <2>1, <3>2, <3>3, <3>4, <3>5, Zenon
  <2> QED BY <2>2, <2>3, Zenon
<1>7. \A e \in Events : ev'[e] = "idle" => num'[e] = 0
  BY <1>2, <1>3 DEF PairInv, Tasks
<1>8. \A e \in Events : ev'[e] = "sending" => num'[e] \notin active'
  BY <1>2, <1>3 DEF PairInv, Tasks
<1> QED BY <1>4, <1>5, <1>6, <1>7, <1>8, Zenon DEF PairInv, TableIsExact

\* The broadcast reaches every task that still works with the number.
LEMMA PairSendInvariant ==
  ASSUME PairAssumption, PairInv,
         NEW t \in Tasks, t \in Events => num[t] \notin active,
         UNCHANGED <<next, active, attached>>,
         num' = [num EXCEPT ![t] = 0],
         cancelled' = (cancelled \cup Receivers(num[t])) \ {t},
         cmd' \in [Commands -> CmdStages], ev' \in [Events -> EvStages],
         \A c \in Commands \ {t} : cmd'[c] = cmd[c],
         \A e \in Events \ {t} : ev'[e] = ev[e],
         t \in Events => ev'[t] = "idle"
  PROVE  PairInv'
<1> USE DEF PairAssumption
<1>1. num \in [Tasks -> 0..next] /\ next \in Nat /\ 0 \notin active
  BY DEF PairInv, PairTypeOK
<1>2. \A u \in Tasks : num'[u] = IF u = t THEN 0 ELSE num[u]
  BY <1>1
<1>3. PairTypeOK'
  <2>1. num' \in [Tasks -> 0..next] BY <1>1
  <2> QED BY <2>1 DEF PairInv, PairTypeOK, Receivers
<1>4. PlaceIsHeld'
  <2>1. \A n \in active : Holders(n)' = Holders(n)
    BY <1>1, <1>2 DEF Holders, Tasks
  <2> QED BY <2>1 DEF PairInv, TableIsExact, PlaceIsHeld
<1>5. NobodyIsForgotten'
  <2> SUFFICES ASSUME NEW u \in Tasks, num'[u] \notin active' \cup {0}
               PROVE  \/ u \in cancelled'
                      \/ \E d \in Commands : num'[d] = num'[u] /\ cmd'[d] = "sending"
                      \/ \E e \in Events : num'[e] = num'[u] /\ ev'[e] = "sending"
    BY Zenon DEF NobodyIsForgotten, Tasks
  <2>1. u # t /\ num'[u] = num[u] /\ num[u] \notin active \cup {0}
    BY <1>2
  <2>2. CASE num[u] = num[t]
    BY <2>1, <2>2, Zenon DEF Receivers
  <2>3. CASE num[u] # num[t]
    <3>1. \/ u \in cancelled
          \/ \E d \in Commands : num[d] = num[u] /\ cmd[d] = "sending"
          \/ \E e \in Events : num[e] = num[u] /\ ev[e] = "sending"
      BY <2>1, Zenon DEF PairInv, TableIsExact, NobodyIsForgotten
    <3>2. \A d \in Commands : num[d] = num[u] => d # t /\ num'[d] = num'[u] /\ cmd'[d] = cmd[d]
      BY <1>2, <2>1, <2>3, Zenon DEF Tasks
    <3>3. \A e \in Events : num[e] = num[u] => e # t /\ num'[e] = num'[u] /\ ev'[e] = ev[e]
      BY <1>2, <2>1, <2>3, Zenon DEF Tasks
    <3> QED BY <2>1, <3>1, <3>2, <3>3, Zenon
  <2> QED BY <2>2, <2>3, Zenon
<1>6. \A e \in Events : ev'[e] = "idle" => num'[e] = 0
  BY <1>2 DEF PairInv, Tasks
<1>7. \A e \in Events : ev'[e] = "sending" => num'[e] \notin active'
  BY <1>2 DEF PairInv, Tasks
<1> QED BY <1>3, <1>4, <1>5, <1>6, <1>7, Zenon DEF PairInv, TableIsExact

\* attach takes a free place of an active number.
LEMMA AttachInvariant ==
  ASSUME PairAssumption, PairInv, NEW e \in Events, NEW n \in 1..MaxNumber, Attach(e, n)
  PROVE  PairInv'
<1> USE DEF PairAssumption
<1>1. /\ num \in [Tasks -> 0..next] /\ next \in Nat /\ active \subseteq 1..next
      /\ n \in active /\ n \notin attached /\ num[e] = 0 /\ e \in Tasks
      /\ ev \in [Events -> EvStages] /\ ev[e] = "idle"
  BY DEF PairInv, PairTypeOK, Attach, EvMoves, Tasks
<1>2. /\ \A u \in Tasks : num'[u] = IF u = e THEN n ELSE num[u]
      /\ \A f \in Events : ev'[f] = IF f = e THEN "acking" ELSE ev[f]
  BY <1>1 DEF Attach, EvMoves
<1>3. PairTypeOK'
  <2>1. num' \in [Tasks -> 0..next] BY <1>1 DEF Attach
  <2>2. ev' \in [Events -> EvStages] BY <1>1 DEF Attach, EvMoves, EvStages
  <2> QED BY <1>1, <2>1, <2>2, Zenon DEF PairInv, PairTypeOK, Attach
<1>4. PlaceIsHeld'
  <2>1. \A m \in active : m # n => Holders(m)' = Holders(m)
    BY <1>1, <1>2 DEF Holders, Tasks
  <2>2. Holders(n) = {}
    BY <1>1 DEF PairInv, TableIsExact, PlaceIsHeld
  <2>3. Holders(n)' = {e}
    BY <1>2, <2>2 DEF Holders, Tasks
  <2>4. attached' = attached \cup {n} /\ active' = active
    BY DEF Attach
  <2> QED BY <2>1, <2>3, <2>4 DEF PairInv, TableIsExact, PlaceIsHeld
<1>5. NobodyIsForgotten'
  <2>1. \A u \in Tasks : num'[u] \notin active' \cup {0} => num'[u] = num[u] /\ num[u] \notin active \cup {0}
    BY <1>1, <1>2 DEF Attach
  <2>2. \A d \in Commands : num'[d] = num[d] /\ cmd'[d] = cmd[d]
    BY <1>2 DEF Attach, Tasks
  <2>3. \A f \in Events : ev[f] = "sending" => num'[f] = num[f] /\ ev'[f] = ev[f]
    BY <1>1, <1>2 DEF Tasks
  <2>4. cancelled' = cancelled
    BY DEF Attach
  <2> QED BY <2>1, <2>2, <2>3, <2>4 DEF PairInv, TableIsExact, NobodyIsForgotten, Tasks
<1>6. \A f \in Events : ev'[f] = "idle" => num'[f] = 0
  BY <1>2, Zenon DEF PairInv, Tasks
<1>7. \A f \in Events : ev'[f] = "sending" => num'[f] \notin active'
  BY <1>2 DEF PairInv, Attach, Tasks
<1> QED BY <1>3, <1>4, <1>5, <1>6, <1>7 DEF PairInv, TableIsExact

\* A failed acknowledgement frees the place that this task alone held.
LEMMA AckFailsInvariant ==
  ASSUME PairAssumption, PairInv, NEW e \in Events, AckFails(e)
  PROVE  PairInv'
<1> USE DEF PairAssumption
<1>1. /\ num \in [Tasks -> 0..next] /\ next \in Nat /\ 0 \notin active /\ e \in Tasks
      /\ ev \in [Events -> EvStages] /\ ev[e] = "acking" /\ attached \subseteq active
  BY DEF PairInv, PairTypeOK, AckFails, EvMoves, Tasks
<1>2. /\ \A u \in Tasks : num'[u] = IF u = e THEN 0 ELSE num[u]
      /\ \A f \in Events : ev'[f] = IF f = e THEN "idle" ELSE ev[f]
      /\ attached' = attached \ {num[e]} /\ active' = active
      /\ cancelled' = cancelled \ {e} /\ cmd' = cmd /\ next' = next
  BY <1>1 DEF AckFails, EvMoves
<1>3. PairTypeOK'
  <2>1. num' \in [Tasks -> 0..next] BY <1>1 DEF AckFails
  <2>2. ev' \in [Events -> EvStages] BY <1>1 DEF AckFails, EvMoves, EvStages
  <2> QED BY <1>2, <2>1, <2>2, Zenon DEF PairInv, PairTypeOK
<1>4. PlaceIsHeld'
  <2>1. \A m \in active : m # num[e] => Holders(m)' = Holders(m)
    BY <1>1, <1>2, Zenon DEF Holders, Tasks
  <2>2. \A m \in active : m = num[e] => Holders(m) = {e}
    BY DEF PairInv, TableIsExact, PlaceIsHeld, Holders
  <2>3. \A m \in active : m = num[e] => Holders(m)' = {}
    BY <1>1, <1>2, <2>2 DEF Holders, Tasks
  <2> QED BY <1>2, <2>1, <2>3 DEF PairInv, TableIsExact, PlaceIsHeld
<1>5. NobodyIsForgotten'
  <2>1. \A u \in Tasks : num'[u] \notin active' \cup {0} =>
          u # e /\ num'[u] = num[u] /\ num[u] \notin active \cup {0}
    BY <1>2, Zenon
  <2>2. \A d \in Commands : num'[d] = num[d]
    BY <1>2 DEF Tasks
  <2>3. \A f \in Events : ev[f] = "sending" => num'[f] = num[f] /\ ev'[f] = ev[f]
    BY <1>1, <1>2 DEF Tasks
  <2> QED BY <1>2, <2>1, <2>2, <2>3 DEF PairInv, TableIsExact, NobodyIsForgotten, Tasks
<1>6. \A f \in Events : ev'[f] = "idle" => num'[f] = 0
  BY <1>2, Zenon DEF PairInv, Tasks
<1>7. \A f \in Events : ev'[f] = "sending" => num'[f] \notin active'
  BY <1>2 DEF PairInv, Tasks
<1> QED BY <1>3, <1>4, <1>5, <1>6, <1>7 DEF PairInv, TableIsExact

\* Every step keeps the invariant: one case per action.
LEMMA PairStepInvariant ==
  ASSUME PairAssumption, PairInv, [PairNext]_pairVars
  PROVE  PairInv'
<1> USE DEF PairAssumption
<1>0. /\ cmd \in [Commands -> CmdStages] /\ ev \in [Events -> EvStages]
      /\ num \in [Tasks -> 0..next] /\ next \in Nat
      /\ Commands \subseteq Tasks /\ Events \subseteq Tasks
  BY DEF PairInv, PairTypeOK, Tasks
<1>1. ASSUME NEW c \in Commands, Allocate(c) PROVE PairInv'
  BY <1>1, AllocateInvariant
<1>2. ASSUME NEW c \in Commands, CommandStep(c) \/ CommandFails(c) \/ CommandCancelled(c)
      PROVE  PairInv'
  <2>1. /\ cmd' \in [Commands -> CmdStages] /\ ev' = ev
        /\ \A d \in Commands : cmd[d] = "sending" => cmd'[d] = "sending"
    BY <1>0, <1>2, Zenon DEF CommandStep, CommandFails, CommandCancelled, CmdMoves, CmdStages
  <2>2. UNCHANGED <<next, active, attached, num, cancelled>>
    BY <1>2 DEF CommandStep, CommandFails, CommandCancelled
  <2> QED BY <1>0, <2>1, <2>2, PairStageInvariant
<1>3. ASSUME NEW e \in Events, EventStep(e) \/ EventFails(e) \/ EventCancelled(e)
      PROVE  PairInv'
  <2>1. /\ ev' \in [Events -> EvStages] /\ cmd' = cmd
        /\ \A f \in Events : ev[f] = "sending" <=> ev'[f] = "sending"
        /\ \A f \in Events : ev'[f] = "idle" => ev[f] = "idle"
    BY <1>0, <1>3, Zenon DEF EventStep, EventFails, EventCancelled, EvMoves, EvStages
  <2>2. UNCHANGED <<next, active, attached, num, cancelled>>
    BY <1>3 DEF EventStep, EventFails, EventCancelled
  <2> QED BY <1>0, <2>1, <2>2, PairStageInvariant, Zenon
<1>4. ASSUME NEW c \in Commands, CommandRemoves(c) PROVE PairInv'
  <2>1. /\ cmd' = [cmd EXCEPT ![c] = IF num[c] \in active THEN "sending" ELSE "idle"]
        /\ cmd[c] = "ending" /\ ev' = ev
    BY <1>4 DEF CommandRemoves, CmdMoves
  <2> QED BY <1>0, <1>4, <2>1, RemoveInvariant, Zenon DEF CommandRemoves, CmdStages
<1>5. ASSUME NEW e \in Events, EventRemoves(e) PROVE PairInv'
  <2>1. /\ ev' = [ev EXCEPT ![e] = IF num[e] \in active THEN "sending" ELSE "idle"]
        /\ ev[e] = "ending" /\ cmd' = cmd
    BY <1>5 DEF EventRemoves, EvMoves
  <2> QED BY <1>0, <1>5, <2>1, RemoveInvariant, Zenon DEF EventRemoves, EvStages
<1>6. ASSUME NEW c \in Commands, CommandSends(c) PROVE PairInv'
  <2>1. cmd' = [cmd EXCEPT ![c] = "idle"] /\ ev' = ev
    BY <1>6, Zenon DEF CommandSends, CmdMoves
  <2> QED BY <1>0, <1>6, <2>1, PairSendInvariant, Zenon DEF CommandSends, CmdStages
<1>7. ASSUME NEW e \in Events, EventSends(e) PROVE PairInv'
  <2>1. ev' = [ev EXCEPT ![e] = "idle"] /\ ev[e] = "sending" /\ cmd' = cmd
    BY <1>7 DEF EventSends, EvMoves
  <2>2. num[e] \notin active
    BY <2>1 DEF PairInv
  <2> QED BY <1>0, <1>7, <2>1, <2>2, PairSendInvariant, Zenon DEF EventSends, EvStages
<1>8. ASSUME NEW e \in Events, NEW n \in 1..MaxNumber, Attach(e, n) PROVE PairInv'
  BY <1>8, AttachInvariant
<1>9. ASSUME NEW e \in Events, AckFails(e) PROVE PairInv'
  BY <1>9, AckFailsInvariant
<1>10. CASE UNCHANGED pairVars
  BY <1>0, <1>10, PairStageInvariant, Zenon DEF pairVars
<1> QED BY <1>1, <1>2, <1>3, <1>4, <1>5, <1>6, <1>7, <1>8, <1>9, <1>10, Zenon DEF PairNext

\* Whatever the number of connections: a place of a pair is taken exactly while one event
\* task holds it, and a task whose number was closed has been told or is about to be.
THEOREM PairingHolds == PairSpec => []PairingIsExact
<1> USE PairAssumption
<1>1. PairInit => PairInv
  BY DEF PairInit, PairInv, PairTypeOK, TableIsExact, PlaceIsHeld, NobodyIsForgotten,
     PairAssumption,
         CmdStages, EvStages, Tasks
<1>2. PairInv /\ [PairNext]_pairVars => PairInv'
  BY PairStepInvariant
<1>3. PairInv => PairTypeOK /\ TableIsExact
  BY DEF PairInv
<1> QED BY <1>1, <1>2, <1>3, PTL DEF PairingIsExact, PairSpec

-----------------------------------------------------------------------------
\* Proof that every event arrives once, for any number of tasks and clients.

\* A sequence has no element twice.
Distinct(s) == \A i, j \in 1..Len(s) : s[i] = s[j] => i = j

\* What was broadcast to client k since it subscribed and not overwritten.
Got(k) == Range(seen[k]) \cup Range(backlog[k])

\* The functions have their domains, and a client that is off has an empty backlog.
Shapes ==
  /\ pushed \in Nat /\ queued \in Seq(Nat)
  /\ stage \in [Conns -> {"idle", "writing", "sending"}]
  /\ drained \in [Conns -> Seq(Nat)]
  /\ \A c \in Conns : stage[c] = "idle" => drained[c] = <<>>
  /\ reader \in [Subscribers -> {"off", "on"}]
  /\ backlog \in [Subscribers -> Seq(Nat)] /\ seen \in [Subscribers -> Seq(Nat)]
  /\ DOMAIN lagged = Subscribers /\ DOMAIN since = Subscribers
  /\ \A k \in Subscribers : reader[k] = "off" => backlog[k] = <<>>
  /\ \A k \in Subscribers : Len(backlog[k]) <= Capacity

\* No event is in two places on its way out, and none has a number yet to come.
OnePlace ==
  /\ Range(queued) \subseteq 1..pushed /\ Distinct(queued)
  /\ \A c \in Conns : /\ Range(drained[c]) \subseteq 1..pushed /\ Distinct(drained[c])
                      /\ Range(drained[c]) \cap Range(queued) = {}
  /\ \A c, d \in Conns : c # d => Range(drained[c]) \cap Range(drained[d]) = {}

\* What a client got has left the engine and the tasks, and it got it once.
GotOnce ==
  \A k \in Subscribers :
    /\ Got(k) \subseteq 1..pushed /\ Got(k) \cap Range(queued) = {}
    /\ \A c \in Conns : Got(k) \cap Range(drained[c]) = {}
    /\ Distinct(seen[k]) /\ Distinct(backlog[k]) /\ Range(seen[k]) \cap Range(backlog[k]) = {}

\* NothingMissed, event by event.
AllAccounted ==
  \A k \in Subscribers :
    reader[k] = "on" /\ ~ lagged[k] =>
      \A e \in 1..pushed :
        \/ e \in since[k] \cup Got(k) \cup Range(queued) \cup lost
        \/ \E c \in Conns : e \in Range(drained[c])

\* The inductive invariant of the event stream.
StreamInv == Shapes /\ OnePlace /\ GotOnce /\ AllAccounted

\* Taking the first element of a queue leaves the others.
LEMMA TailFacts ==
  ASSUME NEW s \in Seq(Nat), s # <<>>
  PROVE  /\ Tail(s) \in Seq(Nat) /\ Head(s) \in Nat /\ Len(Tail(s)) <= Len(s)
         /\ Range(s) = {Head(s)} \cup Range(Tail(s))
         /\ Distinct(s) => Distinct(Tail(s)) /\ Head(s) \notin Range(Tail(s))
<1>1. /\ Tail(s) \in Seq(Nat) /\ Len(s) \in Nat \ {0} /\ Len(Tail(s)) = Len(s) - 1 /\ Head(s) = s[1]
      /\ \A i \in 1..Len(Tail(s)) : i + 1 \in 1..Len(s) /\ Tail(s)[i] = s[i + 1]
  OBVIOUS
<1>2. Head(s) \in Nat
  BY <1>1
<1>3. \A i \in 2..Len(s) : i - 1 \in 1..Len(Tail(s)) /\ Tail(s)[i - 1] = s[i]
  BY <1>1
<1>4. \A i \in 1..Len(s) : i = 1 \/ i \in 2..Len(s)
  BY <1>1
<1>5. Range(s) = {Head(s)} \cup Range(Tail(s))
  BY <1>1, <1>3, <1>4 DEF Range
<1>6. ASSUME Distinct(s) PROVE Distinct(Tail(s)) /\ Head(s) \notin Range(Tail(s))
  BY <1>1, <1>6 DEF Distinct, Range
<1> QED
  BY <1>1, <1>2, <1>5, <1>6

\* Adding an element to a queue adds just that.
LEMMA AppendFacts ==
  ASSUME NEW s \in Seq(Nat), NEW e \in Nat
  PROVE  /\ Append(s, e) \in Seq(Nat) /\ Len(Append(s, e)) = Len(s) + 1
         /\ Range(Append(s, e)) = Range(s) \cup {e}
         /\ Distinct(s) /\ e \notin Range(s) => Distinct(Append(s, e))
<1>1. /\ Append(s, e) \in Seq(Nat) /\ Len(s) \in Nat /\ Len(Append(s, e)) = Len(s) + 1
      /\ \A i \in 1..Len(s) : i \in 1..(Len(s) + 1) /\ Append(s, e)[i] = s[i]
      /\ Append(s, e)[Len(s) + 1] = e /\ Len(s) + 1 \in 1..(Len(s) + 1)
      /\ \A i \in 1..(Len(s) + 1) : i \in 1..Len(s) \/ i = Len(s) + 1
  OBVIOUS
<1>2. Range(Append(s, e)) = Range(s) \cup {e}
  BY <1>1 DEF Range
<1>3. ASSUME Distinct(s), e \notin Range(s) PROVE Distinct(Append(s, e))
  BY <1>1, <1>3 DEF Distinct, Range
<1> QED
  BY <1>1, <1>2, <1>3, Zenon

\* An empty queue has no elements.
LEMMA EmptyFacts == <<>> \in Seq(Nat) /\ Len(<<>>) = 0 /\ Range(<<>>) = {} /\ Distinct(<<>>)
BY DEF Range, Distinct

\* The pushes of an operation follow those that wait.
LEMMA PushFacts ==
  ASSUME Shapes, OnePlace, NEW n \in Nat
  PROVE  /\ Pushes(n) \in Seq(Nat) /\ Distinct(Pushes(n))
         /\ Range(Pushes(n)) = Range(queued) \cup (pushed + 1)..(pushed + n)
<1> DEFINE p == Pushes(n)
<1>1. /\ pushed \in Nat /\ queued \in Seq(Nat) /\ Len(queued) \in Nat
  BY DEF Shapes
<1>2. /\ p \in Seq(Nat) /\ Len(p) = Len(queued) + n
      /\ \A i \in 1..Len(queued) : p[i] = queued[i]
      /\ \A i \in 1..n : p[Len(queued) + i] = pushed + i
  BY <1>1 DEF Pushes
<1>3. \A i \in 1..Len(p) : \/ i \in 1..Len(queued)
                           \/ i - Len(queued) \in 1..n /\ p[i] = pushed + (i - Len(queued))
  <2> TAKE i \in 1..Len(p)
  <2>1. CASE i > Len(queued)
    <3>1. i - Len(queued) \in 1..n /\ i = Len(queued) + (i - Len(queued))
      BY <1>1, <1>2, <2>1
    <3> QED
      BY <1>2, <3>1
  <2> QED
    BY <1>1, <1>2, <2>1
<1>4. \A i \in 1..Len(queued) : queued[i] \in 1..pushed
  BY Zenon DEF OnePlace, Range
<1> HIDE DEF p
<1>5. Distinct(p)
  <2> SUFFICES ASSUME NEW i \in 1..Len(p), NEW j \in 1..Len(p), p[i] = p[j] PROVE i = j
    BY DEF Distinct
  <2>1. CASE i \in 1..Len(queued) /\ j \in 1..Len(queued)
    BY <1>2, <2>1, Zenon DEF OnePlace, Distinct
  <2>2. CASE i \notin 1..Len(queued) /\ j \notin 1..Len(queued)
    BY <1>1, <1>3, <2>2
  <2>3. ASSUME NEW l \in 1..Len(p)
        PROVE  p[l] <= pushed <=> l \in 1..Len(queued)
    <3>1. CASE l \in 1..Len(queued)
      <4>1. p[l] = queued[l] /\ queued[l] \in 1..pushed
        BY <1>2, <1>4, <3>1
      <4> QED
        BY <1>1, <3>1, <4>1
    <3>2. CASE l \notin 1..Len(queued)
      BY <1>1, <1>3, <3>2
    <3> QED
      BY <3>1, <3>2
  <2>4. p[i] \in Nat /\ p[j] \in Nat
    BY <1>2
  <2> QED
    BY <1>1, <2>1, <2>2, <2>3, <2>4
<1>6. Range(p) \subseteq Range(queued) \cup (pushed + 1)..(pushed + n)
  <2> SUFFICES ASSUME NEW i \in 1..Len(p) PROVE p[i] \in Range(queued) \cup (pushed + 1)..(pushed + n)
    BY DEF Range
  <2>1. CASE i \in 1..Len(queued)
    BY <1>2, <2>1, Zenon DEF Range
  <2> QED
    BY <1>1, <1>3, <2>1
<1>7. Range(queued) \subseteq Range(p)
  BY <1>1, <1>2 DEF Range
<1>8. (pushed + 1)..(pushed + n) \subseteq Range(p)
  <2> SUFFICES ASSUME NEW e \in (pushed + 1)..(pushed + n) PROVE e \in Range(p)
    OBVIOUS
  <2>1. e - pushed \in 1..n /\ Len(queued) + (e - pushed) \in 1..Len(p) /\ pushed + (e - pushed) = e
    BY <1>1, <1>2
  <2> QED
    BY <1>2, <2>1, Zenon DEF Range
<1> QED
  BY <1>2, <1>5, <1>6, <1>7, <1>8, Zenon DEF p

\* The inductive invariant implies what the run checks.
LEMMA InvariantIsEnough == StreamInv => ArrivesOnce
<1> SUFFICES ASSUME StreamInv PROVE ArrivesOnce
  OBVIOUS
<1>1. NothingMissed
  BY Zenon DEF StreamInv, AllAccounted, Got, NothingMissed
<1>2. NoDuplicates
  <2> SUFFICES ASSUME NEW k \in Subscribers,
                      NEW i \in 1..Len(seen[k] \o backlog[k]), NEW j \in 1..Len(seen[k] \o backlog[k]),
                      (seen[k] \o backlog[k])[i] = (seen[k] \o backlog[k])[j]
               PROVE  i = j
    BY Zenon DEF NoDuplicates
  <2> DEFINE s == seen[k]  b == backlog[k]  all == s \o b
  <2>1. s \in Seq(Nat) /\ b \in Seq(Nat) /\ Distinct(s) /\ Distinct(b) /\ Range(s) \cap Range(b) = {}
    BY Zenon DEF StreamInv, Shapes, GotOnce
  <2> HIDE DEF s, b
  <2>2. /\ Len(s) \in Nat /\ Len(b) \in Nat /\ Len(all) = Len(s) + Len(b)
        /\ \A l \in 1..Len(all) : \/ l \in 1..Len(s) /\ all[l] = s[l]
                                  \/ l - Len(s) \in 1..Len(b) /\ all[l] = b[l - Len(s)]
    BY <2>1
  <2>3. i \in 1..Len(all) /\ j \in 1..Len(all) /\ all[i] = all[j]
    BY Zenon DEF s, b
  <2> HIDE DEF all
  <2>4. \A l \in 1..Len(s), r \in 1..Len(b) : s[l] # b[r]
    BY <2>1, Zenon DEF Range
  <2>5. CASE i \in 1..Len(s) /\ all[i] = s[i]
    <3>1. j \in 1..Len(s) /\ all[j] = s[j]
      BY <2>2, <2>3, <2>4, <2>5, Zenon
    <3> QED
      BY <2>1, <2>3, <2>5, <3>1, Zenon DEF Distinct
  <2>6. CASE i - Len(s) \in 1..Len(b) /\ all[i] = b[i - Len(s)]
    <3>1. j - Len(s) \in 1..Len(b) /\ all[j] = b[j - Len(s)]
      BY <2>2, <2>3, <2>4, <2>6, Zenon
    <3>2. i - Len(s) = j - Len(s)
      BY <2>1, <2>3, <2>6, <3>1, Zenon DEF Distinct
    <3> QED
      BY <2>2, <2>3, <3>2
  <2> QED
    BY <2>2, <2>3, <2>5, <2>6, Zenon
<1> QED
  BY <1>1, <1>2 DEF ArrivesOnce

\* Pushing: an operation takes the queue with it, a responder action leaves it.
LEMMA StreamPushInvariant ==
  ASSUME StreamInv, NEW n \in Nat,
         InvokeAction(n) \/ \E c \in Conns : Operate(c, n)
  PROVE  StreamInv'
<1> DEFINE p == Pushes(n)
           new == (pushed + 1)..(pushed + n)
<1>1. p \in Seq(Nat) /\ Distinct(p) /\ Range(p) = Range(queued) \cup new
  BY PushFacts, Zenon DEF StreamInv
<1>2. /\ pushed \in Nat /\ pushed' = pushed + n /\ pushed' \in Nat
      /\ 1..pushed \subseteq 1..pushed' /\ new \subseteq 1..pushed' /\ new \cap 1..pushed = {}
      /\ \A e \in 1..pushed' : e \in 1..pushed \/ e \in new
  BY DEF StreamInv, Shapes, InvokeAction, Operate
<1>3. UNCHANGED <<reader, backlog, lagged, seen, since, lost>>
  BY DEF InvokeAction, Operate, connVars, clientVars
<1>4. \A k \in Subscribers : Got(k)' = Got(k)
  BY <1>3, Zenon DEF Got, Range
<1>5. CASE InvokeAction(n)
  <2>1. queued' = p /\ UNCHANGED <<stage, drained>>
    BY <1>5 DEF InvokeAction, connVars
  <2> HIDE DEF p, new
  <2>2. Shapes'
    BY <1>1, <1>2, <1>3, <2>1, Zenon DEF StreamInv, Shapes
  <2>3. OnePlace'
    <3>1. Range(queued)' = Range(queued) \cup new /\ Distinct(queued)'
      BY <1>1, <2>1, Zenon DEF Range, Distinct
    <3>2. \A c \in Conns : Range(drained[c])' = Range(drained[c]) /\ Distinct(drained[c])' = Distinct(drained[c])
      BY <2>1, Zenon DEF Range, Distinct
    <3> QED
      BY <1>2, <3>1, <3>2, Zenon DEF StreamInv, OnePlace
  <2>4. GotOnce'
    BY <1>1, <1>2, <1>3, <1>4, <2>1, Zenon DEF StreamInv, GotOnce
  <2>5. AllAccounted'
    BY <1>1, <1>2, <1>3, <1>4, <2>1, Zenon DEF StreamInv, AllAccounted
  <2> QED
    BY <2>2, <2>3, <2>4, <2>5 DEF StreamInv
<1>6. ASSUME NEW c \in Conns, Operate(c, n) PROVE StreamInv'
  <2>1. /\ queued' = <<>> /\ drained[c] = <<>> /\ stage[c] = "idle"
        /\ stage' = [stage EXCEPT ![c] = "writing"] /\ drained' = [drained EXCEPT ![c] = p]
    BY <1>6, Zenon DEF Operate, StreamInv, Shapes
  <2> HIDE DEF p, new
  <2>2. /\ drained' \in [Conns -> Seq(Nat)] /\ drained'[c] = p
        /\ \A d \in Conns : d # c => drained'[d] = drained[d]
    BY <1>1, <2>1, Zenon DEF StreamInv, Shapes
  <2>3. Shapes'
    BY <1>1, <1>2, <1>3, <2>1, <2>2, EmptyFacts, Zenon DEF StreamInv, Shapes
  <2>4. OnePlace'
    BY <1>1, <1>2, <2>1, <2>2, EmptyFacts, ZenonT(30) DEF StreamInv, OnePlace
  <2>5. GotOnce'
    <3> SUFFICES ASSUME NEW k \in Subscribers
                 PROVE  /\ Got(k)' \subseteq 1..pushed' /\ Got(k)' \cap Range(queued)' = {}
                        /\ \A d \in Conns : Got(k)' \cap Range(drained[d])' = {}
                        /\ Distinct(seen[k])' /\ Distinct(backlog[k])'
                        /\ Range(seen[k])' \cap Range(backlog[k])' = {}
      BY Zenon DEF GotOnce
    <3>1. Got(k)' \cap Range(p) = {}
      BY <1>1, <1>2, <1>4, Zenon DEF StreamInv, GotOnce
    <3>2. \A d \in Conns : Range(drained[d])' = IF d = c THEN Range(p) ELSE Range(drained[d])
      BY <2>2
    <3>3. \A d \in Conns : Got(k)' \cap Range(drained[d])' = {}
      BY <1>4, <3>1, <3>2, Zenon DEF StreamInv, GotOnce
    <3>4. Got(k)' \subseteq 1..pushed' /\ Got(k)' \cap Range(queued)' = {}
      BY <1>2, <1>4, <2>1, EmptyFacts, Zenon DEF StreamInv, GotOnce
    <3> QED
      BY <1>3, <3>3, <3>4, Zenon DEF StreamInv, GotOnce
  <2>6. AllAccounted'
    <3>1. Range(drained[c]) = {}
      BY <2>1, EmptyFacts
    <3> SUFFICES ASSUME NEW k \in Subscribers, reader'[k] = "on", ~ lagged'[k], NEW e \in 1..pushed'
                 PROVE  \/ e \in since'[k] \cup Got(k)' \cup Range(queued)' \cup lost'
                        \/ \E d \in Conns : e \in Range(drained[d])'
      BY Zenon DEF AllAccounted
    <3>2. CASE e \in Range(p)
      BY <2>2, <3>2, Zenon
    <3>3. CASE \E d \in Conns : e \in Range(drained[d])
      BY <2>2, <3>1, <3>3, Zenon
    <3> QED
      BY <1>1, <1>2, <1>3, <1>4, <3>2, <3>3, Zenon DEF StreamInv, AllAccounted
  <2> QED
    BY <2>3, <2>4, <2>5, <2>6 DEF StreamInv
<1> QED
  BY <1>5, <1>6

\* A command task writes its reply, ends or turns to its next operation.
LEMMA StreamStageInvariant ==
  ASSUME StreamInv, NEW c \in Conns, Written(c) \/ AbortTask(c) \/ Sent(c)
  PROVE  StreamInv'
<1>1. UNCHANGED <<pushed, queued, reader, backlog, lagged, seen, since>>
  BY Zenon DEF Written, AbortTask, Sent, engineVars, clientVars
<1>2. \A k \in Subscribers : Got(k)' = Got(k)
  BY <1>1, Zenon DEF Got, Range
<1>3. CASE Written(c) \/ Sent(c)
  <2>1. /\ UNCHANGED <<drained, lost>> /\ stage' \in [Conns -> {"idle", "writing", "sending"}]
        /\ \A d \in Conns : stage'[d] = "idle" => drained[d] = <<>>
    BY <1>3, Zenon DEF StreamInv, Shapes, Written, Sent
  <2>2. Shapes'
    BY <1>1, <2>1, ZenonT(30) DEF StreamInv, Shapes
  <2>3. OnePlace'
    BY <1>1, <2>1, Zenon DEF StreamInv, OnePlace
  <2>4. GotOnce'
    BY <1>1, <1>2, <2>1, Zenon DEF StreamInv, GotOnce
  <2>5. AllAccounted'
    BY <1>1, <1>2, <2>1, Zenon DEF StreamInv, AllAccounted
  <2> QED
    BY <2>2, <2>3, <2>4, <2>5, Zenon DEF StreamInv
<1>4. CASE AbortTask(c)
  <2>1. /\ stage' \in [Conns -> {"idle", "writing", "sending"}]
        /\ drained' \in [Conns -> Seq(Nat)] /\ drained'[c] = <<>>
        /\ \A d \in Conns : d # c => drained'[d] = drained[d] /\ stage'[d] = stage[d]
        /\ lost' = lost \cup Range(drained[c])
    BY <1>4, EmptyFacts, Zenon DEF StreamInv, Shapes, AbortTask
  <2>2. Shapes'
    BY <1>1, <2>1, ZenonT(30) DEF StreamInv, Shapes
  <2>3. \A d \in Conns : Range(drained[d])' \subseteq Range(drained[d]) /\ Distinct(drained[d])'
    BY <2>1, EmptyFacts, Zenon DEF StreamInv, OnePlace
  <2>4. OnePlace'
    BY <1>1, <2>3, Zenon DEF StreamInv, OnePlace
  <2>5. GotOnce'
    <3>1. ASSUME NEW k \in Subscribers, NEW d \in Conns
          PROVE  Got(k)' \cap Range(drained[d])' = {}
      <4>1. Got(k) \cap Range(drained[d]) = {}
        BY Zenon DEF StreamInv, GotOnce
      <4>2. Got(k)' = Got(k) /\ Range(drained[d])' \subseteq Range(drained[d])
        BY <1>2, <2>3, Zenon
      <4> QED
        BY <4>1, <4>2
    <3>2. \A k \in Subscribers : /\ Distinct(seen[k])' /\ Distinct(backlog[k])'
                                 /\ Range(seen[k])' \cap Range(backlog[k])' = {}
      BY <1>1, Zenon DEF StreamInv, GotOnce
    <3>3. \A k \in Subscribers : Got(k)' \subseteq 1..pushed' /\ Got(k)' \cap Range(queued)' = {}
      BY <1>1, <1>2, Zenon DEF StreamInv, GotOnce
    <3> QED
      BY <3>1, <3>2, <3>3, Zenon DEF GotOnce
  <2>6. AllAccounted'
    BY <1>1, <1>2, <2>1, Zenon DEF StreamInv, AllAccounted
  <2> QED
    BY <2>2, <2>4, <2>5, <2>6, Zenon DEF StreamInv
<1> QED
  BY <1>3, <1>4

\* The ring of a client after an event that it does not hold.
LEMMA RingFacts ==
  ASSUME StreamAssumption, Shapes, NEW k \in Subscribers, NEW e \in Nat,
         Distinct(backlog[k]), e \notin Range(backlog[k])
  PROVE  /\ Ring(k, e) \in Seq(Nat) /\ Len(Ring(k, e)) <= Capacity /\ Distinct(Ring(k, e))
         /\ Range(Ring(k, e)) \subseteq Range(backlog[k]) \cup {e}
         /\ Len(backlog[k]) # Capacity => Range(Ring(k, e)) = Range(backlog[k]) \cup {e}
<1> DEFINE all == Append(backlog[k], e)
<1>1. backlog[k] \in Seq(Nat) /\ Len(backlog[k]) \in Nat /\ Len(backlog[k]) <= Capacity /\ Capacity \in Nat
  BY DEF Shapes, StreamAssumption
<1>2. /\ all \in Seq(Nat) /\ Len(all) = Len(backlog[k]) + 1
      /\ Range(all) = Range(backlog[k]) \cup {e} /\ Distinct(all)
  BY <1>1, AppendFacts, Zenon
<1>3. Ring(k, e) = IF Len(all) <= Capacity THEN all ELSE Tail(all)
  BY DEF Ring
<1> HIDE DEF all
<1>4. CASE Len(all) <= Capacity
  BY <1>1, <1>2, <1>3, <1>4, Zenon
<1>5. CASE ~ (Len(all) <= Capacity)
  <2>1. all # <<>> /\ Len(Tail(all)) = Len(all) - 1 /\ Len(backlog[k]) = Capacity
    BY <1>1, <1>2, <1>5
  <2> QED
    BY <1>1, <1>2, <1>3, <1>5, <2>1, TailFacts
<1> QED
  BY <1>4, <1>5, Zenon

\* A broadcast moves the first drained event to every subscribed client; a client that
\* had no room for it has lagged.
LEMMA StreamSendInvariant ==
  ASSUME StreamAssumption, StreamInv, NEW c \in Conns, Send(c)
  PROVE  StreamInv'
<1> DEFINE e == Head(drained[c])
<1>1. UNCHANGED <<pushed, queued, stage, reader, seen, since, lost>>
  BY Zenon DEF Send, engineVars
<1>2. /\ drained[c] \in Seq(Nat) /\ drained[c] # <<>> /\ stage[c] = "sending"
      /\ drained' \in [Conns -> Seq(Nat)] /\ drained'[c] = Tail(drained[c])
      /\ \A d \in Conns : d # c => drained'[d] = drained[d]
  BY TailFacts, Zenon DEF Send, StreamInv, Shapes
<1>3. /\ e \in Nat /\ e \in Range(drained[c])
      /\ Range(drained[c]) = {e} \cup Range(Tail(drained[c]))
      /\ Distinct(Tail(drained[c])) /\ e \notin Range(Tail(drained[c]))
  BY <1>2, TailFacts, SMTT(30) DEF StreamInv, OnePlace
<1>4. /\ backlog' = [k \in Subscribers |-> IF reader[k] = "on" THEN Ring(k, e) ELSE <<>>]
      /\ lagged' = [k \in Subscribers |-> lagged[k] \/ (reader[k] = "on" /\ Len(backlog[k]) = Capacity)]
  BY Zenon DEF Send
<1> HIDE DEF e
<1>5. /\ \A d \in Conns : /\ Range(drained[d])' \subseteq Range(drained[d]) /\ Distinct(drained[d])'
                          /\ e \notin Range(drained[d])'
                          /\ Range(drained[d]) \subseteq Range(drained[d])' \cup {e}
  BY <1>2, <1>3, Zenon DEF StreamInv, OnePlace
<1>6. e \in 1..pushed /\ e \notin Range(queued)
  BY <1>3, Zenon DEF StreamInv, OnePlace
<1>7. ASSUME NEW k \in Subscribers
      PROVE  /\ backlog'[k] \in Seq(Nat) /\ Len(backlog'[k]) <= Capacity /\ Distinct(backlog[k])'
             /\ Range(backlog[k])' \subseteq Range(backlog[k]) \cup {e}
             /\ e \notin Got(k)
             /\ reader[k] = "off" => backlog'[k] = <<>>
             /\ reader[k] = "on" /\ ~ lagged'[k] =>
                  ~ lagged[k] /\ Range(backlog[k])' = Range(backlog[k]) \cup {e}
  <2>1. e \notin Got(k) /\ e \notin Range(backlog[k]) /\ Distinct(backlog[k])
    BY <1>3, Zenon DEF StreamInv, GotOnce, Got
  <2>2. CASE reader[k] = "on"
    <3>1. /\ backlog'[k] = Ring(k, e)
          /\ ~ lagged'[k] => ~ lagged[k] /\ Len(backlog[k]) # Capacity
      BY <1>4, <2>2, Zenon
    <3>2. Shapes
      BY Zenon DEF StreamInv
    <3>3. e \in Nat
      BY <1>3, Zenon
    <3>4. /\ Ring(k, e) \in Seq(Nat) /\ Len(Ring(k, e)) <= Capacity /\ Distinct(Ring(k, e))
          /\ Range(Ring(k, e)) \subseteq Range(backlog[k]) \cup {e}
          /\ Len(backlog[k]) # Capacity => Range(Ring(k, e)) = Range(backlog[k]) \cup {e}
      BY <2>1, <3>2, <3>3, RingFacts, Zenon
    <3> QED
      BY <2>1, <2>2, <3>1, <3>4, Zenon
  <2>3. CASE reader[k] # "on"
    <3>1. backlog'[k] = <<>>
      BY <1>4, <2>3, Zenon
    <3>2. Len(<<>>) <= Capacity
      BY DEF StreamAssumption
    <3> QED
      BY <2>1, <2>3, <3>1, <3>2, EmptyFacts, Zenon
  <2> QED
    BY <2>2, <2>3, Zenon
<1>8. Shapes'
  <2>1. backlog' \in [Subscribers -> Seq(Nat)] /\ DOMAIN lagged' = Subscribers
    BY <1>4, <1>7, Zenon
  <2>2. \A d \in Conns : stage'[d] = "idle" => drained'[d] = <<>>
    BY <1>1, <1>2, Zenon DEF StreamInv, Shapes
  <2> QED
    BY <1>1, <1>2, <1>7, <2>1, <2>2, Zenon DEF StreamInv, Shapes
<1>9. OnePlace'
  BY <1>1, <1>5, Zenon DEF StreamInv, OnePlace
<1>10. GotOnce'
  <2> SUFFICES ASSUME NEW k \in Subscribers
               PROVE  /\ Got(k)' \subseteq 1..pushed' /\ Got(k)' \cap Range(queued)' = {}
                      /\ \A d \in Conns : Got(k)' \cap Range(drained[d])' = {}
                      /\ Distinct(seen[k])' /\ Distinct(backlog[k])'
                      /\ Range(seen[k])' \cap Range(backlog[k])' = {}
    BY Zenon DEF GotOnce
  <2>1. Got(k)' \subseteq Got(k) \cup {e}
    BY <1>1, <1>7, Zenon DEF Got
  <2>2. Range(seen[k])' = Range(seen[k]) /\ Distinct(seen[k])' /\ e \notin Range(seen[k])
    BY <1>1, <1>7, Zenon DEF StreamInv, GotOnce, Got
  <2>3. Got(k)' \subseteq 1..pushed' /\ Got(k)' \cap Range(queued)' = {}
    BY <1>1, <1>6, <2>1, Zenon DEF StreamInv, GotOnce
  <2>4. ASSUME NEW d \in Conns
        PROVE  Got(k)' \cap Range(drained[d])' = {}
    <3>1. Got(k) \cap Range(drained[d]) = {}
      BY Zenon DEF StreamInv, GotOnce
    <3> QED
      BY <1>5, <2>1, <3>1, Zenon
  <2>5. Range(seen[k])' \cap Range(backlog[k])' = {}
    BY <1>7, <2>2, ZenonT(30) DEF StreamInv, GotOnce
  <2> QED
    BY <1>7, <2>2, <2>3, <2>4, <2>5, Zenon
<1>11. AllAccounted'
  <2> SUFFICES ASSUME NEW k \in Subscribers, reader'[k] = "on", ~ lagged'[k], NEW f \in 1..pushed'
               PROVE  \/ f \in since'[k] \cup Got(k)' \cup Range(queued)' \cup lost'
                      \/ \E d \in Conns : f \in Range(drained[d])'
    BY Zenon DEF AllAccounted
  <2>1. ~ lagged[k] /\ Got(k)' = Got(k) \cup {e}
    BY <1>1, <1>7, Zenon DEF Got
  <2> QED
    BY <1>1, <1>5, <2>1, Zenon DEF StreamInv, AllAccounted
<1> QED
  BY <1>8, <1>9, <1>10, <1>11 DEF StreamInv

\* A client subscribes, takes the next event, or is dropped.
LEMMA StreamClientInvariant ==
  ASSUME StreamAssumption, StreamInv, NEW k \in Subscribers, Subscribe(k) \/ Receive(k) \/ Drop(k)
  PROVE  StreamInv'
<1>1. UNCHANGED <<pushed, queued, stage, drained, lost>>
  BY Zenon DEF Subscribe, Receive, Drop, engineVars, connVars
<1>2. \A l \in Subscribers : l # k => /\ reader'[l] = reader[l] /\ backlog'[l] = backlog[l]
                                  /\ seen'[l] = seen[l] /\ lagged'[l] = lagged[l]
                                  /\ since'[l] = since[l]
  <2>1. /\ DOMAIN reader = Subscribers /\ DOMAIN backlog = Subscribers /\ DOMAIN seen = Subscribers
        /\ DOMAIN lagged = Subscribers /\ DOMAIN since = Subscribers
    BY Zenon DEF StreamInv, Shapes
  <2>2. CASE Subscribe(k)
    BY <2>1, <2>2, ZenonT(30) DEF Subscribe
  <2>3. CASE Receive(k)
    BY <2>1, <2>3, ZenonT(30) DEF Receive
  <2>4. CASE Drop(k)
    BY <2>1, <2>4, ZenonT(30) DEF Drop
  <2> QED
    BY <2>2, <2>3, <2>4, Zenon
<1>3. \A l \in Subscribers : l # k => Got(l)' = Got(l)
  BY <1>2, Zenon DEF Got
<1>4. OnePlace'
  BY <1>1, Zenon DEF StreamInv, OnePlace
<1>5. ASSUME seen' \in [Subscribers -> Seq(Nat)], backlog' \in [Subscribers -> Seq(Nat)],
             reader' \in [Subscribers -> {"off", "on"}], DOMAIN lagged' = Subscribers, DOMAIN since' = Subscribers,
             reader'[k] = "off" => backlog'[k] = <<>>, Len(backlog'[k]) <= Capacity,
             Got(k)' \subseteq Got(k), Distinct(seen[k])', Distinct(backlog[k])',
             Range(seen[k])' \cap Range(backlog[k])' = {},
             reader'[k] = "on" /\ ~ lagged'[k] =>
               \/ 1..pushed \subseteq since'[k]
               \/ /\ reader[k] = "on" /\ ~ lagged[k] /\ Got(k)' = Got(k) /\ since'[k] = since[k]
      PROVE  StreamInv'
  <2>1. Shapes'
    BY <1>1, <1>2, <1>5, Zenon DEF StreamInv, Shapes
  <2>2. GotOnce'
    BY <1>1, <1>2, <1>3, <1>5, Zenon DEF StreamInv, GotOnce
  <2>3. AllAccounted'
    BY <1>1, <1>2, <1>3, <1>5, ZenonT(30) DEF StreamInv, AllAccounted
  <2> QED
    BY <1>4, <2>1, <2>2, <2>3, Zenon DEF StreamInv
<1>6. /\ backlog[k] \in Seq(Nat) /\ seen[k] \in Seq(Nat) /\ Len(backlog[k]) <= Capacity
      /\ Distinct(seen[k]) /\ Distinct(backlog[k]) /\ Range(seen[k]) \cap Range(backlog[k]) = {}
  BY Zenon DEF StreamInv, Shapes, GotOnce
<1>7. CASE Subscribe(k)
  <2>1. /\ reader' \in [Subscribers -> {"off", "on"}] /\ reader'[k] = "on"
        /\ seen' \in [Subscribers -> Seq(Nat)] /\ seen'[k] = <<>>
        /\ DOMAIN since' = Subscribers /\ since'[k] = 1..pushed /\ UNCHANGED <<backlog, lagged>>
    BY <1>7, EmptyFacts, Zenon DEF Subscribe, StreamInv, Shapes
  <2>2. Got(k)' \subseteq Got(k) /\ Distinct(seen[k])' /\ Range(seen[k])' = {}
    BY <2>1, EmptyFacts, ZenonT(30) DEF Got
  <2> QED
    BY <1>5, <1>6, <2>1, <2>2, Zenon DEF StreamInv, Shapes
<1>8. CASE Receive(k)
  <2> DEFINE e == Head(backlog[k])
  <2>1. /\ reader[k] = "on" /\ ~ lagged[k] /\ backlog[k] # <<>>
        /\ UNCHANGED <<reader, lagged, since>>
    BY <1>8, Zenon DEF Receive
  <2>2. /\ Tail(backlog[k]) \in Seq(Nat) /\ e \in Nat /\ Len(Tail(backlog[k])) <= Len(backlog[k])
        /\ Range(backlog[k]) = {e} \cup Range(Tail(backlog[k]))
        /\ Distinct(Tail(backlog[k])) /\ e \notin Range(Tail(backlog[k]))
    BY <1>6, <2>1, TailFacts, Zenon
  <2>3. /\ Append(seen[k], e) \in Seq(Nat) /\ Range(Append(seen[k], e)) = Range(seen[k]) \cup {e}
        /\ Distinct(Append(seen[k], e))
    BY <1>6, <2>2, AppendFacts, Zenon
  <2>4. /\ seen' \in [Subscribers -> Seq(Nat)] /\ seen'[k] = Append(seen[k], e)
        /\ backlog' \in [Subscribers -> Seq(Nat)] /\ backlog'[k] = Tail(backlog[k])
    BY <1>8, <2>2, <2>3, Zenon DEF Receive, StreamInv, Shapes
  <2> HIDE DEF e
  <2>5. Got(k)' = Got(k)
    BY <2>2, <2>3, <2>4, Zenon DEF Got
  <2>6. Range(seen[k])' \cap Range(backlog[k])' = {} /\ Distinct(seen[k])' /\ Distinct(backlog[k])'
    BY <1>6, <2>2, <2>3, <2>4, Zenon
  <2>7. Len(backlog'[k]) <= Capacity
    <3>1. Len(backlog[k]) \in Nat /\ Len(Tail(backlog[k])) \in Nat /\ Capacity \in Nat
      BY <1>6, <2>2, SMTT(30) DEF StreamAssumption
    <3> QED
      <4>1. Len(Tail(backlog[k])) = Len(backlog[k]) - 1 /\ Len(backlog[k]) <= Capacity
        BY <1>6, <2>2
      <4> QED
        BY <2>4, <3>1, <4>1
  <2> QED
    BY <1>5, <2>1, <2>4, <2>5, <2>6, <2>7, ZenonT(30) DEF StreamInv, Shapes
<1>9. CASE Drop(k)
  <2>1. /\ reader' \in [Subscribers -> {"off", "on"}] /\ reader'[k] = "off"
        /\ seen' \in [Subscribers -> Seq(Nat)] /\ seen'[k] = <<>>
        /\ backlog' \in [Subscribers -> Seq(Nat)] /\ backlog'[k] = <<>>
        /\ DOMAIN since' = Subscribers /\ DOMAIN lagged' = Subscribers
    BY <1>9, EmptyFacts, Zenon DEF Drop, StreamInv, Shapes
  <2>2. /\ Got(k)' \subseteq Got(k) /\ Distinct(seen[k])' /\ Distinct(backlog[k])'
        /\ Range(seen[k])' \cap Range(backlog[k])' = {} /\ Len(backlog'[k]) <= Capacity
    BY <2>1, EmptyFacts DEF Got, StreamAssumption
  <2> QED
    BY <1>5, <2>1, <2>2, Zenon
<1> QED
  BY <1>7, <1>8, <1>9

\* Events have numbers up to the bound, and those that died with a task were pushed.
Bounds == pushed <= MaxPushed /\ lost \subseteq 1..pushed

\* Every step keeps the bounds.
LEMMA BoundsHold ==
  ASSUME StreamAssumption, StreamInv, Bounds, [StreamNext]_streamVars
  PROVE  Bounds'
<1>1. pushed \in Nat
  BY Zenon DEF StreamInv, Shapes
<1>2. ASSUME NEW n \in 0..MaxPush, pushed + n <= MaxPushed, pushed' = pushed + n, UNCHANGED lost
      PROVE  Bounds'
  <2>1. n \in Nat /\ 1..pushed \subseteq 1..(pushed + n)
    BY <1>1 DEF StreamAssumption
  <2>. QED  BY <1>2, <2>1, Zenon DEF Bounds
<1>3. ASSUME UNCHANGED pushed, UNCHANGED lost
      PROVE  Bounds'
  BY <1>3 DEF Bounds
<1>4. ASSUME NEW c \in Conns, AbortTask(c)
      PROVE  Bounds'
  <2>1. UNCHANGED pushed /\ lost' = lost \cup Range(drained[c])
    BY <1>4, Zenon DEF AbortTask, engineVars
  <2>2. Range(drained[c]) \subseteq 1..pushed
    BY Zenon DEF StreamInv, OnePlace
  <2>. QED  BY <2>1, <2>2, Zenon DEF Bounds
<1>5. ASSUME NEW n \in 0..MaxPush, InvokeAction(n) \/ \E c \in Conns : Operate(c, n)
      PROVE  Bounds'
  BY <1>2, <1>5, Zenon DEF InvokeAction, Operate, connVars
<1>6. ASSUME NEW c \in Conns, Written(c) \/ Sent(c) \/ Send(c)
      PROVE  Bounds'
  BY <1>3, <1>6, Zenon DEF Written, Sent, Send, engineVars
<1>7. ASSUME NEW k \in Subscribers, Subscribe(k) \/ Receive(k) \/ Drop(k)
      PROVE  Bounds'
  BY <1>3, <1>7, Zenon DEF Subscribe, Receive, Drop, engineVars, connVars
<1>8. CASE UNCHANGED streamVars
  BY <1>3, <1>8, Zenon DEF streamVars
<1>9. \A n \in 1..MaxPush : n \in 0..MaxPush
  BY DEF StreamAssumption
<1>. QED  BY <1>4, <1>5, <1>6, <1>7, <1>8, <1>9, Zenon DEF StreamNext

\* A sequence of naturals is one of the numbers it holds.
LEMMA NumbersOf ==
  ASSUME NEW s \in Seq(Nat), NEW n \in Nat, Range(s) \subseteq 1..n
  PROVE  s \in Seq(1..n)
<1>1. Len(s) \in Nat /\ s = [i \in 1..Len(s) |-> s[i]]
  OBVIOUS
<1>2. \A i \in 1..Len(s) : s[i] \in 1..n
  BY DEF Range
<1>. QED  BY <1>1, <1>2, SMTT(30)

\* The invariant and the bounds give the types.
LEMMA StreamTypes ==
  ASSUME StreamAssumption, StreamInv, Bounds
  PROVE  StreamTypeOK
<1>1. pushed \in Nat /\ pushed \in 0..MaxPushed
  BY DEF StreamInv, Shapes, Bounds, StreamAssumption
<1>2. queued \in Seq(1..pushed)
  BY <1>1, NumbersOf, Zenon DEF StreamInv, Shapes, OnePlace
<1>3. ASSUME NEW c \in Conns
      PROVE  drained[c] \in Seq(1..pushed) /\ (stage[c] = "idle" => drained[c] = <<>>)
  BY <1>1, NumbersOf, Zenon DEF StreamInv, Shapes, OnePlace
<1>4. ASSUME NEW k \in Subscribers
      PROVE  /\ backlog[k] \in Seq(1..pushed) /\ Len(backlog[k]) <= Capacity
             /\ seen[k] \in Seq(1..pushed)
  <2>1. Range(backlog[k]) \subseteq 1..pushed /\ Range(seen[k]) \subseteq 1..pushed
    BY Zenon DEF StreamInv, GotOnce, Got
  <2>2. backlog[k] \in Seq(Nat) /\ seen[k] \in Seq(Nat) /\ Len(backlog[k]) <= Capacity
    BY Zenon DEF StreamInv, Shapes
  <2>. QED  BY <1>1, <2>1, <2>2, NumbersOf, Zenon
<1>. QED  BY <1>1, <1>2, <1>3, <1>4, Zenon DEF StreamTypeOK, StreamInv, Shapes, Bounds

\* Whatever the number of command tasks and event clients, and however often clients lag,
\* leave and come back: a client that keeps up misses no event pushed since it subscribed
\* and gets none twice (ExactlyOnce).
THEOREM EventsArriveOnce == StreamSpec => []ExactlyOnce
<1> USE StreamAssumption
<1>1. StreamInit => StreamInv
  <2> SUFFICES ASSUME StreamInit PROVE StreamInv
    OBVIOUS
  <2>1. Shapes
    BY EmptyFacts DEF StreamInit, Shapes, StreamAssumption
  <2>2. OnePlace
    BY EmptyFacts, Zenon DEF StreamInit, OnePlace
  <2>3. GotOnce /\ AllAccounted
    BY EmptyFacts, Zenon DEF StreamInit, GotOnce, AllAccounted, Got
  <2> QED
    BY <2>1, <2>2, <2>3 DEF StreamInv
<1>2. StreamInv /\ [StreamNext]_streamVars => StreamInv'
  <2> SUFFICES ASSUME StreamInv, [StreamNext]_streamVars PROVE StreamInv'
    OBVIOUS
  <2>1. ASSUME NEW n \in 0..MaxPush, InvokeAction(n) \/ \E c \in Conns : Operate(c, n) PROVE StreamInv'
    BY <2>1, StreamPushInvariant DEF StreamAssumption
  <2>2. ASSUME NEW c \in Conns, Written(c) \/ AbortTask(c) \/ Sent(c) PROVE StreamInv'
    BY <2>2, StreamStageInvariant, Zenon
  <2>3. ASSUME NEW c \in Conns, Send(c) PROVE StreamInv'
    BY <2>3, StreamSendInvariant
  <2>4. ASSUME NEW k \in Subscribers, Subscribe(k) \/ Receive(k) \/ Drop(k) PROVE StreamInv'
    BY <2>4, StreamClientInvariant, Zenon
  <2>5. CASE UNCHANGED streamVars
    <3>1. UNCHANGED <<pushed, queued, stage, drained, reader, backlog, lagged, seen, since, lost>>
      BY <2>5, Zenon DEF streamVars
    <3>2. \A k \in Subscribers : Got(k)' = Got(k)
      BY <3>1, Zenon DEF Got, Range
    <3>3. Shapes' /\ OnePlace'
      BY <3>1, Zenon DEF StreamInv, Shapes, OnePlace
    <3>4. GotOnce' /\ AllAccounted'
      BY <3>1, <3>2, Zenon DEF StreamInv, GotOnce, AllAccounted
    <3> QED
      BY <3>3, <3>4, Zenon DEF StreamInv
  <2>6. \A n \in 1..MaxPush : n \in 0..MaxPush
    BY DEF StreamAssumption
  <2> QED
    BY <2>1, <2>2, <2>3, <2>4, <2>5, <2>6, Zenon DEF StreamNext
<1>3. StreamInit => Bounds
  BY DEF StreamInit, Bounds, StreamAssumption
<1>4. StreamInv /\ Bounds => ExactlyOnce
  BY StreamTypes, InvariantIsEnough DEF ExactlyOnce
<1> QED
  BY <1>1, <1>2, <1>3, <1>4, BoundsHold, PTL DEF StreamSpec
=============================================================================
