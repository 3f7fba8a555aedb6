------------------------ MODULE StandardConnections ------------------------
(***************************************************************************)
(* The pairing of command and event connections under canonical PTP/IP     *)
(* initialisation.  A command connection allocates a number and tells it   *)
(* to its client; the client opens an event connection with that number.   *)
(* A number has room for one event connection, and when one of the pair    *)
(* ends, closing the number cancels the other.                             *)
(*                                                                         *)
(* Closing a number is two steps: the entry leaves the table under the     *)
(* lock, and the cancellation is broadcast after it.                       *)
(***************************************************************************)
EXTENDS Naturals, FiniteSets

CONSTANTS
  Commands,   \* tasks that serve command connections
  Events,     \* tasks that serve event connections
  MaxNumber   \* bound: how many numbers are allocated

ASSUME PairAssumption == MaxNumber \in Nat /\ Commands \cap Events = {}

VARIABLES
  next,       \* StandardConnections.next
  active,     \* the numbers in the table
  attached,   \* those of them with event_attached
  cmd,        \* the stage of each command task
  ev,         \* the stage of each event task
  num,        \* the number each task works with; 0 before it has one
  cancelled   \* the tasks with a cancellation to receive

pairVars == <<next, active, attached, cmd, ev, num, cancelled>>

Tasks == Commands \cup Events

CmdStages == {"idle", "acking", "reading", "operating", "ending", "sending"}

EvStages == {"idle", "acking", "streaming", "writing", "ending", "sending"}

PairInit ==
  /\ next = 0
  /\ active = {}
  /\ attached = {}
  /\ cmd = [c \in Commands |-> "idle"]
  /\ ev = [e \in Events |-> "idle"]
  /\ num = [t \in Tasks |-> 0]
  /\ cancelled = {}

CmdMoves(c, from, to) ==
  /\ cmd[c] \in from
  /\ cmd' = [cmd EXCEPT ![c] = to]

EvMoves(e, from, to) ==
  /\ ev[e] \in from
  /\ ev' = [ev EXCEPT ![e] = to]

\* The tasks that hold a receiver of number n.
Receivers(n) == {t \in Tasks : num[t] = n}

-----------------------------------------------------------------------------
\* allocate: a command connection sent its InitCommandRequest.
Allocate(c) ==
  /\ next < MaxNumber
  /\ CmdMoves(c, {"idle"}, "acking")
  /\ next' = next + 1
  /\ active' = active \cup {next'}
  /\ num' = [num EXCEPT ![c] = next']
  /\ UNCHANGED <<attached, ev, cancelled>>

\* The acknowledgement is written, a frame arrives, or its reply is written.
CommandStep(c) ==
  /\ \/ CmdMoves(c, {"acking", "operating"}, "reading")
     \/ CmdMoves(c, {"reading"}, "operating")
  /\ UNCHANGED <<next, active, attached, ev, num, cancelled>>

\* The peer is gone, or a write or the data phase failed.
CommandFails(c) ==
  /\ CmdMoves(c, {"acking", "reading", "operating"}, "ending")
  /\ UNCHANGED <<next, active, attached, ev, num, cancelled>>

\* The loop looks for a cancellation only while it waits for a frame.
CommandCancelled(c) ==
  /\ c \in cancelled
  /\ CmdMoves(c, {"reading"}, "ending")
  /\ UNCHANGED <<next, active, attached, ev, num, cancelled>>

\* close, first half: the guard of the command is dropped.
CommandRemoves(c) ==
  /\ CmdMoves(c, {"ending"}, IF num[c] \in active THEN "sending" ELSE "idle")
  /\ active' = active \ {num[c]}
  /\ attached' = attached \ {num[c]}
  /\ num' = IF num[c] \in active THEN num ELSE [num EXCEPT ![c] = 0]
  /\ cancelled' = IF num[c] \in active THEN cancelled ELSE cancelled \ {c}
  /\ UNCHANGED <<next, ev>>

\* close, second half: cancel.send, and the task is gone.
CommandSends(c) ==
  /\ CmdMoves(c, {"sending"}, "idle")
  /\ cancelled' = (cancelled \cup Receivers(num[c])) \ {c}
  /\ num' = [num EXCEPT ![c] = 0]
  /\ UNCHANGED <<next, active, attached, ev>>

-----------------------------------------------------------------------------
\* attach: an InitEventRequest with number n, which is refused unless n is active
\* and has no event connection yet.
Attach(e, n) ==
  /\ n \in active \ attached
  /\ EvMoves(e, {"idle"}, "acking")
  /\ attached' = attached \cup {n}
  /\ num' = [num EXCEPT ![e] = n]
  /\ UNCHANGED <<next, active, cmd, cancelled>>

\* The acknowledgement, an event or a probe response is written, or begun.
EventStep(e) ==
  /\ \/ EvMoves(e, {"acking", "writing"}, "streaming")
     \/ EvMoves(e, {"streaming"}, "writing")
  /\ UNCHANGED <<next, active, attached, cmd, num, cancelled>>

\* Variant with a guard that is disarmed before the acknowledgement is written.
AckFailsDisarmed(e) ==
  /\ EvMoves(e, {"acking"}, "idle")
  /\ num' = [num EXCEPT ![e] = 0]
  /\ cancelled' = cancelled \ {e}
  /\ UNCHANGED <<next, active, attached, cmd>>

\* The acknowledgement fails or is late: the guard gives the place back.
AckFails(e) ==
  /\ EvMoves(e, {"acking"}, "idle")
  /\ attached' = attached \ {num[e]}
  /\ num' = [num EXCEPT ![e] = 0]
  /\ cancelled' = cancelled \ {e}
  /\ UNCHANGED <<next, active, cmd>>

\* The peer is gone, the broadcast lagged or a write failed or was late.
EventFails(e) ==
  /\ EvMoves(e, {"streaming", "writing"}, "ending")
  /\ UNCHANGED <<next, active, attached, cmd, num, cancelled>>

EventCancelled(e) ==
  /\ e \in cancelled
  /\ EvMoves(e, {"streaming"}, "ending")
  /\ UNCHANGED <<next, active, attached, cmd, num, cancelled>>

\* Variant that only gives the place back when an event connection ends.
EventDetaches(e) ==
  /\ EvMoves(e, {"ending"}, "idle")
  /\ attached' = attached \ {num[e]}
  /\ num' = [num EXCEPT ![e] = 0]
  /\ cancelled' = cancelled \ {e}
  /\ UNCHANGED <<next, active, cmd>>

\* close, first half, by the event connection.
EventRemoves(e) ==
  /\ EvMoves(e, {"ending"}, IF num[e] \in active THEN "sending" ELSE "idle")
  /\ active' = active \ {num[e]}
  /\ attached' = attached \ {num[e]}
  /\ num' = IF num[e] \in active THEN num ELSE [num EXCEPT ![e] = 0]
  /\ cancelled' = IF num[e] \in active THEN cancelled ELSE cancelled \ {e}
  /\ UNCHANGED <<next, cmd>>

\* close, second half.
EventSends(e) ==
  /\ EvMoves(e, {"sending"}, "idle")
  /\ cancelled' = (cancelled \cup Receivers(num[e])) \ {e}
  /\ num' = [num EXCEPT ![e] = 0]
  /\ UNCHANGED <<next, active, attached, cmd>>

PairNext ==
  \/ \E c \in Commands : \/ Allocate(c) \/ CommandStep(c) \/ CommandFails(c)
                         \/ CommandCancelled(c) \/ CommandRemoves(c) \/ CommandSends(c)
  \/ \E e \in Events : \/ EventStep(e) \/ AckFails(e) \/ EventFails(e)
                       \/ EventCancelled(e) \/ EventRemoves(e) \/ EventSends(e)
                       \/ \E n \in 1..MaxNumber : Attach(e, n)

\* A started task goes on.  Every write of an event connection and the handshake of
\* both have deadlines; a client reads the replies it asked for.  select! picks at
\* random among what is ready, so a cancellation is seen by a loop that comes back to
\* it again and again.
PairFairness ==
  /\ \A c \in Commands :
       /\ WF_pairVars(cmd[c] \in {"acking", "operating"} /\ CommandStep(c))
       /\ SF_pairVars(CommandCancelled(c))
       /\ WF_pairVars(CommandRemoves(c)) /\ WF_pairVars(CommandSends(c))
  /\ \A e \in Events :
       /\ WF_pairVars(ev[e] \in {"acking", "writing"} /\ EventStep(e))
       /\ SF_pairVars(EventCancelled(e))
       /\ WF_pairVars(EventRemoves(e)) /\ WF_pairVars(EventSends(e))

PairSpec == PairInit /\ [][PairNext]_pairVars

PairFairSpec == PairSpec /\ PairFairness

-----------------------------------------------------------------------------
\* The table and the tasks have their types.
PairTypeOK ==
  /\ next \in 0..MaxNumber
  /\ active \subseteq 1..next
  /\ attached \subseteq active
  /\ cmd \in [Commands -> CmdStages]
  /\ ev \in [Events -> EvStages]
  /\ num \in [Tasks -> 0..next]
  /\ cancelled \subseteq Tasks

\* The event tasks that hold the place of number n.
Holders(n) == {e \in Events : num[e] = n}

\* A number in the table has its place taken exactly while one event task holds it:
\* there are never two event streams of one command connection, and a place is free
\* again after an event connection whose acknowledgement failed.
PlaceIsHeld ==
  \A n \in active :
    /\ n \in attached <=> Holders(n) # {}
    /\ \A e, f \in Holders(n) : e = f

\* A task whose number left the table has been told, or is about to be: the other one
\* of the pair holds the cancellation, or the task is closing the number itself.
NobodyIsForgotten ==
  \A t \in Tasks :
    num[t] \notin active \cup {0} =>
      \/ t \in cancelled
      \/ \E c \in Commands : num[c] = num[t] /\ cmd[c] = "sending"
      \/ \E e \in Events : num[e] = num[t] /\ ev[e] = "sending"

\* Closing either of the associated sockets closes the pair: when a task of a number
\* ends, the number eventually has no task.
PairCloses ==
  \A n \in 1..MaxNumber :
    (\E t \in Tasks : num[t] = n /\ (t \in Commands => cmd[t] = "ending")
                                 /\ (t \in Events => ev[t] = "ending"))
      ~> (\A t \in Tasks : num[t] # n)

\* The places of the table and the tasks together.
TableIsExact == PlaceIsHeld /\ NobodyIsForgotten

\* The table of pairs is exact: a place is taken exactly while one event task holds it,
\* and a task whose number left the table is told, however the ends of the two
\* connections, failed acknowledgements and new ones interleave.
PairingIsExact == PairTypeOK /\ TableIsExact
===============================================================================
