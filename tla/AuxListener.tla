----------------------------- MODULE AuxListener -----------------------------
(***************************************************************************)
(* A declared auxiliary listener (event or live view) of the simulator     *)
(* service: DeclaredAuxListener in services/camera-sim-service/src/lib.rs, *)
(* with the two tasks that share it.  The setter is whoever holds          *)
(* declared_aux_sync after an operation or a state patch and calls         *)
(* set_ready with the readiness the engine reported; the acceptor is the   *)
(* accept loop of the role, which owns the connections it accepted.  The   *)
(* two run on different threads, and meet only in the state mutex, the     *)
(* epoch counters and the notifications.                                   *)
(***************************************************************************)
EXTENDS Naturals, FiniteSets

CONSTANTS
  Clients,    \* TCP clients of the port
  NoGen,      \* the acceptor holds no listener
  Admitted,   \* connections the loop keeps at once (LIVEVIEW/EVENT_CONNECTIONS)
  MaxEpoch,   \* bound: how often the listener may be deactivated
  SocketErrors \* whether bind, listen and accept may fail on their own

ASSUME AuxAssumption ==
  /\ Admitted \in Nat \ {0}
  /\ MaxEpoch \in Nat
  /\ SocketErrors \in BOOLEAN
  /\ NoGen \notin Nat

VARIABLES
  gate,      \* Engine::channel_ready for the role
  setter,    \* where set_ready is
  want,      \* the readiness the setter read from the engine
  lstate,    \* DeclaredAuxListenerState
  gen,       \* the listening socket, named by rearm_epoch when it began to listen
  pending,   \* Listening.pending_accept is Some
  released,  \* the permit of the `completed` notification the setter awaits
  ready,     \* the permit of `ready`
  epoch,     \* rearm_epoch
  reported,  \* reported_rearm_epoch
  acceptor,  \* where the accept loop is
  held,      \* the socket whose Arc the acceptor holds
  client,    \* each client's connection
  cgen       \* the socket a client connected to

setterVars == <<setter, want>>
listenerVars == <<lstate, gen, pending, ready, epoch>>
socketVars == <<client, cgen>>
auxVars == <<gate, setterVars, listenerVars, released, reported, acceptor, held, socketVars>>

AuxInit ==
  /\ gate = FALSE
  /\ setter = "idle"
  /\ want = FALSE
  /\ lstate = "Bound"
  /\ gen = 0
  /\ pending = FALSE
  /\ released = FALSE
  /\ ready = FALSE
  /\ epoch = 0
  /\ reported = 0
  /\ acceptor = "top"
  /\ held = NoGen
  /\ client = [c \in Clients |-> "away"]
  /\ cgen = [c \in Clients |-> 0]

-----------------------------------------------------------------------------
\* Sockets.  A listening socket lives while the state or the acceptor holds it;
\* its backlog is reset when the last of them lets go.

Live == {c \in Clients : client[c] = "live"}

Backlog(g) == {c \in Clients : client[c] = "backlog" /\ cgen[c] = g}

Reset(g) == [c \in Clients |-> IF c \in Backlog(g) THEN "closed" ELSE client[c]]

\* A second socket cannot be bound while a listener of the port is alive.
BindOutcomes ==
  (IF held = NoGen THEN {TRUE} ELSE {FALSE}) \cup (IF SocketErrors THEN {FALSE} ELSE {})

ListenOutcomes == {TRUE} \cup (IF SocketErrors THEN {FALSE} ELSE {})

Connect(c) ==
  /\ client[c] = "away"
  /\ \/ lstate = "Listening" /\ cgen' = [cgen EXCEPT ![c] = gen]
     \/ held # NoGen /\ cgen' = [cgen EXCEPT ![c] = held]
  /\ client' = [client EXCEPT ![c] = "backlog"]
  /\ UNCHANGED <<gate, setterVars, listenerVars, released, reported, acceptor, held>>

\* A peer leaves or its stream task fails; the task waits to be reaped.
Leave(c) ==
  /\ client[c] = "live"
  /\ client' = [client EXCEPT ![c] = "ended"]
  /\ UNCHANGED <<gate, setterVars, listenerVars, released, reported, acceptor, held, cgen>>

-----------------------------------------------------------------------------
\* The setter.

\* An operation or a patch leaves the gate satisfied or not, and reads it under
\* the engine lock.
Dispatch ==
  /\ setter = "idle"
  /\ setter' = "apply"
  /\ gate' \in BOOLEAN
  /\ want' = gate'
  /\ UNCHANGED <<listenerVars, released, reported, acceptor, held, socketVars>>

\* clear_session_after_transport_end: resets the gates under the engine lock and
\* synchronises no listener.
TeardownGate ==
  /\ gate
  /\ gate' = FALSE
  /\ UNCHANGED <<setterVars, listenerVars, released, reported, acceptor, held, socketVars>>

\* Variant that forgets to wake the acceptor.
BeginListeningQuietly ==
  /\ lstate' = "Listening"
  /\ gen' = epoch
  /\ pending' = FALSE
  /\ ready' = ready

\* The success arm of listen().
BeginListening ==
  /\ lstate' = "Listening"
  /\ gen' = epoch
  /\ pending' = FALSE
  /\ ready' = TRUE

Activate ==
  /\ setter = "apply" /\ want
  /\ setter' = "idle"
  /\ \/ lstate = "Listening" /\ UNCHANGED listenerVars
     \/ /\ lstate = "Bound"
        /\ \E ok \in ListenOutcomes :
             IF ok THEN BeginListening /\ UNCHANGED epoch
             ELSE lstate' \in {"Bound", "Rebinding"} /\ UNCHANGED <<gen, pending, ready, epoch>>
     \/ /\ lstate = "Rebinding"
        /\ \E bound \in BindOutcomes, ok \in ListenOutcomes :
             IF bound /\ ok THEN BeginListening /\ UNCHANGED epoch
             ELSE /\ lstate' \in IF bound THEN {"Bound", "Rebinding"} ELSE {"Rebinding"}
                  /\ UNCHANGED <<gen, pending, ready, epoch>>
  /\ UNCHANGED <<gate, want, released, reported, acceptor, held, socketVars>>

\* Variant that leaves a listener alone while an accept is suspended on it.
DeactivateUnlessBusy ==
  /\ setter = "apply" /\ ~ want
  /\ \/ /\ lstate = "Bound" \/ (lstate = "Listening" /\ pending)
        /\ setter' = "idle"
        /\ UNCHANGED <<listenerVars, client>>
     \/ /\ lstate = "Listening" /\ epoch < MaxEpoch /\ ~ pending
        /\ lstate' = "Rebinding"
        /\ epoch' = epoch + 1
        /\ setter' = "rebind"
        /\ client' = IF held = gen THEN client ELSE Reset(gen)
        /\ UNCHANGED <<gen, pending, ready>>
     \/ /\ lstate = "Rebinding"
        /\ setter' = "rebind"
        /\ UNCHANGED <<listenerVars, client>>
  /\ UNCHANGED <<gate, want, released, reported, acceptor, held, cgen>>

\* The first half of deactivate, under the state lock.
Deactivate ==
  /\ setter = "apply" /\ ~ want
  /\ \/ /\ lstate = "Bound"
        /\ setter' = "idle"
        /\ UNCHANGED <<listenerVars, client>>
     \/ /\ lstate = "Listening" /\ epoch < MaxEpoch
        /\ lstate' = "Rebinding"
        /\ epoch' = epoch + 1
        /\ setter' = IF pending THEN "await" ELSE "rebind"
        /\ client' = IF held = gen THEN client ELSE Reset(gen)
        /\ UNCHANGED <<gen, pending, ready>>
     \/ /\ lstate = "Rebinding"
        /\ setter' = "rebind"
        /\ UNCHANGED <<listenerVars, client>>
  /\ UNCHANGED <<gate, want, released, reported, acceptor, held, cgen>>

\* pending_accept.notified() returns.
AcceptReleased ==
  /\ setter = "await" /\ released
  /\ setter' = "rebind"
  /\ released' = FALSE
  /\ UNCHANGED <<gate, want, listenerVars, reported, acceptor, held, socketVars>>

\* The second half of deactivate.
Rebind ==
  /\ setter = "rebind"
  /\ setter' = "idle"
  /\ \E bound \in BindOutcomes : lstate' = IF bound THEN "Bound" ELSE "Rebinding"
  /\ UNCHANGED <<gate, want, gen, pending, ready, epoch, released, reported, acceptor,
                 held, socketVars>>

-----------------------------------------------------------------------------
\* The acceptor.

Max(a, b) == IF a < b THEN b ELSE a

\* Variant that reports one rearm too many.
TopOvershoots ==
  /\ acceptor = "top"
  /\ reported' = epoch + 1
  /\ acceptor' = IF reported < epoch THEN "rearmed" ELSE "check"
  /\ UNCHANGED <<gate, setterVars, listenerVars, released, held, socketVars>>

\* accept() begins: take_rearm.
Top ==
  /\ acceptor = "top"
  /\ reported' = Max(reported, epoch)
  /\ acceptor' = IF reported < epoch THEN "rearmed" ELSE "check"
  /\ UNCHANGED <<gate, setterVars, listenerVars, released, held, socketVars>>

\* Under the state lock: take the listener and leave a completion to wait for.
Check ==
  /\ acceptor = "check"
  /\ IF lstate = "Listening"
     THEN acceptor' = "pending" /\ held' = gen /\ pending' = TRUE
     ELSE acceptor' = "waiting" /\ UNCHANGED <<held, pending>>
  /\ UNCHANGED <<gate, setterVars, lstate, gen, ready, epoch, released, reported, socketVars>>

Wake ==
  /\ acceptor = "waiting" /\ ready
  /\ ready' = FALSE
  /\ acceptor' = "top"
  /\ UNCHANGED <<gate, setterVars, lstate, gen, pending, epoch, released, reported, held, socketVars>>

\* Variants whose guard forgets the slot, and forgets the setter.
DropGuardKeepsSlot ==
  /\ pending' = pending
  /\ released' = (setter = "await")

\* DeclaredAcceptGuard::drop.
DropGuard ==
  /\ pending' = (pending /\ ~ (lstate = "Listening" /\ held = gen))
  /\ released' = (setter = "await")

\* The acceptor lets go of its listener; if the state no longer has it, the
\* socket is gone with its backlog.
Unlisten == IF lstate = "Listening" /\ held = gen THEN client ELSE Reset(held)

\* The cancel notification of the held listener won the select.
Cancelled ==
  /\ acceptor = "pending" /\ held < epoch
  /\ acceptor' = "rearmed"
  /\ held' = NoGen
  /\ DropGuard
  /\ client' = Unlisten
  /\ reported' = Max(reported, epoch)
  /\ UNCHANGED <<gate, setterVars, lstate, gen, ready, epoch, cgen>>

\* A connection or a socket error won the select.
Accepted ==
  /\ acceptor = "pending"
  /\ held' = NoGen
  /\ DropGuard
  /\ \/ \E c \in Backlog(held) :
          /\ acceptor' = "handler"
          /\ client' = [Unlisten EXCEPT ![c] = "accepted"]
     \/ SocketErrors /\ acceptor' = "top" /\ client' = Unlisten
  /\ UNCHANGED <<gate, setterVars, lstate, gen, ready, epoch, reported, cgen>>

\* The accept loop keeps the connection if it has a permit and the channel is
\* ready by now.
Handle(c) ==
  /\ acceptor = "handler" /\ client[c] = "accepted"
  /\ acceptor' = "top"
  /\ client' = [client EXCEPT ![c] =
                  IF Cardinality(Live) < Admitted /\ gate THEN "live" ELSE "closed"]
  /\ UNCHANGED <<gate, setterVars, listenerVars, released, reported, held, cgen>>

\* Variant that ignores the rearm.
RearmedKeepsConns ==
  /\ acceptor = "rearmed"
  /\ acceptor' = "top"
  /\ UNCHANGED <<gate, setterVars, listenerVars, released, reported, held, socketVars>>

\* conns.shutdown().
Rearmed ==
  /\ acceptor = "rearmed"
  /\ acceptor' = "top"
  /\ client' = [c \in Clients |-> IF client[c] \in {"live", "ended"} THEN "closed" ELSE client[c]]
  /\ UNCHANGED <<gate, setterVars, listenerVars, released, reported, held, cgen>>

\* A finished connection is reaped: the accept future is dropped where it is
\* suspended.  Its guard goes first, the listener after it.
Reap(c) ==
  /\ client[c] = "ended"
  /\ client' = [client EXCEPT ![c] = "closed"]
  /\ \/ acceptor = "waiting" /\ acceptor' = "top" /\ UNCHANGED <<pending, released>>
     \/ acceptor = "pending" /\ acceptor' = "dropping" /\ DropGuard
  /\ UNCHANGED <<gate, setterVars, lstate, gen, ready, epoch, reported, held, cgen>>

DropListener ==
  /\ acceptor = "dropping"
  /\ acceptor' = "top"
  /\ held' = NoGen
  /\ client' = Unlisten
  /\ UNCHANGED <<gate, setterVars, listenerVars, released, reported, cgen>>

-----------------------------------------------------------------------------
Setter == Dispatch \/ Activate \/ Deactivate \/ AcceptReleased \/ Rebind

Acceptor ==
  \/ Top \/ Check \/ Wake \/ Cancelled \/ Accepted \/ Rearmed \/ DropListener
  \/ \E c \in Clients : Handle(c) \/ Reap(c)

AuxNext == Setter \/ Acceptor \/ TeardownGate \/ \E c \in Clients : Connect(c) \/ Leave(c)

AuxSpec == AuxInit /\ [][AuxNext]_auxVars

\* Both tasks run when they can; operations, clients and teardowns need not come.
AuxFairness ==
  /\ WF_auxVars(Activate) /\ WF_auxVars(Deactivate) /\ WF_auxVars(AcceptReleased) /\ WF_auxVars(Rebind)
  /\ WF_auxVars(Acceptor)

AuxFairSpec == AuxSpec /\ AuxFairness

-----------------------------------------------------------------------------
\* Properties.

\* Every variable stays in its domain.
AuxTypeOK ==
  /\ {gate, want, pending, released, ready} \subseteq BOOLEAN
  /\ setter \in {"idle", "apply", "await", "rebind"}
  /\ lstate \in {"Bound", "Listening", "Rebinding"}
  /\ acceptor \in {"top", "check", "waiting", "pending", "handler", "rearmed", "dropping"}
  /\ gen \in 0..MaxEpoch /\ epoch \in 0..MaxEpoch /\ reported \in 0..MaxEpoch
  /\ held \in 0..MaxEpoch \cup {NoGen}
  /\ client \in [Clients -> {"away", "backlog", "accepted", "live", "ended", "closed"}]
  /\ cgen \in [Clients -> 0..MaxEpoch]

\* The assertion in accept(): whenever the acceptor takes a listener, the slot
\* for its completion is free, whatever became of the previous accept.
AcceptSlotIsFree == acceptor = "check" /\ lstate = "Listening" => ~ pending

\* deactivate() rebinds the port only once no accept of the old listener is
\* suspended on it.
RebindAfterAccept == setter = "rebind" => acceptor # "pending"

\* Once a rearm has been reported, no connection of an earlier listening period
\* is left, except while the loop is shutting them down.
ReportedRearmClosesConns ==
  acceptor # "rearmed" => \A c \in Live : cgen[c] >= reported

\* The two counters never drift apart: at most the rearms since the acceptor last
\* looked are unreported, and a listener in use is never older than the report.
ReportFollowsEpoch ==
  /\ reported <= epoch
  /\ held # NoGen => reported <= held
  /\ lstate = "Listening" => gen = epoch

\* deactivate() never waits for ever on a suspended accept.
DeactivateCompletes == setter = "await" ~> setter = "idle"

\* Every client that reached the port is accepted or reset: the acceptor cannot
\* sleep through a listener that became ready.
BacklogIsServed == \A c \in Clients : client[c] = "backlog" ~> client[c] # "backlog"

\* When set_ready is done, the port listens only if the readiness that it read said so.
\* A session that is torn down closes the gate behind its back, and only that way round:
\* the port may then listen until the next operation, and never refuses one that is due.
ListensAsRead ==
  /\ setter = "idle" /\ lstate = "Listening" => want
  /\ gate => want

\* The acceptor and a transition of the listener hand the port over cleanly: the slot
\* for the completion of an accept is free when it is taken, and the port is bound
\* again only when no accept is suspended on the old listener (accept, deactivate).
AcceptHandover == AcceptSlotIsFree /\ RebindAfterAccept

\* The counters of rearms agree with each other and with the connections: the loop
\* that reports a rearm has no connection of an earlier listening period left.
EpochsAgree == ReportFollowsEpoch /\ ReportedRearmClosesConns

\* The port stays usable: deactivate() never waits for ever on a suspended accept, and
\* every client that reached the port is accepted or reset.
PortIsServed == DeactivateCompletes /\ BacklogIsServed

\* The listener serves one listening period at a time: accepts and transitions hand the
\* port over, the counters of rearms agree, and it listens as the last synchronisation
\* said (accept, deactivate, set_ready).
ListenerIsExact == AuxTypeOK /\ AcceptHandover /\ EpochsAgree /\ ListensAsRead
===============================================================================
