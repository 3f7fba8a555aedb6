------------------------------ MODULE MCChannels -------------------------------
(*****************************************************************************)
(* The channels of the service beside the command connection: the declared   *)
(* listener, the standard pair, the event stream, the state callback and     *)
(* the trace tail.                                                           *)
(* They share no state, so a behaviour picks one of them and leaves the      *)
(* others as they start.                                                     *)
(*****************************************************************************)
EXTENDS AuxListener, StandardConnections, EventStream, StateCallback, TraceTail

VARIABLE part

\* Three lives of the service; the last one is restarted under the same identifier.
MCInstanceId(l) == <<"a", "b", "b">>[l]

allVars == <<part, auxVars, pairVars, streamVars, callbackVars, tailVars>>

MCInit ==
  /\ part \in {"aux", "pair", "stream", "callback", "console"}
  /\ AuxInit
  /\ PairInit
  /\ StreamInit
  /\ CallbackInit
  /\ TailInit

AuxPart ==
  /\ part = "aux" /\ AuxNext
  /\ UNCHANGED <<part, pairVars, streamVars, callbackVars, tailVars>>
PairPart ==
  /\ part = "pair" /\ PairNext
  /\ UNCHANGED <<part, auxVars, streamVars, callbackVars, tailVars>>
StreamPart ==
  /\ part = "stream" /\ StreamNext
  /\ UNCHANGED <<part, auxVars, pairVars, callbackVars, tailVars>>
CallbackPart ==
  /\ part = "callback" /\ CallbackNext
  /\ UNCHANGED <<part, auxVars, pairVars, streamVars, tailVars>>
TailPart ==
  /\ part = "console" /\ TailNext
  /\ UNCHANGED <<part, auxVars, pairVars, streamVars, callbackVars>>

MCNext == AuxPart \/ PairPart \/ StreamPart \/ CallbackPart \/ TailPart

MCSpec == MCInit /\ [][MCNext]_allVars

\* The fairness of each component.  Where a fair step can be taken at the start, it
\* is asked for only in the behaviours that picked the component.
MCFairSpec ==
  /\ MCSpec
  /\ PairFairness /\ StreamFairness
  /\ WF_auxVars(Activate) /\ WF_auxVars(Deactivate) /\ WF_auxVars(AcceptReleased)
  /\ WF_auxVars(Rebind) /\ WF_auxVars(part = "aux" /\ Acceptor)
  /\ WF_callbackVars(part = "callback" /\ Push)
  /\ \A w \in Writers : WF_callbackVars(NotifyOne(w) \/ AbortWriter(w))

--------------------------------------------------------------------------------
\* Nobody waits for ever on a connection: deactivating a listener completes, a client that
\* reached its port is accepted or reset (PortIsServed), and when either half of a
\* standard pair ends the other ends too (PairCloses).
ConnectionsAreServed == PortIsServed /\ PairCloses

\* What is announced arrives at those who listen: a drained event at every client that
\* stays (EventArrives); and every callback target is answered and ends up with the last
\* state, but for a change that nobody notified, as the teardown of a session does not,
\* and for its own failed post (TargetsAreServed).
ChangesArrive == EventArrives /\ TargetsAreServed
================================================================================
