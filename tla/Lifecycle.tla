------------------------------ MODULE Lifecycle ------------------------------
(***************************************************************************)
(* The connection lifecycle contract of crates/camera-config/src/          *)
(* lifecycle.rs: five layers of evidence about one connection, and the     *)
(* effect of each observed transition on them.  Constant-level operators,  *)
(* shared by every module that keeps a lifecycle tracker.                  *)
(***************************************************************************)

Features == {"LiveView", "ImageTransfer"}

Unknown        == <<"unknown", "none">>
Confirmed(v)   == <<"confirmed", v>>
Unconfirmed(v) == <<"unconfirmed", v>>

Evidence(V) ==
  {Unknown} \cup {Confirmed(v) : v \in V} \cup {Unconfirmed(v) : v \in V}

\* A feature layer holds "Inactive" or the name of the active feature mode.
Snapshots ==
  [persona   : Evidence({"Ready", "Exited"}),
   listener  : Evidence({"Ready"}),
   transport : Evidence({"Accepted", "CommandInitialized", "Lost", "LocallyClosed"}),
   session   : Evidence({"Open", "Closed"}),
   feature   : Evidence({"Inactive"} \cup Features)]

InitialSnapshot ==
  [persona |-> Unknown, listener |-> Unknown, transport |-> Unknown,
   session |-> Unknown, feature |-> Unknown]

Transitions ==
  {"NetworkPersonaReady", "NetworkPersonaExitRequested",
   "NetworkPersonaExitConfirmed", "CommandListenerReady",
   "ProxyTransportAccepted", "CommandInitialized", "ProxyTransportLost",
   "ProxyTransportClosedLocally", "PtpSessionOpened", "PtpSessionClosed",
   "FeatureExited"} \cup Features

\* Variant that demotes by wrapping the evidence instead of its value.
MarkWrapsEvidence(snap) ==
  [snap EXCEPT !.session = IF @ = Confirmed("Open") THEN Unconfirmed(@) ELSE @]

\* A transport that ended leaves the camera side unproved: an open session and
\* an active feature are demoted, everything else keeps its evidence.
MarkOpenLayersUnconfirmed(snap) ==
  [snap EXCEPT
     !.session = IF @ = Confirmed("Open") THEN Unconfirmed("Open") ELSE @,
     !.feature = IF \E f \in Features : @ = Confirmed(f)
                 THEN Unconfirmed(@[2]) ELSE @]

\* Entering feature f is the transition named f.
Apply(snap, transition) ==
  CASE transition = "NetworkPersonaReady" ->
         [snap EXCEPT !.persona = Confirmed("Ready")]
    [] transition = "NetworkPersonaExitRequested" ->
         [snap EXCEPT !.persona = Unconfirmed("Exited")]
    [] transition = "NetworkPersonaExitConfirmed" ->
         [snap EXCEPT !.persona = Confirmed("Exited")]
    [] transition = "CommandListenerReady" ->
         [snap EXCEPT !.listener = Confirmed("Ready")]
    [] transition = "ProxyTransportAccepted" ->
         [snap EXCEPT !.transport = Confirmed("Accepted")]
    [] transition = "CommandInitialized" ->
         [snap EXCEPT !.listener = Confirmed("Ready"),
                      !.transport = Confirmed("CommandInitialized")]
    [] transition = "ProxyTransportLost" ->
         MarkOpenLayersUnconfirmed([snap EXCEPT !.transport = Confirmed("Lost")])
    [] transition = "ProxyTransportClosedLocally" ->
         MarkOpenLayersUnconfirmed(
           [snap EXCEPT !.transport = Confirmed("LocallyClosed")])
    [] transition = "PtpSessionOpened" ->
         [snap EXCEPT !.session = Confirmed("Open")]
    [] transition = "PtpSessionClosed" ->
         [snap EXCEPT !.session = Confirmed("Closed"),
                      !.feature = Confirmed("Inactive")]
    [] transition = "FeatureExited" ->
         [snap EXCEPT !.feature = Confirmed("Inactive")]
    [] transition \in Features ->
         [snap EXCEPT !.feature = Confirmed(transition)]
=============================================================================
