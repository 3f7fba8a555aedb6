-------------------------------- MODULE SimTui --------------------------------
(***************************************************************************)
(* The operator console (tools/camera-sim-tui): the thread that runs main  *)
(* and its event loop, interactive or headless, and the thread that serves *)
(* the console's own HTTP surface.  They share the newest state, the quit  *)
(* flag and a channel of runtime events.  The simulator is another         *)
(* process: each request to it is a step of its own, may fail, and may     *)
(* find the state changed since the last one.                              *)
(*                                                                         *)
(* A camera state is its version.  Themes, layout, texts, rates and the    *)
(* plugins' panels are left out; the trace and the health replies are      *)
(* TraceTail, the plugin registry is TuiPlugins, and what makes a request  *)
(* unreadable is left out.                                                 *)
(***************************************************************************)
EXTENDS Integers, Sequences, SequencesExt

CONSTANTS Catalogs,    \* action catalogs the simulator may serve
          Digits,      \* the digit keys, in order (1 to 9 in the code)
          Keys,        \* keys the operator may press
          PluginKeys,  \* keys the plugins declare for an action
          Routes,      \* routes an HTTP client may post to
          EventLimit,  \* lines the event panel keeps (80 in the code)
          MaxVersion,  \* bound: changes of the simulator's state
          MaxFails,    \* bound: requests to the simulator that fail
          MaxRequests, \* bound: requests of HTTP clients other than pushes
          MaxKeys      \* bound: keys pressed

ConsoleAssumption ==
  /\ EventLimit \in Nat \ {0}
  /\ {MaxVersion, MaxFails, MaxRequests, MaxKeys} \subseteq Nat

VARIABLES args,    \* headless or not, subscribing or not
          sim,     \* the simulator: version of its state, and its callback's progress
          ui,      \* main thread: where it is, the action it performs, the state it fetched
          app,     \* App: snapshot, quit, event lines; and run_tui's dirty and drawn state
          http,    \* HTTP thread: where it is, the action it dispatches, the state it holds
          shared,  \* SharedSurface: latest, quit, and the channel of runtime events
          hist     \* history: states acknowledged and shown, counts of the bounds

vars == <<args, sim, ui, app, http, shared, hist>>  \* camera-sim-tui/main.rs:440-447

NoState == -1
Versions == NoState .. MaxVersion

-----------------------------------------------------------------------------
\* The action registry.

Action(id, kind, hotkey, route) ==
  [id |-> id, kind |-> kind, hotkey |-> hotkey, route |-> route]

patch_action(name, hotkey) ==
  Action("operator:" \o name, "patch", hotkey, <<"operator", name>>)

core ==
  << patch_action("session-open", "s"), patch_action("live-view", "v"),
     patch_action("streaming", "r"), patch_action("image-import", "i"),
     patch_action("disconnect", "d"),
     Action("operator:quit", "quit", "q", <<"operator", "quit">>) >>

\* Responder actions take the digit keys in order and go before quit.
from_catalog(catalog) ==
  LET responders == SelectSeq(catalog, LAMBDA e : e.responder)
      Manifest(i) ==
        Action(responders[i].id, "manifest", IF i \in DOMAIN Digits THEN Digits[i] ELSE "",
               <<"actions", responders[i].id>>)
  IN  Front(core) \o [i \in DOMAIN responders |-> Manifest(i)] \o <<Last(core)>>

\* camera-sim-tui/lib.rs:440-446
by_hotkey(actions, key) == SelectSeq(actions, LAMBDA a : a.hotkey = key)

\* camera-sim-tui/lib.rs:448-456
by_http_path(actions, route) == SelectSeq(actions, LAMBDA a : a.route = route)

parity_report(actions) ==
  \A i \in DOMAIN actions :
    /\ Len(by_http_path(actions, actions[i].route)) = 1
    /\ actions[i].hotkey # "" => Len(by_hotkey(actions, actions[i].hotkey)) = 1

NoAction == Action("", "none", "", <<>>)

-----------------------------------------------------------------------------
\* Initial state and the steps both threads share.

Init ==
  /\ args \in [headless : BOOLEAN, subscribe : BOOLEAN]
  /\ sim = [version |-> 0, subscribed |-> FALSE, inflight |-> NoState, sent |-> NoState]
  /\ ui = [at |-> "catalog", action |-> NoAction, fetched |-> NoState, registry |-> <<>>]
  /\ app = [snapshot |-> NoState, quit |-> FALSE, lines |-> 0, dirty |-> TRUE, drawn |-> NoState]
  /\ http = [at |-> "unbound", action |-> NoAction, fetched |-> NoState, reply |-> 0]
  /\ shared = [latest |-> NoState, quit |-> FALSE, queue |-> <<>>]
  /\ hist = [acked |-> {}, shown |-> {}, fails |-> 0, requests |-> 0, keys |-> 0, late |-> 0]

Alive == ui.at \notin {"failed", "done"}

\* camera-sim-tui/main.rs:340-348
Log(a) == [a EXCEPT !.lines = IF @ = EventLimit THEN @ ELSE @ + 1]

set_state(a, version) == Log([a EXCEPT !.snapshot = version])  \* camera-sim-tui/main.rs:350-362

Shown(h, version) == [h EXCEPT !.shown = @ \cup {version}]

MayFail == hist.fails < MaxFails

Failed(h) == [h EXCEPT !.fails = @ + 1]

\* An action changes the simulator's state; a request whose answer was lost may
\* have been carried out.
Changed == [sim EXCEPT !.version = @ + 1]  \* camera-sim-tui/lib.rs:566-572
MayChange == sim.version < MaxVersion

-----------------------------------------------------------------------------
\* The main thread up to its loop.

FetchCatalog ==  \* camera-sim-tui/main.rs:451-456
  /\ ui.at = "catalog"
  /\ \/ \E catalog \in Catalogs :
          LET actions == from_catalog(catalog)
          IN  ui' = [ui EXCEPT !.registry = actions,
                               !.at = IF parity_report(actions) THEN "plugins" ELSE "failed"]
     \/ ui' = [ui EXCEPT !.at = "failed"]
  /\ UNCHANGED <<args, sim, app, http, shared, hist>>

BuildPlugins ==  \* camera-sim-tui/main.rs:458
  /\ ui.at = "plugins"
  /\ \E at \in {"bind", "failed"} : ui' = [ui EXCEPT !.at = at]
  /\ UNCHANGED <<args, sim, app, http, shared, hist>>

StartHttp ==  \* camera-sim-tui/main.rs:470-475
  /\ ui.at = "bind"
  /\ \/ /\ ui' = [ui EXCEPT !.at = "state"]
        /\ http' = [http EXCEPT !.at = "accept"]
     \/ /\ ui' = [ui EXCEPT !.at = "failed"]
        /\ UNCHANGED http
  /\ UNCHANGED <<args, sim, app, shared, hist>>

\* GET /state on behalf of main or of perform_action; a failure is only logged.
FetchState ==
  /\ ui.at \in {"state", "refetch"}
  /\ \/ /\ ui' = [ui EXCEPT !.fetched = sim.version,
                            !.at = IF @ = "state" THEN "first" ELSE "store"]
        /\ UNCHANGED <<app, hist>>
     \/ /\ MayFail
        /\ ui' = [ui EXCEPT !.at = IF @ = "state" THEN "subscribe" ELSE "loop"]
        /\ app' = [Log(app) EXCEPT !.dirty = TRUE]
        /\ hist' = Failed(hist)
  /\ UNCHANGED <<args, sim, http, shared>>

StoreState ==  \* camera-sim-tui/main.rs:778-784
  /\ ui.at \in {"first", "store"}
  /\ shared' = [shared EXCEPT !.latest = ui.fetched]
  /\ app' = [set_state(app, ui.fetched) EXCEPT !.dirty = TRUE]
  /\ hist' = Shown(hist, ui.fetched)
  /\ ui' = [ui EXCEPT !.at = IF @ = "first" THEN "subscribe" ELSE "loop", !.fetched = NoState]
  /\ UNCHANGED <<args, sim, http>>

\* Subscribing is itself a change of the simulator's state.
Subscribe ==
  /\ ui.at = "subscribe"
  /\ ui' = [ui EXCEPT !.at = "loop"]
  /\ \/ /\ ~ args.subscribe
        /\ UNCHANGED <<sim, app, hist>>
     \/ /\ args.subscribe /\ MayChange
        /\ sim' = [Changed EXCEPT !.subscribed = TRUE]
        /\ app' = Log(app)
        /\ UNCHANGED hist
     \/ /\ args.subscribe /\ MayFail
        /\ app' = Log(app)
        /\ hist' = Failed(hist)
        /\ UNCHANGED sim
  /\ UNCHANGED <<args, http, shared>>

-----------------------------------------------------------------------------
\* The loop of run_tui and of run_headless.

\* Variant that leaves the loop only once the quit event was drained.
ChecksOwnFlag ==
  /\ ui.at = "loop"
  /\ ui' = [ui EXCEPT !.at = IF app.quit THEN "shutdown" ELSE "drain"]
  /\ UNCHANGED <<args, sim, app, http, shared, hist>>

CheckQuit ==
  /\ ui.at = "loop"
  /\ ui' = [ui EXCEPT !.at = IF app.quit \/ shared.quit THEN "shutdown" ELSE "drain"]
  /\ UNCHANGED <<args, sim, app, http, shared, hist>>

apply_runtime_event(event) ==
  /\ app' = CASE event.kind = "state" -> [set_state(app, event.version) EXCEPT !.dirty = TRUE]
              [] event.kind = "quit" -> [app EXCEPT !.quit = TRUE, !.dirty = TRUE]
              [] OTHER -> [Log(app) EXCEPT !.dirty = TRUE]
  /\ hist' = IF event.kind = "state" THEN Shown(hist, event.version) ELSE hist

\* The console takes every queued event, headless mode one per round.
DrainEvents ==
  /\ ui.at = "drain"
  /\ \/ /\ shared.queue # <<>>
        /\ apply_runtime_event(Head(shared.queue))
        /\ shared' = [shared EXCEPT !.queue = Tail(@)]
        /\ ui' = [ui EXCEPT !.at = IF args.headless THEN "loop" ELSE "drain"]
     \/ /\ shared.queue = <<>>
        /\ ui' = [ui EXCEPT !.at = IF args.headless THEN "loop" ELSE "draw"]
        /\ UNCHANGED <<app, shared, hist>>
  /\ UNCHANGED <<args, sim, http>>

\* A frame is drawn when one is wanted and the frame interval has passed; the
\* periodic refreshes want one.
Draw ==
  /\ ui.at = "draw"
  /\ ui' = [ui EXCEPT !.at = "poll"]
  /\ \/ app' = [app EXCEPT !.dirty = FALSE, !.drawn = IF app.dirty THEN app.snapshot ELSE @]
     \/ app' = [app EXCEPT !.dirty = TRUE]
     \/ UNCHANGED app
  /\ UNCHANGED <<args, sim, http, shared, hist>>

NoKey ==
  /\ ui.at = "poll"
  /\ ui' = [ui EXCEPT !.at = "loop"]
  /\ UNCHANGED <<args, sim, app, http, shared, hist>>

\* by_hotkey_collision: a key of the registry is never a plugin's.
Key(key) ==
  LET found == by_hotkey(ui.registry, key)
      late  == IF shared.quit THEN hist.late + 1 ELSE hist.late
  IN  /\ ui.at = "poll" /\ hist.keys < MaxKeys
      /\ hist' = [hist EXCEPT !.keys = @ + 1,
                              !.late = IF found # <<>> /\ Head(found).kind # "quit" THEN late ELSE @]
      /\ \/ /\ found # <<>> /\ Head(found).kind = "quit"
            /\ shared' = [shared EXCEPT !.quit = TRUE]
            /\ app' = [app EXCEPT !.quit = TRUE]
            /\ ui' = [ui EXCEPT !.at = "loop"]
         \/ /\ found # <<>> /\ Head(found).kind # "quit"
            /\ ui' = [ui EXCEPT !.at = "invoke", !.action = Head(found)]
            /\ UNCHANGED <<app, shared>>
         \/ /\ found = <<>>
            /\ ui' = [ui EXCEPT !.at = "loop"]
            /\ app' = CASE key \in PluginKeys -> [Log(app) EXCEPT !.dirty = TRUE]
                        [] key = "esc" -> [app EXCEPT !.quit = TRUE]
                        [] OTHER -> app
            /\ UNCHANGED shared
      /\ UNCHANGED <<args, sim, http>>

\* perform_action: the request, then the refetch above.
Invoke ==
  /\ ui.at = "invoke"
  /\ \/ /\ MayChange
        /\ sim' = Changed
        /\ app' = Log(app)
        /\ ui' = [ui EXCEPT !.at = "refetch", !.action = NoAction]
        /\ UNCHANGED hist
     \/ /\ MayFail
        /\ sim' \in {sim} \cup {s \in {Changed} : MayChange}
        /\ app' = [Log(app) EXCEPT !.dirty = TRUE]
        /\ hist' = Failed(hist)
        /\ ui' = [ui EXCEPT !.at = "loop", !.action = NoAction]
  /\ UNCHANGED <<args, http, shared>>

\* The terminal cannot be entered, drawn or polled: run_tui returns its error.
TerminalFails ==
  /\ ui.at \in {"draw", "poll"}
  /\ ui' = [ui EXCEPT !.at = "shutdown"]
  /\ UNCHANGED <<args, sim, app, http, shared, hist>>

\* After the loop the plugins' children are terminated and the process ends.
Shutdown ==
  /\ ui.at = "shutdown"
  /\ ui' = [ui EXCEPT !.at = "done"]
  /\ UNCHANGED <<args, sim, app, http, shared, hist>>

-----------------------------------------------------------------------------
\* The HTTP thread: one connection at a time.

\* camera-sim-tui/main.rs:1708-1720
Reply(status) == [http EXCEPT !.at = "accept", !.reply = status, !.action = NoAction,
                              !.fetched = NoState]

Sent(event) == [shared EXCEPT !.queue = Append(@, event)]
StateEvent(version) == [kind |-> "state", version |-> version]
PlainEvent(kind) == [kind |-> kind, version |-> NoState]

Serving == Alive /\ http.at = "accept" /\ ~ shared.quit

Client ==
  /\ Serving /\ hist.requests < MaxRequests
  /\ hist' = [hist EXCEPT !.requests = @ + 1]

\* A connection accepted after quit ends the accept loop.
StopAccepting ==
  /\ Alive /\ http.at = "accept" /\ shared.quit
  /\ http' = [http EXCEPT !.at = "stopped"]
  /\ UNCHANGED <<args, sim, ui, app, shared, hist>>

\* The simulator's callback: it posts the state it captured.
HandlePush ==
  /\ Serving /\ sim.inflight # NoState
  /\ shared' = [shared EXCEPT !.latest = sim.inflight]
  /\ http' = [http EXCEPT !.at = "push", !.fetched = sim.inflight]
  /\ UNCHANGED <<args, sim, ui, app, hist>>

Acknowledged(h, version) == [h EXCEPT !.acked = @ \cup {version}]

\* Variant that answers the push without telling the console.
PushKept ==
  /\ Alive /\ http.at = "push"
  /\ http' = Reply(200)
  /\ sim' = [sim EXCEPT !.inflight = NoState, !.sent = http.fetched]
  /\ hist' = Acknowledged(hist, http.fetched)
  /\ UNCHANGED <<args, ui, app, shared>>

SendPush ==
  /\ Alive /\ http.at = "push"
  /\ shared' = Sent(StateEvent(http.fetched))
  /\ http' = Reply(200)
  /\ sim' = [sim EXCEPT !.inflight = NoState, !.sent = http.fetched]
  /\ hist' = Acknowledged(hist, http.fetched)
  /\ UNCHANGED <<args, ui, app>>

\* Requests without effect here: the readable lists and states, unknown routes
\* and unreadable requests.
HandleRead ==
  /\ Client
  /\ \E status \in {200, 400, 404} : http' = Reply(status)
  /\ UNCHANGED <<args, sim, ui, app, shared>>

\* POST /plugins/{id}/actions/{action}: proxied under the registry's lock.
HandlePlugin ==
  /\ Client
  /\ \/ /\ shared' = Sent(PlainEvent("action"))
        /\ http' = Reply(200)
     \/ /\ \E status \in {404, 413, 502} : http' = Reply(status)
        /\ UNCHANGED shared
  /\ UNCHANGED <<args, sim, ui, app>>

\* A body that is not UTF-8 fails a manifest action before it is sent.
HandleAction(route) ==
  LET found == by_http_path(ui.registry, route)
  IN  /\ Client
      /\ \/ /\ found = <<>>
            /\ http' = Reply(404)
         \/ /\ found # <<>>
            /\ http' = [http EXCEPT !.at = IF Head(found).kind = "quit" THEN "quit" ELSE "invoke",
                                    !.action = Head(found)]
         \/ /\ found # <<>> /\ Head(found).kind = "manifest"
            /\ http' = Reply(500)
      /\ UNCHANGED <<args, sim, ui, app, shared>>

DispatchQuit ==
  /\ Alive /\ http.at = "quit"
  /\ shared' = [Sent(PlainEvent("quit")) EXCEPT !.quit = TRUE]
  /\ http' = Reply(200)
  /\ UNCHANGED <<args, sim, ui, app, hist>>

DispatchInvoke ==
  /\ Alive /\ http.at = "invoke"
  /\ \/ /\ MayChange
        /\ sim' = Changed
        /\ http' = [http EXCEPT !.at = "fetch"]
        /\ UNCHANGED hist
     \/ /\ MayFail
        /\ sim' \in {sim} \cup {s \in {Changed} : MayChange}
        /\ http' = Reply(500)
        /\ hist' = Failed(hist)
  /\ UNCHANGED <<args, ui, app, shared>>

DispatchFetch ==
  /\ Alive /\ http.at = "fetch"
  /\ \/ /\ http' = [http EXCEPT !.at = "store", !.fetched = sim.version]
        /\ UNCHANGED hist
     \/ /\ MayFail
        /\ http' = Reply(500)
        /\ hist' = Failed(hist)
  /\ UNCHANGED <<args, sim, ui, app, shared>>

DispatchStore ==
  /\ Alive /\ http.at = "store"
  /\ shared' = [shared EXCEPT !.latest = http.fetched]
  /\ http' = [http EXCEPT !.at = "send"]
  /\ UNCHANGED <<args, sim, ui, app, hist>>

DispatchSend ==
  /\ Alive /\ http.at = "send"
  /\ shared' = [shared EXCEPT !.queue = @ \o <<PlainEvent("action"), StateEvent(http.fetched)>>]
  /\ http' = Reply(200)
  /\ hist' = Acknowledged(hist, http.fetched)
  /\ UNCHANGED <<args, sim, ui, app>>

-----------------------------------------------------------------------------
\* The simulator: other controllers change it, and its callback worker captures
\* the newest state when the last one was delivered.

SimChange ==
  /\ MayChange
  /\ sim' = Changed
  /\ UNCHANGED <<args, ui, app, http, shared, hist>>

CapturePush ==
  /\ sim.subscribed /\ sim.inflight = NoState /\ sim.sent < sim.version
  /\ sim' = [sim EXCEPT !.inflight = sim.version]
  /\ UNCHANGED <<args, ui, app, http, shared, hist>>

Main ==
  \/ FetchCatalog \/ BuildPlugins \/ StartHttp \/ FetchState \/ StoreState \/ Subscribe
  \/ CheckQuit \/ DrainEvents \/ Draw \/ NoKey \/ Invoke \/ TerminalFails \/ Shutdown
  \/ \E key \in Keys : Key(key)

Http ==
  \/ StopAccepting \/ HandlePush \/ SendPush \/ HandleRead \/ HandlePlugin
  \/ DispatchQuit \/ DispatchInvoke \/ DispatchFetch \/ DispatchStore \/ DispatchSend
  \/ \E route \in Routes : HandleAction(route)

Next == Main \/ Http \/ SimChange \/ CapturePush

Spec == Init /\ [][Next]_vars

-----------------------------------------------------------------------------
\* Properties.

\* The variables have their types: the event panel never exceeds its limit.
TypeOK ==
  /\ args \in [headless : BOOLEAN, subscribe : BOOLEAN]
  /\ sim \in [version : 0 .. MaxVersion, subscribed : BOOLEAN, inflight : Versions, sent : Versions]
  /\ app \in [snapshot : Versions, quit : BOOLEAN, lines : 0 .. EventLimit, dirty : BOOLEAN,
              drawn : Versions]
  /\ shared.latest \in Versions /\ shared.quit \in BOOLEAN
  /\ \A i \in DOMAIN shared.queue :
       shared.queue[i] \in [kind : {"state", "action", "quit"}, version : Versions]
  /\ http.reply \in {0, 200, 400, 404, 413, 500, 502}

Queued == {shared.queue[i].version : i \in DOMAIN shared.queue}

Quiet ==
  /\ ui.at \in {"loop", "poll"} /\ http.at = "accept" /\ shared.queue = <<>>
  /\ sim.subscribed /\ sim.inflight = NoState /\ sim.sent = sim.version

\* Once the simulator's last push was acknowledged and both threads are idle, the
\* console holds the simulator's state, and unless a frame is still due it has
\* drawn it, however pushes, fetches and actions crossed (set_state, run_tui).
PanelIsCurrent ==
  Quiet => /\ app.snapshot = sim.version
           /\ (args.headless \/ app.dirty \/ app.drawn = app.snapshot)

\* A state acknowledged over HTTP, by a push or an action, was shown or waits to
\* be: no answer of 200 hides a state from the console (handle_http).
AcknowledgedIsShown ==
  http.at # "unbound" => hist.acked \subseteq hist.shown \cup Queued

\* Quit over HTTP stops the loop at its next round: the operator can start at
\* most one more action (run_tui's condition, dispatch_http_action).
QuitIsPrompt == hist.late <= 1

\* What the console shows and when it stops.
ConsoleIsHonest == PanelIsCurrent /\ AcknowledgedIsShown /\ QuitIsPrompt
===============================================================================
