------------------------------ MODULE TuiPlugins ------------------------------
(***************************************************************************)
(* The console's plugins (tools/camera-sim-tui/src/plugins.rs and          *)
(* build_plugin_registry in main.rs): manifests are validated, plugin      *)
(* programs spawned and asked for their manifest, panels refreshed from    *)
(* each endpoint and actions proxied to it, until the console shuts down   *)
(* and terminates the programs it started.                                 *)
(*                                                                         *)
(* A manifest keeps what validation compares: flags for its texts, its     *)
(* panels and actions with their numbers of rows and their hotkeys.  The   *)
(* content of a panel is a number.  Plugins and their endpoints are        *)
(* external: they answer anything, or nothing, at any time.                *)
(***************************************************************************)
EXTENDS Integers, Sequences, FiniteSets, SequencesExt, FiniteSetsExt

CONSTANTS Starts,      \* the sequences of sources the console may be started with
          Manifests,   \* manifests an endpoint may serve
          CoreKeys,    \* hotkeys of the action registry
          Contents,    \* contents of a panel, 0 the manifest's
          MaxPanels, MaxActions, MaxRows,  \* 16, 32 and 32 in the code
          MaxRefreshes \* bound: refreshes of the panels

PluginAssumption ==
  /\ {MaxPanels, MaxActions, MaxRows, MaxRefreshes} \subseteq Nat
  /\ 0 \in Contents

VARIABLES sources,   \* sources still to load, the given ones first
          phase,     \* build, run, done or failed
          plugins,   \* PluginRegistry: the instance of each plugin id
          children,  \* the programs started: running, exited or killed
          hist       \* history: last refresh of each plugin, children dropped, refreshes

vars == <<sources, phase, plugins, children, hist>>

-----------------------------------------------------------------------------
\* validate_manifest.

Ids(list) == {list[i].id : i \in DOMAIN list}

Distinct(list) == Cardinality(Ids(list)) = Len(list)

\* Exactly one of endpoint and spawn, and it is a loopback address.
endpoint_ok(m) == (m.endpoint # m.spawn) /\ m.loopback  \* plugins.rs:419-444

panels_ok(m) ==
  /\ Len(m.panels) <= MaxPanels
  /\ Distinct(m.panels)
  /\ \A i \in DOMAIN m.panels : m.panels[i].rows <= MaxRows

actions_ok(m) ==
  /\ Len(m.actions) <= MaxActions
  /\ Distinct(m.actions)
  /\ \A i \in DOMAIN m.actions : m.actions[i].method = "POST"

validate_manifest(m) ==
  m.major = 1 /\ m.text_ok /\ endpoint_ok(m) /\ panels_ok(m) /\ actions_ok(m)

-----------------------------------------------------------------------------
\* The registry.

\* A child is numbered in the order of its start; 0 is none.
Instance(m, child) ==
  [manifest |-> m, child |-> child, error |-> "none", panels |-> [p \in Ids(m.panels) |-> 0]]

Inserted(m, child) ==
  [id \in DOMAIN plugins \cup {m.id} |-> IF id = m.id THEN Instance(m, child) ELSE plugins[id]]

Untouched == [answered |-> FALSE, unknown |-> FALSE]

\* PluginRegistry's drop and shutdown: every child it still holds is killed.
Held == {plugins[id].child : id \in DOMAIN plugins} \ {0}  \* plugins.rs:390-397

\* plugins.rs:185-194
Killed(kids, doomed) == [c \in DOMAIN kids |-> IF c \in doomed THEN "killed" ELSE kids[c]]

\* Variant that gives the programs up without killing them.
Forgets(kids) ==
  /\ phase' = "failed"
  /\ children' = kids
  /\ plugins' = << >>

Fails(kids) ==
  /\ phase' = "failed"
  /\ children' = Killed(kids, Held)
  /\ plugins' = << >>

Loaded(m, child, kids) ==
  /\ plugins' = Inserted(m, child)
  /\ children' = kids
  /\ hist' = [hist EXCEPT !.last = [id \in DOMAIN plugins \cup {m.id} |-> Untouched]]
  /\ UNCHANGED phase

-----------------------------------------------------------------------------
\* build_plugin_registry, one source after the other.

Init ==  \* camera-sim-tui/main.rs:811-813
  /\ sources \in Starts
  /\ phase = "build"
  /\ plugins = << >>
  /\ children = << >>
  /\ hist = [last |-> << >>, dropped |-> {}, refreshes |-> 0]

Building(kind) == phase = "build" /\ sources # <<>> /\ Head(sources).kind = kind

\* A manifest file that names an endpoint, or an endpoint that serves its manifest.
LoadValidated ==
  /\ phase = "build" /\ sources # <<>>
  /\ \E m \in IF Head(sources).kind = "url" THEN Manifests ELSE {Head(sources).manifest} :
       /\ Head(sources).kind = "file" => ~ m.spawn
       /\ IF validate_manifest(m) /\ m.id \notin DOMAIN plugins
          THEN Loaded(m, 0, children)
          ELSE Fails(children) /\ UNCHANGED hist
  /\ sources' = Tail(sources)

\* An unreadable file, or an endpoint that does not answer.
LoadFails ==
  /\ phase = "build" /\ sources # <<>>
  /\ Fails(children)
  /\ sources' = Tail(sources)
  /\ UNCHANGED hist

\* spawn_plugin_and_discover: the program is started and polled for its manifest.
\* One that never answers with a valid manifest is killed.
SpawnTimesOut ==
  /\ Building("file") /\ Head(sources).manifest.spawn
  /\ IF validate_manifest(Head(sources).manifest)
     THEN Fails(Append(children, "killed"))
     ELSE Fails(children)
  /\ sources' = Tail(sources)
  /\ UNCHANGED hist

\* It answers: another identifier than the declared one is refused and the program
\* killed, one already registered is refused and the program's handle dropped.
SpawnAnswers ==
  LET declared == Head(sources).manifest
      child    == Len(children) + 1
      running  == Append(children, "running")
  IN  /\ Building("file") /\ declared.spawn /\ validate_manifest(declared)
      /\ \E m \in Manifests :
           /\ validate_manifest(m)
           /\ \/ /\ m.id # declared.id
                 /\ Fails(Append(children, "killed"))
                 /\ UNCHANGED hist
              \/ /\ m.id = declared.id /\ m.id \in DOMAIN plugins
                 /\ Fails(running)
                 /\ hist' = [hist EXCEPT !.dropped = @ \cup {child}]
              \/ /\ m.id = declared.id /\ m.id \notin DOMAIN plugins
                 /\ Loaded(m, child, running)
      /\ sources' = Tail(sources)

Built ==
  /\ phase = "build" /\ sources = <<>>
  /\ phase' = "run"
  /\ UNCHANGED <<sources, plugins, children, hist>>

-----------------------------------------------------------------------------
\* The running console.

\* fetch_plugin_panels: the pushes a reply may carry; a reply over the bounds is an error.
Pushes(inst) == [panel : Ids(inst.manifest.panels) \cup {"other"}, content : Contents \ {0}]

Replies(inst) == {<<>>} \cup {<<p>> : p \in Pushes(inst)}
                 \cup {<<p, q>> : p, q \in Pushes(inst)}

Unknown(inst, pushes) == \E i \in DOMAIN pushes : pushes[i].panel \notin DOMAIN inst.panels

\* Variant that adopts a panel the manifest does not declare.
Adopts(inst, pushes) ==
  [inst EXCEPT !.panels = [p \in DOMAIN inst.panels \cup {pushes[i].panel : i \in DOMAIN pushes} |->
                             IF p \in DOMAIN inst.panels THEN inst.panels[p] ELSE 0]]

\* Rows replace those of the declared panel; an unknown panel is an error, and that
\* error is only replaced by the error of a later fetch.
Merged(inst, pushes) ==  \* plugins.rs:319-348
  LET Of(p) == {i \in DOMAIN pushes : pushes[i].panel = p}
  IN  [inst EXCEPT !.panels = [p \in DOMAIN inst.panels |->
                                 IF Of(p) = {} THEN inst.panels[p] ELSE pushes[Max(Of(p))].content],
                   !.error = IF Unknown(inst, pushes) \/ @ = "unknown" THEN "unknown" ELSE "none"]

\* The instance after its refresh, with what the history keeps of it.
Refreshed(inst) ==
  {<<[inst EXCEPT !.error = "fetch"], [answered |-> FALSE, unknown |-> FALSE]>>}
  \cup {<<Merged(inst, pushes), [answered |-> TRUE, unknown |-> Unknown(inst, pushes)]>> :
           pushes \in Replies(inst)}

\* Every plugin is asked in turn, under the registry's lock.
refresh_panels ==
  /\ phase = "run" /\ hist.refreshes < MaxRefreshes
  /\ \E next \in [DOMAIN plugins -> UNION {Refreshed(plugins[id]) : id \in DOMAIN plugins}] :
       /\ \A id \in DOMAIN plugins : next[id] \in Refreshed(plugins[id])
       /\ plugins' = [id \in DOMAIN plugins |-> next[id][1]]
       /\ hist' = [hist EXCEPT !.refreshes = @ + 1,
                               !.last = [id \in DOMAIN plugins |-> next[id][2]]]
  /\ UNCHANGED <<sources, phase, children>>

\* A program ends by itself; the console does not notice.
ChildExits ==
  /\ phase = "run"
  /\ \E c \in DOMAIN children :
       /\ children[c] = "running"
       /\ children' = [children EXCEPT ![c] = "exited"]
  /\ UNCHANGED <<sources, phase, plugins, hist>>

shutdown ==
  /\ phase = "run"
  /\ phase' = "done"
  /\ children' = Killed(children, Held)
  /\ plugins' = [id \in DOMAIN plugins |-> [plugins[id] EXCEPT !.child = 0]]
  /\ UNCHANGED <<sources, hist>>

Next ==
  \/ LoadValidated \/ LoadFails \/ SpawnTimesOut \/ SpawnAnswers \/ Built
  \/ refresh_panels \/ ChildExits \/ shutdown

Spec == Init /\ [][Next]_vars

-----------------------------------------------------------------------------
\* Hotkeys and actions.

Declaring(key) == {id \in DOMAIN plugins : \E i \in DOMAIN plugins[id].manifest.actions :
                                              plugins[id].manifest.actions[i].hotkey = key}

\* Plugins are visited in the order of their identifiers, which are numbers here;
\* a core key is skipped and the first plugin keeps the key.
by_hotkey_collision ==
  LET keys == UNION {{plugins[id].manifest.actions[i].hotkey :
                        i \in DOMAIN plugins[id].manifest.actions} : id \in DOMAIN plugins}
  IN  [key \in keys \ (CoreKeys \cup {""}) |-> Min(Declaring(key))]

\* run_tui: the action of the plugin for the key; proxy_action: the one of that name.
KeyAction(id, key) ==  \* camera-sim-tui/main.rs:662-684
  SelectSeq(plugins[id].manifest.actions, LAMBDA a : a.hotkey = key)

resolve_action(id, action) ==
  IF id \notin DOMAIN plugins THEN <<>>
  ELSE SelectSeq(plugins[id].manifest.actions, LAMBDA a : a.id = action)

-----------------------------------------------------------------------------
\* Properties.

\* The variables have their types.
TypeOK ==
  /\ phase \in {"build", "run", "done", "failed"}
  /\ \A c \in DOMAIN children : children[c] \in {"running", "exited", "killed"}
  /\ \A id \in DOMAIN plugins :
       /\ plugins[id].manifest.id = id
       /\ plugins[id].error \in {"none", "unknown", "fetch"}
       /\ plugins[id].child \in 0 .. Len(children)
  /\ hist.dropped \subseteq DOMAIN children

\* When the console ends, after its loop or because a plugin could not be loaded, no
\* program it started still runs, but for one refused as a duplicate, whose handle
\* insert_spawned drops (shutdown, Drop, spawn_plugin_and_discover).
ChildrenAreReaped ==
  phase \in {"done", "failed"} =>
    \A c \in DOMAIN children : children[c] = "running" => c \in hist.dropped

\* The manifest owns the set of panels whatever a plugin pushes, and a plugin shown
\* without error answered its last refresh with declared panels only (refresh_panels).
PanelsAreOwned ==
  \A id \in DOMAIN plugins :
    /\ DOMAIN plugins[id].panels = Ids(plugins[id].manifest.panels)
    /\ (plugins[id].error = "none" /\ hist.last[id] # Untouched) =>
         (hist.last[id].answered /\ ~ hist.last[id].unknown)

\* A plugin key never shadows a key of the console, belongs to a plugin that declares
\* it, and the action found for it is the one proxied (by_hotkey_collision, run_tui).
KeysAreUnambiguous ==
  \A key \in DOMAIN by_hotkey_collision :
    LET id == by_hotkey_collision[key]
        found == KeyAction(id, key)
    IN  /\ key \notin CoreKeys /\ found # <<>>
        /\ resolve_action(id, Head(found).id) # <<>>
        /\ Head(resolve_action(id, Head(found).id)) = Head(found)

\* What the console promises about its plugins.
PluginsAreContained == ChildrenAreReaped /\ PanelsAreOwned /\ KeysAreUnambiguous
===============================================================================
