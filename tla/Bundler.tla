------------------------------ MODULE Bundler -------------------------------
(***************************************************************************)
(* From changed files to bundles in wrangler dev                           *)
(* (packages/wrangler/src/api/startDevWorker/ConfigController.ts and       *)
(* BundlerController.ts, src/dev/use-esbuild.ts).                          *)
(*                                                                         *)
(* The ConfigController resolves the newest input to a configuration.  For *)
(* each configuration the BundlerController either runs the user's custom  *)
(* build command whenever a watched file changes, or calls runBuild, which *)
(* has esbuild watch and bundle, or watches the modules itself ("noBundle"), *)
(* or does both (noBundle with processEntrypoint: "processed").  None of   *)
(* these is stopped at once: what the previous configuration started runs  *)
(* on while promises are awaited, and an update under way is not cancelled. *)
(*                                                                         *)
(* Inputs and their configurations are numbered in order.  A bundle is the *)
(* configuration whose files it holds; files and the temporary directory   *)
(* are left out.                                                           *)
(***************************************************************************)
EXTENDS Naturals

CONSTANTS
  MaxInputs,    \* bound on the inputs
  MaxChanges    \* bound on the file changes that watchers report

ASSUME BundlerAssumption == MaxInputs \in Nat /\ MaxChanges \in Nat

VARIABLES
  input,        \* latestInput
  resolving,    \* inputs whose #updateConfig awaits resolveConfig
  latest,       \* latestConfig, 0 if none
  kind,         \* kind[c]: how configuration c is built
  torn,         \* has teardown been called?
  closing,      \* configurations whose #startCustomBuild awaits close()
  watcher,      \* #customBuildWatcher: its configuration, 0 if none
  watching,     \* configurations with a watcher that is not closed
  unready,      \* those whose watcher has not emitted "ready"
  running,      \* executions of #runCustomBuild
  started,      \* how many there have been
  aborter,      \* the one #customBuildAborter belongs to, 0 once aborted
  esbuild,      \* esbuild[c]: how far #startBundle and runBuild are
  rebuilding,   \* configurations with a rebuild, or its updateBundle, under way
  cleanup,      \* #bundlerCleanup: its configuration, 0 if none
  current,      \* #currentBundle, 0 if none
  changes,      \* file changes so far
  last,         \* the last bundleComplete: its configuration and its bundle
  completed,    \* the last custom build that completed (history)
  failed,       \* inputs that did not resolve or build (history)
  overtaken,    \* configurations that started while another one did, or had
                \* their bundle before the old watcher was closed (history)
  late          \* configurations with a rebuild under way when another one
                \* superseded them (history)

config == <<input, resolving, latest, kind, torn>>
customBuild == <<closing, watcher, watching, unready, running, started, aborter>>
bundle == <<esbuild, rebuilding, cleanup, current>>
history == <<last, completed, failed, overtaken, late>>
vars == <<config, customBuild, bundle, changes, history>>

-----------------------------------------------------------------------------
Configs == 1..MaxInputs
OrNone == 0..MaxInputs

Event(c, b) == [config |-> c, bundle |-> b]

Kinds == {"none", "custom", "bundle", "noBundle", "processed"}

\* "built": esbuild has the first result, which bundleWorker still works on.
\* "broken": bundleWorker threw, and esbuild goes on watching.
\* "orphaned": the watcher of the modules is closed, and esbuild goes on.
Stages ==
  {"none", "starting", "first", "built", "watching", "broken", "orphaned", "stopped"}

Init ==
  /\ input = 0
  /\ resolving = {}
  /\ latest = 0
  /\ kind = [c \in Configs |-> "none"]
  /\ torn = FALSE
  /\ closing = {}
  /\ watcher = 0
  /\ watching = {}
  /\ unready = {}
  /\ running = {}
  /\ started = 0
  /\ aborter = 0
  /\ esbuild = [c \in Configs |-> "none"]
  /\ rebuilding = {}
  /\ cleanup = 0
  /\ current = 0
  /\ changes = 0
  /\ last = Event(0, 0)
  /\ completed = 0
  /\ failed = {}
  /\ overtaken = {}
  /\ late = {}

\* emitBundleCompleteEvent for configuration c with bundle b.
Complete(c, b) == last' = Event(c, b)

\* Configurations that are starting up.
Starting == closing \cup {c \in Configs : esbuild[c] \in {"starting", "first", "built"}}

-----------------------------------------------------------------------------
(* A new configuration, and teardown. *)

\* close() of #customBuildWatcher: its listeners are removed at once.
CloseWatcher ==
  /\ watching' = watching \ {watcher}
  /\ unready' = unready \ {watcher}

\* Is there anything that the function in #bundlerCleanup can stop?  runBuild
\* sets stopWatching only when the first build is done.
Stoppable == cleanup # 0 /\ esbuild[cleanup] = "watching"

\* Mutant: nothing is stopped.
Stopped_Never == esbuild

(* The call of #bundlerCleanup.  Without bundling stopWatching closes the
   watcher of the modules; for a processed entrypoint it has replaced the
   function that disposes of esbuild's context, which no one else has. *)
Stopped ==
  IF Stoppable
  THEN [esbuild EXCEPT ![cleanup] =
          IF kind[cleanup] = "processed" THEN "orphaned" ELSE "stopped"]
  ELSE esbuild

\* onConfigUpdate up to its awaits: #startCustomBuild closes the watcher, and
\* #startBundle cleans up.  No rebuild under way is cancelled.
OnConfigUpdate(c, k) ==
  /\ kind' = [kind EXCEPT ![c] = k]
  /\ CloseWatcher
  /\ closing' = closing \cup {c}
  /\ esbuild' = [Stopped EXCEPT ![c] = "starting"]
  /\ overtaken' = UNION {overtaken, Starting,
                         IF torn \/ Starting # {} THEN {c} ELSE {}}
  /\ late' = late \cup rebuilding
  /\ UNCHANGED <<watcher, running, started, aborter, rebuilding, cleanup, current, changes,
                 last, completed, failed>>

\* set, patch or a change of the configuration file: #updateConfig aborts the
\* execution before it.
UpdateConfig ==
  /\ ~torn
  /\ input < MaxInputs
  /\ input' = input + 1
  /\ resolving' = resolving \cup {input + 1}
  /\ UNCHANGED <<latest, kind, torn, customBuild, bundle, changes, history>>

\* The signal of the execution of #updateConfig for input i.
Aborted(i) == i # input

\* resolveConfig returns.
Resolve(i, k) ==
  /\ i \in resolving
  /\ ~Aborted(i)
  /\ resolving' = resolving \ {i}
  /\ latest' = i
  /\ OnConfigUpdate(i, k)
  /\ UNCHANGED <<input, torn>>

ResolveAborted(i) ==
  /\ i \in resolving
  /\ Aborted(i)
  /\ resolving' = resolving \ {i}
  /\ UNCHANGED <<input, latest, kind, torn, customBuild, bundle, changes, history>>

\* readConfig or resolveConfig throws: the error is logged.
ResolveFails(i) ==
  /\ i \in resolving
  /\ resolving' = resolving \ {i}
  /\ failed' = failed \cup {i}
  /\ UNCHANGED <<input, latest, kind, torn, customBuild, bundle, changes, last,
                 completed, overtaken, late>>

Teardown ==
  /\ ~torn
  /\ torn' = TRUE
  /\ aborter' = 0
  /\ CloseWatcher
  /\ esbuild' = Stopped
  /\ overtaken' = overtaken \cup Starting
  /\ UNCHANGED <<input, resolving, latest, kind, closing, watcher, running, started,
                 rebuilding, cleanup, current, changes, last, completed, failed,
                 late>>

-----------------------------------------------------------------------------
(* Custom builds. *)

\* Mutant: builds of the old configuration are not aborted.
Watch_NoAbort(c) ==
  /\ c \in closing
  /\ \A d \in closing : c <= d
  /\ closing' = closing \ {c}
  /\ IF kind[c] = "custom"
     THEN /\ watcher' = c
          /\ watching' = watching \cup {c}
          /\ unready' = unready \cup {c}
     ELSE UNCHANGED <<watcher, watching, unready>>
  /\ UNCHANGED <<config, running, started, aborter, bundle, changes, history>>

\* #startCustomBuild after its await; executions that overlap await the same
\* promise, and go on in their order.
Watch(c) ==
  /\ c \in closing
  /\ \A d \in closing : c <= d
  /\ closing' = closing \ {c}
  /\ aborter' = 0
  /\ IF kind[c] = "custom"
     THEN /\ watcher' = c
          /\ watching' = watching \cup {c}
          /\ unready' = unready \cup {c}
     ELSE UNCHANGED <<watcher, watching, unready>>
  /\ UNCHANGED <<config, running, started, bundle, changes, history>>

\* #runCustomBuild up to its first await: a build supersedes the one before.
RunCustomBuild(c) ==
  /\ started' = started + 1
  /\ aborter' = started + 1
  /\ running' = running \cup {[id |-> started + 1, config |-> c, stage |-> "command"]}
  /\ UNCHANGED <<config, closing, watcher, watching, bundle, history>>

\* The watcher emits "ready".
Ready(c) ==
  /\ c \in unready
  /\ unready' = unready \ {c}
  /\ RunCustomBuild(c)
  /\ UNCHANGED changes

\* A watched file changes.
Changed(c) ==
  /\ c \in watching \ unready
  /\ changes < MaxChanges
  /\ changes' = changes + 1
  /\ RunCustomBuild(c)
  /\ UNCHANGED unready

\* The custom command is done; if aborted by now, return.
CommandDone(b) ==
  /\ b \in running
  /\ b.stage = "command"
  /\ running' = IF b.id = aborter
                THEN (running \ {b}) \cup {[b EXCEPT !.stage = "bundle"]}
                ELSE running \ {b}
  /\ UNCHANGED <<config, closing, watcher, watching, unready, started, aborter, bundle,
                 changes, history>>

\* Mutant: the signal is checked only after the command.
Superseded_Never(b) == FALSE

\* The second check of the signal of the build's own AbortController.
Superseded(b) == b.id # aborter

\* bundleWorker or noBundleWorker is done; if aborted by now, return.
BundleDone(b) ==
  /\ b \in running
  /\ b.stage = "bundle"
  /\ running' = running \ {b}
  /\ IF Superseded(b)
     THEN UNCHANGED <<last, completed>>
     ELSE Complete(b.config, b.config) /\ completed' = b.id
  /\ UNCHANGED <<config, closing, watcher, watching, unready, started, aborter, bundle,
                 changes, failed, overtaken, late>>

\* The command or the bundling throws; an error event is emitted in any case.
CustomBuildFails(b) ==
  /\ b \in running
  /\ running' = running \ {b}
  /\ failed' = failed \cup {b.config}
  /\ UNCHANGED <<config, closing, watcher, watching, unready, started, aborter, bundle,
                 changes, last, completed, overtaken, late>>

-----------------------------------------------------------------------------
(* esbuild. *)

\* #startBundle after its awaits; runBuild starts esbuild's watch mode.
StartBuild(c) ==
  /\ esbuild[c] = "starting"
  /\ esbuild' = [esbuild EXCEPT ![c] = IF kind[c] = "custom" THEN "none" ELSE "first"]
  /\ cleanup' = IF kind[c] = "custom" THEN cleanup ELSE c
  /\ UNCHANGED <<config, customBuild, rebuilding, current, changes, history>>

\* esbuild's first build is done (external), and bundleWorker goes on; without
\* esbuild, the modules have been found.
FirstBuilt(c) ==
  /\ esbuild[c] = "first"
  /\ esbuild' = [esbuild EXCEPT ![c] = "built"]
  /\ UNCHANGED <<config, customBuild, rebuilding, cleanup, current, changes, history>>

\* esbuild's first build or what bundleWorker does next fails: stopWatching is
\* never set.  If only modules are looked for, nothing watches yet.
FirstFails(c) ==
  /\ esbuild[c] \in {"first", "built"}
  /\ esbuild' = [esbuild EXCEPT ![c] = IF kind[c] = "noBundle" THEN "stopped" ELSE "broken"]
  /\ failed' = failed \cup {c}
  /\ UNCHANGED <<config, customBuild, rebuilding, cleanup, current, changes, last,
                 completed, overtaken, late>>

\* The end of build(): stopWatching is set, and setBundle called.
SetBundle(c) ==
  /\ esbuild[c] = "built"
  /\ esbuild' = [esbuild EXCEPT ![c] = "watching"]
  /\ Complete(c, c)
  /\ current' = c
  /\ overtaken' = overtaken \cup (closing \cap {c})
  /\ UNCHANGED <<config, customBuild, rebuilding, cleanup, changes, completed, failed, late>>

\* The end of build() throws (the entrypoint is gone) once stopWatching is set.
SetBundleFails(c) ==
  /\ esbuild[c] = "built"
  /\ esbuild' = [esbuild EXCEPT ![c] = "watching"]
  /\ failed' = failed \cup {c}
  /\ UNCHANGED <<config, customBuild, rebuilding, cleanup, current, changes, last,
                 completed, overtaken, late>>

\* esbuild (external) or the watcher of the modules sees a changed file.
Rebuild(c) ==
  /\ esbuild[c] \in IF kind[c] = "noBundle" THEN {"watching"}
                    ELSE {"built", "watching", "broken", "orphaned"}
  /\ c \notin rebuilding
  /\ changes < MaxChanges
  /\ changes' = changes + 1
  /\ rebuilding' = rebuilding \cup {c}
  /\ UNCHANGED <<config, customBuild, esbuild, cleanup, current, history>>

\* updateBundle, which asks for no leave when its await is over: the current
\* bundle again, whosever it is, as one of c, which may be superseded by now.
UpdateBundle(c) ==
  /\ c \in rebuilding
  /\ current # 0
  /\ rebuilding' = rebuilding \ {c}
  /\ Complete(c, current)
  /\ UNCHANGED <<config, customBuild, esbuild, cleanup, current, changes, completed,
                 failed, overtaken, late>>

\* The rebuild has errors or is cut short by the end of its context, or
\* updateBundle throws, or it is the first build of a broken context that
\* succeeds.
RebuildIgnored(c) ==
  /\ c \in rebuilding
  /\ rebuilding' = rebuilding \ {c}
  /\ UNCHANGED <<config, customBuild, esbuild, cleanup, current, changes, history>>

-----------------------------------------------------------------------------
ConfigStep == \E i \in resolving :
                \/ \E k \in Kinds \ {"none"} : Resolve(i, k)
                \/ ResolveAborted(i) \/ ResolveFails(i)

CustomStep == \/ \E c \in Configs : Watch(c) \/ Ready(c)
              \/ \E b \in running : CommandDone(b) \/ BundleDone(b) \/ CustomBuildFails(b)

EsbuildStep == \E c \in Configs : \/ StartBuild(c) \/ FirstBuilt(c) \/ FirstFails(c)
                                  \/ SetBundle(c) \/ SetBundleFails(c)
                                  \/ UpdateBundle(c) \/ RebuildIgnored(c)

Next == \/ UpdateConfig \/ Teardown \/ ConfigStep \/ CustomStep \/ EsbuildStep
        \/ \E c \in Configs : Changed(c) \/ Rebuild(c)

Spec == Init /\ [][Next]_vars

-----------------------------------------------------------------------------
\* Type correctness.
TypeOK ==
  /\ {input, latest, watcher, cleanup, current} \subseteq OrNone
  /\ UNION {resolving, closing, watching, rebuilding, failed, overtaken,
            late} \subseteq Configs
  /\ kind \in [Configs -> Kinds]
  /\ torn \in BOOLEAN
  /\ unready \subseteq watching
  /\ running \subseteq [id : 1..started, config : Configs, stage : {"command", "bundle"}]
  /\ {started, changes} \subseteq Nat
  /\ {aborter, completed} \subseteq 0..started
  /\ esbuild \in [Configs -> Stages]
  /\ last \in [config : OrNone, bundle : OrNone]

\* Configurations that have something watch files, or will have.
Live == watching \cup {c \in Configs : esbuild[c] \in {"first", "built", "watching", "broken",
                                                      "orphaned"}}

\* Configurations whose watcher or context nobody may be able to stop: they
\* started while another one did, their first build failed, or their way to
\* dispose of esbuild's context was lost.
Unstoppable == overtaken \cup {c \in Configs : esbuild[c] \in {"broken", "orphaned"}}

AtRest == /\ resolving \cup closing \cup unready \cup rebuilding = {}
          /\ running = {}
          /\ Starting = {}

(* Of the custom builds that run at a time only the newest one completes ("If a
   new custom build comes in, we need to cancel in-flight builds"), although
   the old ones cannot be stopped and end in any order. *)
OnlyNewestCustomBuildCompletes ==
  [][completed' # completed => completed' = started]_vars

(* What watches files on behalf of a configuration that is superseded, or torn
   down, is stopped, whatever kinds of build follow each other.  The exceptions
   are the configurations that were superseded while starting up, since the
   cleanup function of runBuild stops nothing before the first build is done;
   those whose first build failed; and those built without bundling but with
   their entrypoint processed, whose esbuild context stays (only that: their
   watcher is closed). *)
OnlyUnstoppableBuildsLeak ==
  \A c \in Live : (c = latest /\ ~torn) \/ c \in Unstoppable

(* At rest the last bundleComplete was for the newest configuration, with its
   own bundle, provided that no configuration was overtaken while starting or
   left a context behind, and none was superseded while a rebuild of its own
   was under way, which comes to its end whatever happens.  Custom builds of
   the old configuration that are still under way do not come after it, since
   closing the old watcher is followed by an abort. *)
RestsOnLatestConfig ==
  AtRest /\ ~torn /\ Unstoppable \cup late = {} /\ input \notin failed =>
    latest = input /\ last = Event(input, input)

=============================================================================
