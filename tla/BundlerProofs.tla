--------------------------- MODULE BundlerProofs ----------------------------
(***************************************************************************)
(* For any number of inputs and file changes: only the newest custom build *)
(* completes, what watches files for an old configuration is stopped       *)
(* unless it was overtaken, and the last bundle is the newest one's.       *)
(***************************************************************************)
EXTENDS Bundler, TLAPS

-----------------------------------------------------------------------------
(* Type correctness. *)

ConfigTyped ==
  /\ input \in OrNone /\ latest \in OrNone
  /\ resolving \subseteq Configs /\ kind \in [Configs -> Kinds]
  /\ torn \in BOOLEAN

CustomTyped ==
  /\ watcher \in OrNone
  /\ closing \subseteq Configs /\ watching \subseteq Configs
  /\ unready \subseteq watching
  /\ started \in Nat /\ aborter \in 0..started
  /\ running \subseteq [id : 1..started, config : Configs, stage : {"command", "bundle"}]

BundleTyped ==
  /\ esbuild \in [Configs -> Stages]
  /\ rebuilding \subseteq Configs
  /\ cleanup \in OrNone /\ current \in OrNone
  /\ changes \in Nat

HistoryTyped ==
  /\ last \in [config : OrNone, bundle : OrNone]
  /\ completed \in 0..started
  /\ failed \subseteq Configs /\ overtaken \subseteq Configs /\ late \subseteq Configs

Typed == ConfigTyped /\ CustomTyped /\ BundleTyped /\ HistoryTyped

\* Configurations are positive numbers.
LEMMA ConfigsAreNumbers ==
  /\ Configs \subseteq OrNone /\ OrNone \subseteq Nat /\ 0 \in OrNone /\ 0 \notin Configs
  /\ \A c \in OrNone : c # 0 => c \in Configs
BY BundlerAssumption DEF Configs, OrNone

\* What becomes of a build that is stopped.
Ended(c) == IF kind[c] = "processed" THEN "orphaned" ELSE "stopped"

\* Cleaning up stops at most the build that #bundlerCleanup belongs to.
LEMMA StoppedFacts ==
  ASSUME BundleTyped
  PROVE  /\ Stopped \in [Configs -> Stages]
         /\ \A c \in Configs : Stopped[c] = IF c = cleanup /\ esbuild[c] = "watching"
                                            THEN Ended(c) ELSE esbuild[c]
<1>1. CASE Stoppable
  <2>1. cleanup \in Configs
    BY <1>1, ConfigsAreNumbers DEF Stoppable, BundleTyped
  <2> QED
    BY <1>1, <2>1 DEF Stopped, Stoppable, BundleTyped, Stages, Ended
<1>2. CASE ~Stoppable
  <2>1. \A c \in Configs : ~(c = cleanup /\ esbuild[c] = "watching")
    BY <1>2, ConfigsAreNumbers DEF Stoppable
  <2> QED
    BY <1>2, <2>1 DEF Stopped, BundleTyped
<1> QED
  BY <1>1, <1>2

\* Every step preserves the types.
LEMMA TypedStep ==
  ASSUME Typed, [Next]_vars
  PROVE  Typed'
<1> USE DEF config, customBuild, bundle, history
<1>0. ConfigTyped /\ CustomTyped /\ BundleTyped /\ HistoryTyped
  BY DEF Typed
<1>1. CASE UpdateConfig
  <2>1. ConfigTyped'
    BY <1>0, <1>1, BundlerAssumption DEF UpdateConfig, ConfigTyped, OrNone, Configs
  <2> QED
    BY <1>0, <1>1, <2>1 DEF UpdateConfig, Typed, CustomTyped, BundleTyped, HistoryTyped
<1>2. Starting \subseteq Configs
  BY <1>0 DEF Starting, CustomTyped
<1>3. CASE Teardown
  <2>1. ConfigTyped' /\ CustomTyped'
    BY <1>0, <1>3 DEF Teardown, CloseWatcher, ConfigTyped, CustomTyped
  <2>2. BundleTyped' /\ HistoryTyped'
    BY <1>0, <1>2, <1>3, StoppedFacts DEF Teardown, BundleTyped, HistoryTyped
  <2> QED
    BY <2>1, <2>2 DEF Typed
<1>4. ASSUME NEW i \in resolving, NEW k \in Kinds \ {"none"}, Resolve(i, k)
      PROVE  Typed'
  <2>0. i \in Configs /\ i \in OrNone
    BY <1>0, ConfigsAreNumbers DEF ConfigTyped
  <2>1. ConfigTyped'
    BY <1>0, <1>4, <2>0 DEF Resolve, OnConfigUpdate, ConfigTyped
  <2>2. CustomTyped'
    BY <1>0, <1>4, <2>0 DEF Resolve, OnConfigUpdate, CloseWatcher, CustomTyped
  <2>3. BundleTyped'
    <3>1. esbuild' = [Stopped EXCEPT ![i] = "starting"] /\ "starting" \in Stages
      BY <1>4 DEF Resolve, OnConfigUpdate, Stages
    <3>2. esbuild' \in [Configs -> Stages]
      BY <1>0, <3>1, StoppedFacts
    <3> QED
      BY <1>0, <1>4, <3>2 DEF Resolve, OnConfigUpdate, BundleTyped
  <2>4. HistoryTyped'
    BY <1>0, <1>2, <1>4, <2>0 DEF Resolve, OnConfigUpdate, HistoryTyped, BundleTyped
  <2> QED
    BY <2>1, <2>2, <2>3, <2>4 DEF Typed
<1>5. ASSUME NEW i \in resolving, ResolveAborted(i) \/ ResolveFails(i)
      PROVE  Typed'
  <2>1. i \in Configs
    BY <1>0 DEF ConfigTyped
  <2>2. ConfigTyped' /\ HistoryTyped'
    BY <1>0, <1>5, <2>1 DEF ResolveAborted, ResolveFails, ConfigTyped, HistoryTyped
  <2> QED
    BY <1>0, <1>5, <2>2 DEF ResolveAborted, ResolveFails, Typed, CustomTyped, BundleTyped
<1>6. ASSUME NEW c \in Configs, Watch(c)
      PROVE  Typed'
  <2>0. c \in OrNone /\ started' = started /\ running' = running /\ aborter' = 0 /\ started \in Nat
    BY <1>0, <1>6, ConfigsAreNumbers DEF Watch, CustomTyped
  <2>1. CustomTyped'
    <3>1. aborter' \in 0..started'
      BY <2>0
    <3>2. watcher' \in OrNone /\ watching' \subseteq Configs /\ unready' \subseteq watching'
      BY <1>0, <1>6, <2>0 DEF Watch, CustomTyped
    <3> QED
      BY <1>0, <1>6, <2>0, <3>1, <3>2 DEF Watch, CustomTyped
  <2> QED
    BY <1>0, <1>6, <2>1 DEF Watch, Typed, ConfigTyped, BundleTyped, HistoryTyped
<1>7. ASSUME NEW c \in Configs, RunCustomBuild(c), unready' \subseteq watching,
             changes' \in Nat
      PROVE  Typed'
  <2> DEFINE R(n) == [id : 1..n, config : Configs, stage : {"command", "bundle"}]
             b == [id |-> started + 1, config |-> c, stage |-> "command"]
  <2>1. started' = started + 1 /\ started \in Nat /\ aborter' = started + 1
    BY <1>0, <1>7 DEF RunCustomBuild, CustomTyped
  <2>2. b \in R(started + 1)
    BY <2>1
  <2>3. R(started) \subseteq R(started + 1)
    BY <2>1
  <2>4. running' = running \cup {b} /\ running \subseteq R(started)
    BY <1>0, <1>7 DEF RunCustomBuild, CustomTyped
  <2> HIDE DEF b, R
  <2>5. running' \subseteq R(started')
    BY <2>1, <2>2, <2>3, <2>4
  <2>6. CustomTyped'
    <3>1. /\ watcher' = watcher /\ closing' = closing /\ watching' = watching
          /\ aborter' \in 0..started' /\ started' \in Nat
      BY <1>7, <2>1 DEF RunCustomBuild
    <3> QED
      BY <1>0, <1>7, <2>5, <3>1 DEF CustomTyped, R
  <2>7. HistoryTyped'
    BY <1>0, <1>7, <2>1 DEF RunCustomBuild, HistoryTyped
  <2> QED
    BY <1>0, <1>7, <2>6, <2>7 DEF RunCustomBuild, Typed, ConfigTyped, BundleTyped
<1>8. ASSUME NEW c \in Configs, Ready(c) \/ Changed(c)
      PROVE  Typed'
  <2>1. unready' \subseteq watching /\ changes' \in Nat
    BY <1>0, <1>8 DEF Ready, Changed, CustomTyped, BundleTyped
  <2> QED
    BY <1>7, <1>8, <2>1 DEF Ready, Changed
<1>9. ASSUME NEW b \in running
      PROVE  /\ b.id \in 1..started /\ b.config \in Configs
             /\ [b EXCEPT !.stage = "bundle"]
                  \in [id : 1..started, config : Configs, stage : {"command", "bundle"}]
  BY <1>0 DEF CustomTyped
<1>10. ASSUME NEW b \in running, CommandDone(b)
       PROVE  Typed'
  <2>1. running' \subseteq [id : 1..started, config : Configs, stage : {"command", "bundle"}]
    BY <1>0, <1>9, <1>10 DEF CommandDone, CustomTyped
  <2> QED
    BY <1>0, <1>10, <2>1
    DEF CommandDone, Typed, ConfigTyped, CustomTyped, BundleTyped, HistoryTyped
<1>11. ASSUME NEW b \in running, BundleDone(b)
       PROVE  Typed'
  <2>1. b.config \in Configs /\ b.config \in OrNone /\ b.id \in 0..started
    BY <1>0, <1>9, ConfigsAreNumbers DEF CustomTyped
  <2>2. HistoryTyped'
    BY <1>0, <1>11, <2>1 DEF BundleDone, Complete, Event, HistoryTyped
  <2> QED
    BY <1>0, <1>11, <2>2 DEF BundleDone, Typed, ConfigTyped, CustomTyped, BundleTyped
<1>12. ASSUME NEW b \in running, CustomBuildFails(b)
       PROVE  Typed'
  <2>1. CustomTyped' /\ HistoryTyped'
    BY <1>0, <1>9, <1>12 DEF CustomBuildFails, CustomTyped, HistoryTyped
  <2> QED
    BY <1>0, <1>12, <2>1 DEF CustomBuildFails, Typed, ConfigTyped, BundleTyped
<1>13. ASSUME NEW c \in Configs, StartBuild(c) \/ FirstBuilt(c) \/ FirstFails(c)
       PROVE  Typed'
  <2>1. esbuild' \in [Configs -> Stages] /\ cleanup' \in OrNone
    BY <1>0, <1>13, ConfigsAreNumbers DEF StartBuild, FirstBuilt, FirstFails, BundleTyped, Stages
  <2>2. BundleTyped' /\ HistoryTyped'
    BY <1>0, <1>13, <2>1 DEF StartBuild, FirstBuilt, FirstFails, BundleTyped, HistoryTyped
  <2> QED
    BY <1>0, <1>13, <2>2 DEF StartBuild, FirstBuilt, FirstFails, Typed, ConfigTyped, CustomTyped
<1>14. ASSUME NEW c \in Configs, SetBundle(c) \/ SetBundleFails(c)
       PROVE  Typed'
  <2>1. BundleTyped'
    BY <1>0, <1>14, ConfigsAreNumbers DEF SetBundle, SetBundleFails, BundleTyped, Stages
  <2>2. HistoryTyped'
    <3>1. CASE SetBundle(c)
      BY <1>0, <3>1, ConfigsAreNumbers
      DEF SetBundle, Complete, Event, HistoryTyped, CustomTyped
    <3>2. CASE SetBundleFails(c)
      BY <1>0, <3>2 DEF SetBundleFails, HistoryTyped, CustomTyped
    <3> QED
      BY <1>14, <3>1, <3>2
  <2> QED
    BY <1>0, <1>14, <2>1, <2>2 DEF SetBundle, SetBundleFails, Typed, ConfigTyped, CustomTyped
<1>15. ASSUME NEW c \in Configs, Rebuild(c) \/ UpdateBundle(c) \/ RebuildIgnored(c)
       PROVE  Typed'
  <2>1. BundleTyped'
    BY <1>0, <1>15 DEF Rebuild, UpdateBundle, RebuildIgnored, BundleTyped
  <2>2. HistoryTyped'
    <3>1. CASE UpdateBundle(c)
      BY <1>0, <3>1, ConfigsAreNumbers
      DEF UpdateBundle, Complete, Event, HistoryTyped, BundleTyped, CustomTyped
    <3>2. CASE Rebuild(c) \/ RebuildIgnored(c)
      BY <1>0, <3>2 DEF Rebuild, RebuildIgnored, HistoryTyped
    <3> QED
      BY <1>15, <3>1, <3>2
  <2> QED
    BY <1>0, <1>15, <2>1, <2>2
    DEF Rebuild, UpdateBundle, RebuildIgnored, Typed, ConfigTyped, CustomTyped
<1>16. CASE UNCHANGED vars
  BY <1>0, <1>16 DEF vars, Typed, ConfigTyped, CustomTyped, BundleTyped, HistoryTyped
<1> QED
  BY <1>1, <1>3, <1>4, <1>5, <1>6, <1>8, <1>10, <1>11, <1>12, <1>13, <1>14, <1>15, <1>16
  DEF Next, ConfigStep, CustomStep, EsbuildStep

LEMMA InitTyped == Init => Typed
<1> SUFFICES ASSUME Init PROVE Typed
  OBVIOUS
<1>1. ConfigTyped /\ BundleTyped
  BY ConfigsAreNumbers DEF Init, ConfigTyped, BundleTyped, Stages, Kinds
<1>2. CustomTyped
  BY ConfigsAreNumbers DEF Init, CustomTyped
<1>3. HistoryTyped
  BY ConfigsAreNumbers DEF Init, HistoryTyped, Event
<1> QED
  BY <1>1, <1>2, <1>3 DEF Typed

\* Type correctness of the controllers.
THEOREM BundlerTypeCorrect == Spec => []TypeOK
<1>1. Typed => TypeOK
  BY DEF Typed, ConfigTyped, CustomTyped, BundleTyped, HistoryTyped, TypeOK
<1> QED
  BY <1>1, InitTyped, TypedStep, PTL DEF Spec

-----------------------------------------------------------------------------
(* Custom builds. *)

\* The abort controller belongs to the newest build, if it is not aborted.
AborterIsNewest == aborter \in {0, started}

LEMMA AborterStep ==
  ASSUME AborterIsNewest, [Next]_vars
  PROVE  AborterIsNewest'
<1> USE DEF config, customBuild, bundle, history, AborterIsNewest
<1>1. CASE Teardown
  BY <1>1 DEF Teardown
<1>2. ASSUME NEW c \in Configs, Watch(c) PROVE AborterIsNewest'
  BY <1>2 DEF Watch
<1>3. ASSUME NEW c \in Configs, Ready(c) \/ Changed(c) PROVE AborterIsNewest'
  BY <1>3 DEF Ready, Changed, RunCustomBuild
<1>4. CASE UNCHANGED <<aborter, started>>
  BY <1>4
<1> QED
  BY <1>1, <1>2, <1>3, <1>4
  DEF Next, vars, UpdateConfig, ConfigStep, CustomStep, EsbuildStep, Resolve, OnConfigUpdate,
      ResolveAborted, ResolveFails, CommandDone, BundleDone, CustomBuildFails, StartBuild,
      FirstBuilt, FirstFails, SetBundle, SetBundleFails, UpdateBundle, RebuildIgnored, Rebuild

(* However custom builds overlap and in whatever order they end, one that
   completes is the newest. *)
THEOREM NewestBuildCompletes == Spec => OnlyNewestCustomBuildCompletes
<1> USE DEF config, customBuild, bundle, history
<1>1. Typed /\ AborterIsNewest /\ [Next]_vars
        => [completed' # completed => completed' = started]_vars
  <2> SUFFICES ASSUME Typed, AborterIsNewest, Next, completed' # completed
               PROVE  completed' = started
    BY DEF vars
  <2>1. ASSUME NEW b \in running, BundleDone(b) PROVE completed' = started
    <3>1. b.id \in 1..started
      BY DEF Typed, CustomTyped
    <3>2. completed' = b.id /\ b.id = aborter
      BY <2>1 DEF BundleDone, Superseded
    <3> QED
      BY <3>1, <3>2 DEF AborterIsNewest
  <2> QED
    BY <2>1
    DEF Next, UpdateConfig, Teardown, ConfigStep, CustomStep, EsbuildStep, Resolve,
        OnConfigUpdate, ResolveAborted, ResolveFails, Watch, Ready, Changed, RunCustomBuild,
        CommandDone, CustomBuildFails, StartBuild, FirstBuilt, FirstFails, SetBundle, SetBundleFails,
        UpdateBundle, RebuildIgnored, Rebuild
<1>2. Init => AborterIsNewest
  BY DEF Init, AborterIsNewest
<1> QED
  BY <1>1, <1>2, InitTyped, TypedStep, AborterStep, PTL
  DEF Spec, OnlyNewestCustomBuildCompletes

-----------------------------------------------------------------------------
(* Inputs that are not resolved have started nothing. *)

FreshInv ==
  /\ \A i \in Configs : i \in resolving \/ input < i => esbuild[i] = "none"
  /\ input \notin failed /\ input \notin resolving => latest = input
  /\ \A c \in Configs : kind[c] = "custom" => esbuild[c] \in {"none", "starting"}

\* onConfigUpdate stops the old build and starts the new one.
LEMMA ResolveFacts ==
  ASSUME Typed, NEW i \in resolving, NEW k \in Kinds \ {"none"}, Resolve(i, k)
  PROVE  /\ i \in Configs /\ i = input /\ latest' = i
         /\ esbuild'[i] = "starting"
         /\ \A c \in Configs \ {i} : esbuild'[c] = IF c = cleanup /\ esbuild[c] = "watching"
                                                   THEN Ended(c) ELSE esbuild[c]
<1>1. i \in Configs /\ BundleTyped
  BY DEF Typed, ConfigTyped
<1>2. i = input /\ latest' = i /\ esbuild' = [Stopped EXCEPT ![i] = "starting"]
  BY DEF Resolve, OnConfigUpdate, Aborted
<1> QED
  BY <1>1, <1>2, StoppedFacts

\* The steps of esbuild's first build.
LEMMA BuildFacts ==
  ASSUME Typed, NEW c \in Configs,
         StartBuild(c) \/ FirstBuilt(c) \/ FirstFails(c) \/ SetBundle(c)
             \/ SetBundleFails(c)
  PROVE  /\ esbuild[c] \in {"starting", "first", "built"}
         /\ StartBuild(c) => /\ esbuild[c] = "starting"
                             /\ esbuild'[c] = IF kind[c] = "custom" THEN "none" ELSE "first"
         /\ FirstBuilt(c) => esbuild[c] = "first" /\ esbuild'[c] = "built"
         /\ FirstFails(c) => /\ esbuild[c] \in {"first", "built"}
                             /\ esbuild'[c] \in {"stopped", "broken"}
         /\ SetBundle(c) \/ SetBundleFails(c) => esbuild[c] = "built" /\ esbuild'[c] = "watching"
         /\ \A d \in Configs \ {c} : esbuild'[d] = esbuild[d]
  BY DEF Typed, BundleTyped, StartBuild, FirstBuilt, FirstFails, SetBundle, SetBundleFails

LEMMA FreshStep ==
  ASSUME Typed, FreshInv, [Next]_vars
  PROVE  FreshInv'
<1> USE DEF config, customBuild, bundle, history
<1>0. /\ input \in Nat /\ latest \in OrNone /\ Configs \subseteq Nat
      /\ resolving \subseteq Configs /\ kind \in [Configs -> Kinds]
  BY ConfigsAreNumbers DEF Typed, ConfigTyped
<1>1. CASE UpdateConfig
  BY <1>0, <1>1 DEF UpdateConfig, FreshInv
<1>2. ASSUME NEW i \in resolving, NEW k \in Kinds \ {"none"}, Resolve(i, k)
      PROVE  FreshInv'
  <2>1. resolving' = resolving \ {i} /\ input' = input /\ kind' = [kind EXCEPT ![i] = k]
        /\ failed' = failed
    BY <1>2 DEF Resolve, OnConfigUpdate
  <2>2. /\ i \in Configs /\ i = input /\ latest' = i
        /\ esbuild'[i] = "starting"
        /\ \A c \in Configs \ {i} : esbuild[c] # "watching" => esbuild'[c] = esbuild[c]
    BY <1>2, ResolveFacts
  <2> QED
    BY <1>0, <2>1, <2>2 DEF FreshInv
<1>3. ASSUME NEW i \in resolving, ResolveAborted(i) \/ ResolveFails(i)
      PROVE  FreshInv'
  BY <1>0, <1>3 DEF ResolveAborted, ResolveFails, Aborted, FreshInv
<1>4. CASE Teardown
  <2>1. /\ esbuild' = Stopped
        /\ \A c \in Configs : Stopped[c] = IF c = cleanup /\ esbuild[c] = "watching"
                                           THEN Ended(c) ELSE esbuild[c]
    BY <1>4, StoppedFacts DEF Teardown, Typed
  <2> QED
    BY <1>0, <1>4, <2>1 DEF Teardown, FreshInv
<1>5. ASSUME NEW c \in Configs, StartBuild(c) \/ FirstBuilt(c) \/ FirstFails(c) \/ SetBundle(c)
             \/ SetBundleFails(c)
      PROVE  FreshInv'
  <2>1. /\ UNCHANGED <<input, resolving, latest, kind>>
        /\ failed \subseteq failed'
    BY <1>5 DEF StartBuild, FirstBuilt, FirstFails, SetBundle, SetBundleFails
  <2>2. /\ esbuild[c] \in {"starting", "first", "built"}
        /\ esbuild[c] = "starting" /\ kind[c] = "custom" => esbuild'[c] = "none"
        /\ \A d \in Configs \ {c} : esbuild'[d] = esbuild[d]
    BY <1>5, BuildFacts DEF StartBuild, FirstBuilt, FirstFails, SetBundle, SetBundleFails
  <2> QED
    BY <1>0, <2>1, <2>2 DEF FreshInv
<1>6. CASE UNCHANGED <<input, resolving, latest, kind, esbuild>> /\ failed \subseteq failed'
  BY <1>6 DEF FreshInv
<1>7. ASSUME NEW c \in Configs,
             Watch(c) \/ Ready(c) \/ Changed(c) \/ Rebuild(c) \/ UpdateBundle(c)
                      \/ RebuildIgnored(c)
      PROVE  FreshInv'
  BY <1>6, <1>7
  DEF Watch, Ready, Changed, RunCustomBuild, Rebuild, UpdateBundle, RebuildIgnored
<1>8. ASSUME NEW b \in running, CommandDone(b) \/ BundleDone(b) \/ CustomBuildFails(b)
      PROVE  FreshInv'
  BY <1>6, <1>8 DEF CommandDone, BundleDone, CustomBuildFails
<1>9. CASE UNCHANGED vars
  BY <1>6, <1>9 DEF vars
<1> QED
  BY <1>1, <1>2, <1>3, <1>4, <1>5, <1>7, <1>8, <1>9
  DEF Next, ConfigStep, CustomStep, EsbuildStep

-----------------------------------------------------------------------------
(* Watchers and contexts that are left behind. *)

\* Configurations that start up together are all overtaken.
OvertakenTogether ==
  Starting # {} /\ (torn \/ Starting # {latest})
    => latest \in overtaken /\ Starting \subseteq overtaken

\* What is not overtaken can be stopped.
WatcherIsKnown == \A c \in watching : c \notin Unstoppable => watcher = c

ContextIsKnown ==
  \A c \in Configs : esbuild[c] \in {"first", "built", "watching"} /\ c \notin overtaken
                       => cleanup = c

LeakInv == /\ OvertakenTogether
           /\ WatcherIsKnown
           /\ ContextIsKnown
           /\ OnlyUnstoppableBuildsLeak

\* A configuration leaves the set of those that start up.
LEMMA StartingShrinks ==
  ASSUME OvertakenTogether, Starting' \subseteq Starting, latest' = latest, torn' = torn,
         overtaken \subseteq overtaken'
  PROVE  OvertakenTogether'
BY DEF OvertakenTogether

\* One that starts up is the latest or is overtaken.
LEMMA StartingIsLatest ==
  ASSUME OvertakenTogether, NEW c \in Starting, c \notin overtaken
  PROVE  c = latest /\ ~torn /\ Starting = {c}
BY DEF OvertakenTogether

\* Any other watcher or context was overtaken when one starts up.
LEMMA OthersAreOvertaken ==
  ASSUME LeakInv, NEW c \in Starting, NEW d \in Live, d # c
  PROVE  d \in Unstoppable
BY DEF LeakInv, OvertakenTogether, OnlyUnstoppableBuildsLeak, Unstoppable

\* Closing the watcher and cleaning up stop all that is not overtaken by then.
LEMMA CleaningUp ==
  ASSUME LeakInv, Starting \subseteq overtaken', overtaken \subseteq overtaken',
         watcher' = watcher, cleanup' = cleanup, watching' = watching \ {watcher},
         NEW i \in OrNone,
         i \in Configs => esbuild[i] = "none" /\ esbuild'[i] = "starting",
         \A c \in Configs \ {i} : esbuild'[c] = IF c = cleanup /\ esbuild[c] = "watching"
                                                THEN Ended(c) ELSE esbuild[c]
  PROVE  WatcherIsKnown' /\ ContextIsKnown' /\ Live' \subseteq Unstoppable'
<1>1. WatcherIsKnown /\ ContextIsKnown
  BY DEF LeakInv
<1>2. Unstoppable \subseteq Unstoppable' /\ Starting \subseteq Unstoppable'
  BY DEF Unstoppable
<1>3. WatcherIsKnown'
  BY <1>1, <1>2 DEF WatcherIsKnown
<1>4. ContextIsKnown'
  BY <1>1 DEF ContextIsKnown
<1>5. ASSUME NEW c \in Live' PROVE c \in Unstoppable'
  <2>1. CASE c \in watching'
    BY <1>1, <1>2, <2>1 DEF WatcherIsKnown
  <2>2. CASE c \notin watching'
    <3>1. c \in Configs /\ esbuild'[c] \in {"first", "built", "watching", "broken", "orphaned"}
      BY <2>2 DEF Live
    <3>2. esbuild'[c] # "orphaned"
            => esbuild[c] = esbuild'[c] /\ ~(c = cleanup /\ esbuild[c] = "watching")
      BY <3>1 DEF Ended
    <3>3. CASE esbuild'[c] \in {"broken", "orphaned"}
      BY <3>1, <3>3 DEF Unstoppable
    <3>4. CASE esbuild'[c] \in {"first", "built"}
      BY <1>2, <3>1, <3>2, <3>4 DEF Starting
    <3>5. CASE esbuild'[c] = "watching"
      BY <1>1, <1>2, <3>1, <3>2, <3>5 DEF ContextIsKnown, Unstoppable
    <3> QED
      BY <3>1, <3>2, <3>3, <3>4, <3>5
  <2> QED
    BY <2>1, <2>2
<1> QED
  BY <1>3, <1>4, <1>5

LEMMA LeakStep ==
  ASSUME Typed, FreshInv, LeakInv, [Next]_vars
  PROVE  LeakInv'
<1> USE DEF config, customBuild, bundle, history
<1>0. /\ closing \subseteq Configs /\ watching \subseteq Configs /\ latest \in OrNone
      /\ overtaken \subseteq Configs /\ torn \in BOOLEAN /\ watcher \in OrNone
  BY DEF Typed, ConfigTyped, CustomTyped, HistoryTyped
<1>1. OvertakenTogether /\ WatcherIsKnown /\ ContextIsKnown /\ OnlyUnstoppableBuildsLeak
  BY DEF LeakInv
<1>2. ASSUME NEW i \in resolving, NEW k \in Kinds \ {"none"}, Resolve(i, k)
      PROVE  LeakInv'
  <2>1. /\ i \in Configs /\ latest' = i
        /\ esbuild'[i] = "starting" /\ esbuild[i] = "none"
        /\ \A c \in Configs \ {i} : esbuild'[c] = IF c = cleanup /\ esbuild[c] = "watching"
                                                  THEN Ended(c) ELSE esbuild[c]
    BY <1>2, ResolveFacts DEF FreshInv, Typed, ConfigTyped
  <2>2. /\ torn' = torn /\ watcher' = watcher /\ cleanup' = cleanup
        /\ closing' = closing \cup {i} /\ watching' = watching \ {watcher}
        /\ overtaken' = UNION {overtaken, Starting, IF torn \/ Starting # {} THEN {i} ELSE {}}
    BY <1>2 DEF Resolve, OnConfigUpdate, CloseWatcher
  <2>3. Starting' = Starting \cup {i}
    BY <2>1, <2>2 DEF Starting, Ended
  <2>4. OvertakenTogether'
    BY <2>1, <2>2, <2>3 DEF OvertakenTogether
  <2>5. WatcherIsKnown' /\ ContextIsKnown' /\ Live' \subseteq Unstoppable'
    BY <2>1, <2>2, CleaningUp, ConfigsAreNumbers
  <2> QED
    BY <2>4, <2>5 DEF LeakInv, OnlyUnstoppableBuildsLeak
<1>3. CASE Teardown
  <2>1. \A c \in Configs : esbuild'[c] = IF c = cleanup /\ esbuild[c] = "watching"
                                         THEN Ended(c) ELSE esbuild[c]
    BY <1>3, StoppedFacts DEF Teardown, Typed
  <2>2. /\ latest' = latest /\ watcher' = watcher /\ cleanup' = cleanup
        /\ closing' = closing /\ watching' = watching \ {watcher}
        /\ overtaken' = overtaken \cup Starting
    BY <1>3 DEF Teardown, CloseWatcher
  <2>3. Starting' = Starting
    BY <2>1, <2>2 DEF Starting, Ended
  <2>4. OvertakenTogether'
    BY <1>1, <2>2, <2>3 DEF OvertakenTogether
  <2>5. WatcherIsKnown' /\ ContextIsKnown' /\ Live' \subseteq Unstoppable'
    <3>1. 0 \in OrNone /\ 0 \notin Configs
      BY ConfigsAreNumbers
    <3> QED
      BY <2>1, <2>2, <3>1, CleaningUp
  <2> QED
    BY <2>4, <2>5 DEF LeakInv, OnlyUnstoppableBuildsLeak
<1>4. ASSUME NEW c \in Configs, Watch(c)
      PROVE  LeakInv'
  <2>1. /\ UNCHANGED <<latest, torn, esbuild, cleanup, overtaken>>
        /\ closing' = closing \ {c} /\ c \in Starting
        /\ IF kind[c] = "custom" THEN watcher' = c /\ watching' = watching \cup {c}
                           ELSE watcher' = watcher /\ watching' = watching
    BY <1>4 DEF Watch, Starting
  <2>2. Starting' \subseteq Starting /\ Unstoppable' = Unstoppable
    BY <2>1 DEF Starting, Unstoppable
  <2>3. OvertakenTogether' /\ ContextIsKnown'
    BY <1>1, <2>1, <2>2, StartingShrinks DEF ContextIsKnown
  <2>4. WatcherIsKnown'
    <3> SUFFICES ASSUME NEW d \in watching', d \notin Unstoppable, kind[c] = "custom"
                 PROVE  watcher' = d
      BY <1>1, <2>1, <2>2 DEF WatcherIsKnown
    <3>1. d # c => d \in Live
      BY <2>1 DEF Live
    <3> QED
      BY <2>1, <3>1, OthersAreOvertaken
  <2>5. OnlyUnstoppableBuildsLeak'
    <3> SUFFICES ASSUME NEW d \in Live', d \notin Unstoppable
                 PROVE  d = latest /\ ~torn
      BY <2>1, <2>2 DEF OnlyUnstoppableBuildsLeak
    <3>1. d \in Live \/ d = c
      BY <2>1 DEF Live
    <3>2. d \in Live => d = latest /\ ~torn
      BY <1>1 DEF OnlyUnstoppableBuildsLeak
    <3>3. d = c => d = latest /\ ~torn
      BY <1>1, <2>1, StartingIsLatest DEF Unstoppable
    <3> QED
      BY <3>1, <3>2, <3>3
  <2> QED
    BY <2>3, <2>4, <2>5 DEF LeakInv
<1>5. ASSUME NEW c \in Configs, StartBuild(c) \/ FirstBuilt(c) \/ FirstFails(c) \/ SetBundle(c)
             \/ SetBundleFails(c)
      PROVE  LeakInv'
  <2>1. /\ UNCHANGED <<latest, torn, closing, watcher, watching>>
        /\ overtaken \subseteq overtaken'
        /\ cleanup' \in {cleanup, c}
    BY <1>5 DEF StartBuild, FirstBuilt, FirstFails, SetBundle, SetBundleFails
  <2>2. /\ esbuild[c] \in {"starting", "first", "built"}
        /\ esbuild'[c] \in {"none", "first", "built", "watching", "broken", "stopped"}
        /\ esbuild'[c] \in {"first", "built", "watching"} /\ esbuild[c] = "starting"
             => cleanup' = c
        /\ esbuild[c] # "starting" => cleanup' = cleanup
        /\ \A d \in Configs \ {c} : esbuild'[d] = esbuild[d]
    BY <1>5, BuildFacts DEF StartBuild, FirstBuilt, FirstFails, SetBundle, SetBundleFails
  <2>3. c \in Starting /\ Starting' \subseteq Starting /\ Unstoppable \subseteq Unstoppable'
    BY <2>1, <2>2 DEF Starting, Unstoppable
  <2>4. OvertakenTogether'
    BY <1>1, <2>1, <2>3, StartingShrinks
  <2>5. WatcherIsKnown'
    BY <1>1, <2>1, <2>3 DEF WatcherIsKnown
  <2>6. ContextIsKnown'
    <3> SUFFICES ASSUME NEW d \in Configs, esbuild'[d] \in {"first", "built", "watching"},
                        d \notin overtaken
                 PROVE  cleanup' = d
      BY <2>1 DEF ContextIsKnown
    <3>1. CASE d = c
      BY <1>1, <2>2, <3>1 DEF ContextIsKnown
    <3>2. CASE d # c
      <4>1. esbuild[d] = esbuild'[d] /\ d \in Live
        BY <2>2, <3>2 DEF Live
      <4>2. d \in Unstoppable
        BY <2>3, <3>2, <4>1, OthersAreOvertaken
      <4> QED
        BY <4>1, <4>2 DEF Unstoppable
    <3> QED
      BY <3>1, <3>2
  <2>7. OnlyUnstoppableBuildsLeak'
    <3> SUFFICES ASSUME NEW d \in Live', d \notin Unstoppable'
                 PROVE  d = latest /\ ~torn
      BY <2>1 DEF OnlyUnstoppableBuildsLeak
    <3>1. d \in Live \/ d = c
      BY <2>1, <2>2 DEF Live
    <3>2. d \in Live => d = latest /\ ~torn
      BY <1>1, <2>3 DEF OnlyUnstoppableBuildsLeak
    <3>3. d = c => d = latest /\ ~torn
      BY <1>1, <2>1, <2>3, StartingIsLatest DEF Unstoppable
    <3> QED
      BY <3>1, <3>2, <3>3
  <2> QED
    BY <2>4, <2>5, <2>6, <2>7 DEF LeakInv
<1>6. CASE UNCHANGED <<latest, torn, closing, watcher, watching, esbuild, cleanup, overtaken>>
  BY <1>1, <1>6
  DEF LeakInv, OvertakenTogether, WatcherIsKnown, ContextIsKnown, OnlyUnstoppableBuildsLeak,
      Starting, Live, Unstoppable
<1>7. ASSUME NEW c \in Configs,
             Ready(c) \/ Changed(c) \/ Rebuild(c) \/ UpdateBundle(c) \/ RebuildIgnored(c)
      PROVE  LeakInv'
  BY <1>6, <1>7 DEF Ready, Changed, RunCustomBuild, Rebuild, UpdateBundle, RebuildIgnored
<1>8. ASSUME NEW b \in running, CommandDone(b) \/ BundleDone(b) \/ CustomBuildFails(b)
      PROVE  LeakInv'
  BY <1>6, <1>8 DEF CommandDone, BundleDone, CustomBuildFails
<1>9. ASSUME NEW i \in resolving, ResolveAborted(i) \/ ResolveFails(i)
      PROVE  LeakInv'
  BY <1>6, <1>9 DEF ResolveAborted, ResolveFails
<1>10. CASE UpdateConfig \/ UNCHANGED vars
  BY <1>6, <1>10 DEF UpdateConfig, vars
<1> QED
  BY <1>2, <1>3, <1>4, <1>5, <1>7, <1>8, <1>9, <1>10
  DEF Next, ConfigStep, CustomStep, EsbuildStep

\* Nothing has started at first.
LEMMA InitFreshLeak == Init => FreshInv /\ LeakInv
<1> SUFFICES ASSUME Init PROVE FreshInv /\ LeakInv
  OBVIOUS
<1>1. /\ input = 0 /\ latest = 0 /\ closing = {} /\ watching = {}
      /\ \A c \in Configs : esbuild[c] = "none"
  BY DEF Init
<1>2. Starting = {} /\ Live = {}
  BY <1>1 DEF Starting, Live
<1> QED
  BY <1>1, <1>2
  DEF FreshInv, LeakInv, OvertakenTogether, WatcherIsKnown, ContextIsKnown,
      OnlyUnstoppableBuildsLeak

(* Whatever kinds of build follow each other, and whenever teardown comes,
   what still watches files belongs to the latest configuration, or started
   up together with another one, or failed its first build, or is the esbuild
   context of a processed entrypoint. *)
THEOREM OldBuildsAreStopped == Spec => []OnlyUnstoppableBuildsLeak
<1>1. LeakInv => OnlyUnstoppableBuildsLeak
  BY DEF LeakInv
<1> QED
  BY <1>1, InitTyped, InitFreshLeak, TypedStep, FreshStep, LeakStep, PTL DEF Spec

-----------------------------------------------------------------------------
(* The last bundle. *)

\* No configuration was overtaken, left anything behind or was superseded in
\* the middle of a rebuild.
Undisturbed == ~torn /\ Unstoppable \cup late = {}

\* A custom build that can still complete is one of the latest configuration,
\* once its old watcher is closed.
BuildsAreLatest ==
  latest \notin closing => \A b \in running : b.id = aborter => b.config = latest

\* Only what has built for the first time builds again.
Rebuildable(c) ==
  esbuild[c] \in IF kind[c] = "noBundle" THEN {"watching"} ELSE {"built", "watching"}

RebuildsAreLive == \A c \in rebuilding : Rebuildable(c)

\* A custom build of the latest configuration is due, failed, or came last.
CustomIsLast ==
  kind[latest] = "custom" =>
    \/ latest \in closing \/ latest \in unready \/ latest \in failed
    \/ \E b \in running : b.config = latest /\ b.id = aborter
    \/ last = Event(latest, latest)

\* The same of a configuration that esbuild bundles.
EsbuildIsLast ==
  latest # 0 /\ kind[latest] # "custom" =>
    \/ esbuild[latest] \in {"starting", "first", "built"}
    \/ latest \in failed
    \/ /\ esbuild[latest] = "watching" /\ latest \notin closing
       /\ current = latest /\ last = Event(latest, latest)

LastIsLatest == /\ BuildsAreLatest
                /\ RebuildsAreLive
                /\ latest = 0 => last = Event(0, 0)
                /\ CustomIsLast
                /\ EsbuildIsLast

RestInv == Undisturbed => LastIsLatest

\* A disturbance is never undone.
LEMMA DisturbanceStays ==
  ASSUME Typed, FreshInv, [Next]_vars, Undisturbed'
  PROVE  Undisturbed
<1> USE DEF config, customBuild, bundle, history
<1>1. torn => torn'
  BY DEF Next, vars, UpdateConfig, Teardown, ConfigStep, CustomStep, EsbuildStep, Resolve,
         OnConfigUpdate, ResolveAborted, ResolveFails, Watch, Ready, Changed, RunCustomBuild,
         CommandDone, BundleDone, CustomBuildFails, StartBuild, FirstBuilt, FirstFails,
         SetBundle, SetBundleFails, UpdateBundle, RebuildIgnored, Rebuild
<1>2. overtaken \subseteq overtaken' /\ late \subseteq late'
  BY DEF Next, vars, UpdateConfig, Teardown, ConfigStep, CustomStep, EsbuildStep, Resolve,
         OnConfigUpdate, ResolveAborted, ResolveFails, Watch, Ready, Changed, RunCustomBuild,
         CommandDone, BundleDone, CustomBuildFails, StartBuild, FirstBuilt, FirstFails,
         SetBundle, SetBundleFails, UpdateBundle, RebuildIgnored, Rebuild
<1>3. ASSUME NEW c \in Configs, esbuild[c] \in {"broken", "orphaned"}
      PROVE  esbuild'[c] = esbuild[c]
  <2>1. ASSUME NEW i \in resolving, NEW k \in Kinds \ {"none"}, Resolve(i, k)
        PROVE  esbuild'[c] = esbuild[c]
    <3>1. esbuild[i] = "none"
      BY <2>1 DEF FreshInv, Typed, ConfigTyped
    <3> QED
      BY <1>3, <2>1, <3>1, ResolveFacts
  <2>2. CASE Teardown
    BY <1>3, <2>2, StoppedFacts DEF Teardown, Typed
  <2>3. ASSUME NEW d \in Configs,
               StartBuild(d) \/ FirstBuilt(d) \/ FirstFails(d) \/ SetBundle(d)
               \/ SetBundleFails(d)
        PROVE  esbuild'[c] = esbuild[c]
    BY <1>3, <2>3, BuildFacts
  <2>4. CASE esbuild' = esbuild
    BY <1>3, <2>4
  <2> QED
    BY <2>1, <2>2, <2>3, <2>4
    DEF Next, vars, UpdateConfig, ConfigStep, CustomStep, EsbuildStep, ResolveAborted,
        ResolveFails, Watch, Ready, Changed, RunCustomBuild, CommandDone, BundleDone,
        CustomBuildFails, UpdateBundle, RebuildIgnored, Rebuild
<1> QED
  BY <1>1, <1>2, <1>3 DEF Undisturbed, Unstoppable

\* Undisturbed, only the latest configuration starts up, watches or rebuilds.
LEMMA OnlyLatest ==
  ASSUME Typed, LeakInv, Undisturbed
  PROVE  Starting \subseteq {latest} /\ Live \subseteq {latest}
BY DEF LeakInv, OvertakenTogether, OnlyUnstoppableBuildsLeak, Undisturbed, Unstoppable

LEMMA RestStep ==
  ASSUME Typed, FreshInv, LeakInv, RestInv, [Next]_vars
  PROVE  RestInv'
<1> USE DEF config, customBuild, bundle, history
<1> SUFFICES ASSUME Undisturbed' PROVE LastIsLatest'
  BY DEF RestInv
<1>1. Undisturbed /\ Starting \subseteq {latest} /\ Live \subseteq {latest}
  BY DisturbanceStays, OnlyLatest
<1>2. /\ BuildsAreLatest /\ RebuildsAreLive /\ CustomIsLast /\ EsbuildIsLast
      /\ latest = 0 => last = Event(0, 0)
  BY <1>1 DEF RestInv, LastIsLatest
<1>3. /\ latest \in OrNone /\ 0 \notin Configs /\ Configs \subseteq OrNone
      /\ rebuilding \subseteq Configs /\ closing \subseteq Configs /\ watching \subseteq Configs
      /\ unready \subseteq watching
      /\ \A c \in OrNone : c # 0 => c \in Configs
  BY ConfigsAreNumbers DEF Typed, ConfigTyped, CustomTyped, BundleTyped
<1>4. \A b \in running : b.config \in Configs /\ b.id # 0
  BY DEF Typed, CustomTyped
<1>5. ASSUME NEW i \in resolving, NEW k \in Kinds \ {"none"}, Resolve(i, k)
      PROVE  LastIsLatest'
  <2>1. /\ i \in Configs /\ latest' = i
        /\ esbuild'[i] = "starting" /\ esbuild[i] = "none"
        /\ \A c \in Configs \ {i} : esbuild'[c] = IF c = cleanup /\ esbuild[c] = "watching"
                                                  THEN Ended(c) ELSE esbuild[c]
    BY <1>5, ResolveFacts DEF FreshInv, Typed, ConfigTyped
  <2>2. i \in closing' /\ rebuilding' = rebuilding /\ rebuilding \subseteq late'
    BY <1>5 DEF Resolve, OnConfigUpdate
  <2>3. RebuildsAreLive'
    BY <2>2 DEF RebuildsAreLive, Undisturbed
  <2>4. BuildsAreLatest' /\ CustomIsLast' /\ EsbuildIsLast' /\ latest' # 0
    BY <1>3, <2>1, <2>2 DEF BuildsAreLatest, CustomIsLast, EsbuildIsLast
  <2> QED
    BY <2>3, <2>4 DEF LastIsLatest
<1>6. ASSUME NEW c \in Configs, Watch(c)
      PROVE  LastIsLatest'
  <2>1. /\ UNCHANGED <<latest, kind, failed, running, last, esbuild, rebuilding, current>>
        /\ closing' = closing \ {c} /\ c \in closing /\ aborter' = 0
        /\ kind[c] = "custom" => c \in unready'
    BY <1>6 DEF Watch
  <2>2. c = latest
    BY <1>1, <2>1 DEF Starting
  <2>3. BuildsAreLatest' /\ RebuildsAreLive'
    BY <1>2, <1>4, <2>1 DEF BuildsAreLatest, RebuildsAreLive, Rebuildable
  <2>4. CustomIsLast' /\ EsbuildIsLast'
    BY <1>2, <2>1, <2>2 DEF CustomIsLast, EsbuildIsLast, Event
  <2> QED
    BY <1>2, <2>1, <2>3, <2>4 DEF LastIsLatest, Event
<1>7. ASSUME NEW c \in Configs, Ready(c) \/ Changed(c)
      PROVE  LastIsLatest'
  <2> DEFINE b == [id |-> started + 1, config |-> c, stage |-> "command"]
  <2>1. /\ UNCHANGED <<latest, kind, failed, closing, last, esbuild, rebuilding, current>>
        /\ running' = running \cup {b} /\ aborter' = started + 1 /\ c \in watching
    BY <1>7, <1>3 DEF Ready, Changed, RunCustomBuild
  <2>2. c = latest
    BY <1>1, <2>1 DEF Live
  <2>3. b.config = c /\ b.id = started + 1 /\ \A d \in running : d.id # started + 1
    BY DEF Typed, CustomTyped
  <2> HIDE DEF b
  <2>4. BuildsAreLatest' /\ RebuildsAreLive'
    BY <1>2, <2>1, <2>2, <2>3 DEF BuildsAreLatest, RebuildsAreLive, Rebuildable
  <2>5. CustomIsLast' /\ EsbuildIsLast'
    BY <1>2, <2>1, <2>2, <2>3 DEF CustomIsLast, EsbuildIsLast, Event
  <2> QED
    BY <1>2, <2>1, <2>4, <2>5 DEF LastIsLatest, Event
<1>8. ASSUME NEW b \in running, CommandDone(b)
      PROVE  LastIsLatest'
  <2> DEFINE d == [b EXCEPT !.stage = "bundle"]
  <2>1. /\ UNCHANGED <<latest, kind, failed, closing, unready, aborter, last, esbuild,
                       rebuilding, current>>
        /\ running' = IF b.id = aborter THEN (running \ {b}) \cup {d} ELSE running \ {b}
    BY <1>8 DEF CommandDone
  <2>2. d.config = b.config /\ d.id = b.id
    BY DEF Typed, CustomTyped
  <2> HIDE DEF d
  <2>3. BuildsAreLatest' /\ RebuildsAreLive'
    BY <1>2, <2>1, <2>2 DEF BuildsAreLatest, RebuildsAreLive, Rebuildable
  <2>4. CustomIsLast' /\ EsbuildIsLast'
    BY <1>2, <2>1, <2>2 DEF CustomIsLast, EsbuildIsLast, Event
  <2> QED
    BY <1>2, <2>1, <2>3, <2>4 DEF LastIsLatest, Event
<1>9. ASSUME NEW b \in running, BundleDone(b)
      PROVE  LastIsLatest'
  <2>1. /\ UNCHANGED <<latest, kind, failed, closing, unready, aborter, esbuild,
                       rebuilding, current>>
        /\ running' = running \ {b}
        /\ last' = IF b.id = aborter THEN Event(b.config, b.config) ELSE last
    BY <1>9 DEF BundleDone, Superseded, Complete
  <2>2. BuildsAreLatest' /\ RebuildsAreLive'
    BY <1>2, <2>1 DEF BuildsAreLatest, RebuildsAreLive, Rebuildable
  <2>3. b.id = aborter => latest \in closing \/ b.config = latest
    BY <1>2 DEF BuildsAreLatest
  <2>4. b.id = aborter => latest \in Configs
    BY <1>3, <1>4, <2>3
  <2>5. latest \in closing => \/ esbuild[latest] # "watching" \/ kind[latest] = "custom"
                              \/ latest \in failed
    BY <1>2, <1>3 DEF EsbuildIsLast
  <2>6. CustomIsLast'
    BY <1>2, <2>1, <2>3 DEF CustomIsLast, Event
  <2>7. EsbuildIsLast'
    BY <1>2, <2>1, <2>3, <2>5 DEF EsbuildIsLast, Event
  <2> QED
    BY <1>2, <1>3, <2>1, <2>2, <2>4, <2>6, <2>7 DEF LastIsLatest, Event
<1>10. ASSUME NEW b \in running, CustomBuildFails(b)
       PROVE  LastIsLatest'
  <2>1. /\ UNCHANGED <<latest, kind, closing, unready, aborter, last, esbuild,
                       rebuilding, current>>
        /\ running' = running \ {b} /\ failed' = failed \cup {b.config}
    BY <1>10 DEF CustomBuildFails
  <2> QED
    BY <1>2, <2>1
    DEF LastIsLatest, BuildsAreLatest, RebuildsAreLive, Rebuildable, CustomIsLast,
        EsbuildIsLast, Event
<1>11. ASSUME NEW c \in Configs, StartBuild(c) \/ FirstBuilt(c) \/ FirstFails(c)
       PROVE  LastIsLatest'
  <2>1. /\ UNCHANGED <<latest, kind, closing, unready, running, aborter, last,
                       rebuilding, current>>
        /\ failed \subseteq failed'
    BY <1>11 DEF StartBuild, FirstBuilt, FirstFails
  <2>2. /\ esbuild[c] \in {"starting", "first", "built"}
        /\ FirstFails(c) => c \in failed'
        /\ ~FirstFails(c) => esbuild[c] \in {"starting", "first"}
        /\ FirstFails(c) /\ kind[c] # "noBundle" => esbuild'[c] = "broken"
        /\ ~FirstFails(c) /\ kind[c] # "custom" => esbuild'[c] \in {"first", "built"}
        /\ \A d \in Configs \ {c} : esbuild'[d] = esbuild[d]
    BY <1>11, BuildFacts DEF FirstFails, Typed, BundleTyped
  <2>3. c = latest
    BY <1>1, <2>2 DEF Starting
  <2>4. esbuild'[c] # "broken"
    BY DEF Undisturbed, Unstoppable
  <2>5. BuildsAreLatest' /\ RebuildsAreLive'
    BY <1>2, <1>3, <2>1, <2>2, <2>4 DEF BuildsAreLatest, RebuildsAreLive, Rebuildable
  <2>6. CustomIsLast' /\ EsbuildIsLast'
    BY <1>2, <2>1, <2>2, <2>3, <2>4 DEF CustomIsLast, EsbuildIsLast, Event
  <2> QED
    BY <1>2, <2>1, <2>5, <2>6 DEF LastIsLatest, Event
<1>12. ASSUME NEW c \in Configs, SetBundle(c)
       PROVE  LastIsLatest'
  <2>1. /\ UNCHANGED <<latest, kind, failed, closing, unready, running, aborter, rebuilding>>
        /\ last' = Event(c, c) /\ current' = c
        /\ overtaken' = overtaken \cup (closing \cap {c})
    BY <1>12 DEF SetBundle, Complete
  <2>2. /\ esbuild[c] = "built" /\ esbuild'[c] = "watching"
        /\ \A d \in Configs \ {c} : esbuild'[d] = esbuild[d]
    BY <1>12, BuildFacts
  <2>3. c = latest /\ c \notin closing
    BY <1>1, <2>1, <2>2 DEF Starting, Undisturbed, Unstoppable
  <2>4. BuildsAreLatest' /\ RebuildsAreLive'
    BY <1>2, <1>3, <2>1, <2>2 DEF BuildsAreLatest, RebuildsAreLive, Rebuildable
  <2>5. CustomIsLast' /\ EsbuildIsLast' /\ latest' # 0
    BY <1>3, <2>1, <2>2, <2>3 DEF CustomIsLast, EsbuildIsLast, Event
  <2> QED
    BY <2>4, <2>5 DEF LastIsLatest
<1>13. ASSUME NEW c \in Configs, UpdateBundle(c)
       PROVE  LastIsLatest'
  <2>1. /\ UNCHANGED <<latest, kind, failed, closing, unready, running, aborter, esbuild,
                       current>>
        /\ last' = Event(c, current) /\ rebuilding' \subseteq rebuilding /\ c \in rebuilding
    BY <1>13 DEF UpdateBundle, Complete
  <2>2. esbuild[c] \in {"built", "watching"}
    BY <1>2, <2>1 DEF RebuildsAreLive, Rebuildable
  <2>3. c = latest /\ latest # 0
    BY <1>1, <1>3, <2>2 DEF Live
  <2>4. kind[c] # "custom"
    BY <2>2 DEF FreshInv
  <2>5. BuildsAreLatest' /\ RebuildsAreLive'
    BY <1>2, <2>1 DEF BuildsAreLatest, RebuildsAreLive, Rebuildable
  <2>6. CustomIsLast' /\ EsbuildIsLast'
    BY <1>2, <2>1, <2>2, <2>3, <2>4 DEF CustomIsLast, EsbuildIsLast, Event
  <2> QED
    BY <2>1, <2>3, <2>5, <2>6 DEF LastIsLatest
<1>14. CASE /\ UNCHANGED <<latest, kind, closing, unready, running, aborter, esbuild,
                           current, last>>
            /\ failed \subseteq failed'
            /\ \A c \in rebuilding' : c \in rebuilding \/ Rebuildable(c)
  BY <1>2, <1>14
  DEF LastIsLatest, BuildsAreLatest, RebuildsAreLive, Rebuildable, CustomIsLast,
      EsbuildIsLast, Event
<1>15. ASSUME NEW c \in Configs, Rebuild(c) \/ RebuildIgnored(c)
       PROVE  LastIsLatest'
  <2>1. esbuild[c] \notin {"broken", "orphaned"}
    BY <1>1 DEF Undisturbed, Unstoppable
  <2> QED
    BY <1>14, <1>15, <2>1 DEF Rebuild, RebuildIgnored, Rebuildable
<1>16. ASSUME NEW i \in resolving, ResolveAborted(i) \/ ResolveFails(i)
       PROVE  LastIsLatest'
  BY <1>14, <1>16 DEF ResolveAborted, ResolveFails
<1>17. CASE UpdateConfig \/ UNCHANGED vars
  BY <1>14, <1>17 DEF UpdateConfig, vars
<1>18. ~Teardown
  BY DEF Teardown, Undisturbed
<1>19. ASSUME NEW c \in Configs, SetBundleFails(c)
       PROVE  LastIsLatest'
  <2>1. /\ UNCHANGED <<latest, kind, closing, unready, running, aborter, last, rebuilding,
                       current>>
        /\ failed' = failed \cup {c}
    BY <1>19 DEF SetBundleFails
  <2>2. /\ esbuild[c] = "built" /\ esbuild'[c] = "watching"
        /\ \A d \in Configs \ {c} : esbuild'[d] = esbuild[d]
    BY <1>19, BuildFacts
  <2>3. c = latest
    BY <1>1, <2>2 DEF Starting
  <2>4. BuildsAreLatest' /\ RebuildsAreLive'
    BY <1>2, <1>3, <2>1, <2>2 DEF BuildsAreLatest, RebuildsAreLive, Rebuildable
  <2>5. CustomIsLast' /\ EsbuildIsLast'
    BY <1>2, <2>1, <2>3 DEF CustomIsLast, EsbuildIsLast, Event
  <2> QED
    BY <1>2, <2>1, <2>4, <2>5 DEF LastIsLatest, Event
<1> QED
  BY <1>5, <1>6, <1>7, <1>8, <1>9, <1>10, <1>11, <1>12, <1>13, <1>15, <1>16, <1>17, <1>18,
     <1>19
  DEF Next, ConfigStep, CustomStep, EsbuildStep

(* When all is quiet the last bundleComplete is the newest configuration's,
   with its own bundle, in whatever order builds of old configurations end,
   as long as no configuration was overtaken while it started, left anything
   behind or was superseded in the middle of a rebuild. *)
THEOREM LastBundleIsLatest == Spec => []RestsOnLatestConfig
<1>1. Typed /\ FreshInv /\ RestInv => RestsOnLatestConfig
  <2> SUFFICES ASSUME Typed, FreshInv, RestInv, AtRest, ~torn,
                      Unstoppable \cup late = {}, input \notin failed
               PROVE  latest = input /\ last = Event(input, input)
    BY DEF RestsOnLatestConfig
  <2>1. resolving = {} /\ closing = {} /\ unready = {} /\ running = {} /\ Starting = {}
    BY DEF AtRest
  <2>2. latest = input
    BY <2>1 DEF FreshInv
  <2>3. LastIsLatest
    BY DEF RestInv, Undisturbed
  <2>4. latest # 0 => esbuild[latest] \notin {"starting", "first", "built"}
    BY <2>1, ConfigsAreNumbers DEF Starting, Typed, ConfigTyped
  <2> QED
    BY <2>1, <2>2, <2>3, <2>4 DEF LastIsLatest, CustomIsLast, EsbuildIsLast
<1>2. Init => RestInv
  BY ConfigsAreNumbers
  DEF Init, RestInv, LastIsLatest, BuildsAreLatest, RebuildsAreLive, CustomIsLast, EsbuildIsLast
<1> QED
  BY <1>1, <1>2, InitTyped, InitFreshLeak, TypedStep, FreshStep, LeakStep, RestStep, PTL
  DEF Spec

=============================================================================
