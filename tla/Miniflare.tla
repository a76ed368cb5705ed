----------------------------- MODULE Miniflare ------------------------------
(***************************************************************************)
(* The life of a Miniflare instance (packages/miniflare/src/index.ts and   *)
(* runtime/index.ts): the constructor and setOptions queue updates on the  *)
(* runtime mutex, each of which assembles a configuration, kills the       *)
(* workerd process and starts another; dispatchFetch and the like wait for *)
(* the updates to drain; dispose stops everything.                         *)
(*                                                                         *)
(* Options are numbered in the order they are given, 0 to the constructor, *)
(* and processes in the order they are started.  What the options say is   *)
(* abstract.  Continuations of settled promises run before the next event  *)
(* from outside: an action that models such an event has the guard         *)
(* Quiescent.                                                              *)
(***************************************************************************)
EXTENDS Naturals, Sequences, SequencesExt

CONSTANTS
  Calls,          \* calls of methods that await ready, at the same time
  MaxOptions,     \* bound on the calls of setOptions
  UpdatesCanFail, \* may options be refused, or workerd exit at its start?
  ReusesPort      \* does a new process listen on the port of the old one?

ASSUME MiniflareAssumption ==
  /\ MaxOptions \in Nat
  /\ {UpdatesCanFail, ReusesPort} \subseteq BOOLEAN

VARIABLES
  issued,     \* the options given last
  jobs,       \* #runtimeMutex: the updates that hold it (the head) or wait
  stage,      \* what the head of jobs awaits
  options,    \* #sharedOpts and #workerOpts
  init,       \* #initPromise
  process,    \* #runtime's process: its number, options and state
  entry,      \* #runtimeEntryURL: the process it was made for, 0 if none
  loopback,   \* #loopbackServer
  aborted,    \* #disposeController.signal.aborted
  disposing,  \* what dispose awaits
  calls,      \* calls[c]: what the call awaits, the options given before it,
              \* and the process it was sent to
  failed      \* the options whose update failed (history)

updates == <<issued, jobs, stage, options, failed>>
lifecycle == <<updates, init, process, entry, loopback, aborted, disposing, calls>>

-----------------------------------------------------------------------------
NoCall == [stage |-> "idle", requested |-> 0, gen |-> 0]

LifecycleInit ==
  /\ issued = 0
  /\ jobs = <<0>>
  /\ stage = "begin"
  /\ options = 0
  /\ init = "pending"
  /\ process = [gen |-> 0, options |-> 0, state |-> "exited"]
  /\ entry = 0
  /\ loopback = "none"
  /\ aborted = FALSE
  /\ disposing = "no"
  /\ calls = [c \in Calls |-> NoCall]
  /\ failed = {}

\* A method's continuation is due: its promise has settled.
Due(c) == \/ calls[c].stage = "woken"
          \/ calls[c].stage = "init" /\ init # "pending"

\* No continuation is due.  (Those of getBindings await the file system.)
Quiescent(lazy) == \A c \in Calls \ lazy : ~Due(c)

\* A request sent now is accepted by the process.
Reaches == /\ process.state = "listening"
           /\ ReusesPort \/ entry = process.gen

-----------------------------------------------------------------------------
(* The updates. *)

\* setOptions queues an update; the mutex is held at once if it is free.
SetOptions ==
  /\ ~aborted
  /\ issued < MaxOptions
  /\ issued' = issued + 1
  /\ jobs' = Append(jobs, issued + 1)
  /\ stage' = IF jobs = <<>> THEN "begin" ELSE stage
  /\ UNCHANGED <<options, failed, init, process, entry, loopback, aborted,
                 disposing, calls>>

\* Mutant: only the first of those that wait for the mutex to drain is woken.
Drain_First ==
  LET waiting == {c \in Calls : calls[c].stage = "drain"}
  IN  /\ calls' = [c \in Calls |->
                     IF waiting # {} /\ c = CHOOSE d \in waiting : TRUE
                     THEN [calls[c] EXCEPT !.stage = "woken"] ELSE calls[c]]
      /\ disposing' = IF disposing = "drain" THEN "cleanup" ELSE disposing

\* unlock with nobody waiting for the mutex resolves the drainQueue.
Drain ==
  /\ calls' = [c \in Calls |-> IF calls[c].stage = "drain"
                               THEN [calls[c] EXCEPT !.stage = "woken"]
                               ELSE calls[c]]
  /\ disposing' = IF disposing = "drain" THEN "cleanup" ELSE disposing

\* Mutant: the mutex goes to the update that came last.
Unlock_LastFirst ==
  LET rest == Tail(jobs)
  IN  /\ jobs' = IF rest = <<>> THEN rest
                 ELSE <<Last(rest)>> \o Front(rest)
      /\ stage' = IF rest = <<>> THEN "idle" ELSE "begin"
      /\ IF rest = <<>> THEN Drain ELSE UNCHANGED <<calls, disposing>>

\* The head of jobs is done, and the next update holds the mutex.
Unlock ==
  /\ jobs' = Tail(jobs)
  /\ stage' = IF Len(jobs) = 1 THEN "idle" ELSE "begin"
  /\ IF Len(jobs) = 1 THEN Drain ELSE UNCHANGED <<calls, disposing>>

\* The head of jobs returns (ok) or throws; the first one settles #initPromise.
EndUpdate(ok) ==
  /\ Unlock
  /\ failed' = IF ok THEN failed ELSE failed \cup {Head(jobs)}
  /\ init' = IF Head(jobs) # 0 THEN init
             ELSE IF ok THEN "resolved" ELSE "rejected"

\* #setOptions: validateOptions may throw; the new options are taken over and
\* the loopback server is started unless it runs.
Begin ==
  /\ stage = "begin"
  /\ options' = Head(jobs)
  /\ stage' = "assemble"
  /\ loopback' = "open"
  /\ UNCHANGED <<issued, jobs, failed, init, process, entry, aborted, disposing, calls>>

\* validateOptions refuses the options of setOptions.
Refuse ==
  /\ UpdatesCanFail
  /\ stage = "begin"
  /\ Head(jobs) # 0
  /\ EndUpdate(FALSE)
  /\ UNCHANGED <<issued, options, process, entry, loopback, aborted>>

\* #assembleConfig is done, and Runtime.updateConfig kills the old process.
Assemble ==
  /\ stage = "assemble"
  /\ process' = [process EXCEPT !.state = "exited"]
  /\ stage' = "spawn"
  /\ UNCHANGED <<issued, jobs, options, failed, init, entry, loopback, aborted,
                 disposing, calls>>

\* #assembleConfig throws, and the old process runs on.
AssembleFails ==
  /\ UpdatesCanFail
  /\ stage = "assemble"
  /\ EndUpdate(FALSE)
  /\ UNCHANGED <<issued, options, process, entry, loopback, aborted>>

\* The old process has exited, and a new one is started.
Spawn ==
  /\ stage = "spawn"
  /\ process' = [gen |-> process.gen + 1, options |-> options, state |-> "starting"]
  /\ stage' = "ports"
  /\ UNCHANGED <<issued, jobs, options, failed, init, entry, loopback, aborted,
                 disposing, calls>>

\* waitForPorts has all ports.
Started ==
  /\ stage = "ports"
  /\ ~aborted
  /\ process.state = "listening"
  /\ entry' = process.gen
  /\ EndUpdate(TRUE)
  /\ UNCHANGED <<issued, options, process, loopback, aborted>>

\* The control pipe ends without them: ERR_RUNTIME_FAILURE.
StartFails ==
  /\ stage = "ports"
  /\ ~aborted
  /\ process.state = "exited"
  /\ EndUpdate(FALSE)
  /\ UNCHANGED <<issued, options, process, entry, loopback, aborted>>

\* dispose closes the reader of the control pipe, and the update just returns.
StartAborted ==
  /\ stage = "ports"
  /\ aborted
  /\ EndUpdate(TRUE)
  /\ UNCHANGED <<issued, options, process, entry, loopback, aborted>>

-----------------------------------------------------------------------------
(* The workerd process (external). *)

Listen ==
  /\ process.state = "starting"
  /\ process' = [process EXCEPT !.state = "listening"]
  /\ UNCHANGED <<updates, init, entry, loopback, aborted, disposing, calls>>

\* workerd cannot start, or stops on its own; nobody restarts it.
Exit ==
  /\ UpdatesCanFail
  /\ process.state # "exited"
  /\ process' = [process EXCEPT !.state = "exited"]
  /\ UNCHANGED <<updates, init, entry, loopback, aborted, disposing, calls>>

-----------------------------------------------------------------------------
(* Methods that wait for ready. *)

SetStage(c, s) == calls' = [calls EXCEPT ![c].stage = s]

\* dispatchFetch, _getProxyClient and others: #checkDisposed, then ready.
Call(c) ==
  /\ calls[c] = NoCall
  /\ ~aborted
  /\ calls' = [calls EXCEPT ![c] = [stage |-> "init", requested |-> issued, gen |-> 0]]
  /\ UNCHANGED <<updates, init, process, entry, loopback, aborted, disposing>>

\* Mutant: ready does not wait for the updates to drain.
AwaitInit_NoDrain(c) ==
  /\ calls[c].stage = "init"
  /\ init # "pending"
  /\ calls' = [calls EXCEPT ![c] = IF init = "rejected" THEN NoCall
                                   ELSE [calls[c] EXCEPT !.stage = "woken"]]
  /\ UNCHANGED <<updates, init, process, entry, loopback, aborted, disposing>>

\* #waitForReady: once #initPromise is settled, wait for the mutex to drain.
AwaitInit(c) ==
  /\ calls[c].stage = "init"
  /\ init # "pending"
  /\ calls' = [calls EXCEPT ![c] = IF init = "rejected" THEN NoCall
                                   ELSE [calls[c] EXCEPT !.stage = IF jobs = <<>>
                                                                   THEN "woken"
                                                                   ELSE "drain"]]
  /\ UNCHANGED <<updates, init, process, entry, loopback, aborted, disposing>>

\* Ready: throw if disposed by now, else send the request to the entry URL.
Send(c) ==
  /\ calls[c].stage = "woken"
  /\ calls' = [calls EXCEPT ![c] = IF ~aborted /\ Reaches
                                   THEN [calls[c] EXCEPT !.stage = "sent",
                                                         !.gen = process.gen]
                                   ELSE NoCall]
  /\ UNCHANGED <<updates, init, process, entry, loopback, aborted, disposing>>

\* The process that has the request still runs.
IsServed(c) == /\ calls[c].stage = "sent"
               /\ process.gen = calls[c].gen
               /\ process.state = "listening"

\* The call returns with an answer, or with a network error.
Return(c) ==
  /\ calls[c].stage = "sent"
  /\ calls' = [calls EXCEPT ![c] = NoCall]
  /\ UNCHANGED <<updates, init, process, entry, loopback, aborted, disposing>>

-----------------------------------------------------------------------------
(* dispose. *)

Dispose ==
  /\ disposing = "no"
  /\ aborted' = TRUE
  /\ disposing' = "init"
  /\ UNCHANGED <<updates, init, process, entry, loopback, calls>>

\* Mutant: dispose does not wait for the updates to drain.
DisposeReady_NoDrain ==
  /\ disposing = "init"
  /\ init # "pending"
  /\ disposing' = "cleanup"
  /\ UNCHANGED <<updates, init, process, entry, loopback, aborted, calls>>

\* #waitForReady(disposing): on to the finally block at once if the constructor's
\* update threw, otherwise when all updates are done.
DisposeReady ==
  /\ disposing = "init"
  /\ init # "pending"
  /\ disposing' = IF init = "rejected" \/ jobs = <<>> THEN "cleanup" ELSE "drain"
  /\ UNCHANGED <<updates, init, process, entry, loopback, aborted, calls>>

\* The proxy client is disposed, and then the runtime: its process is killed.
DisposeRuntime ==
  /\ disposing = "cleanup"
  /\ process' = [process EXCEPT !.state = "exited"]
  /\ disposing' = "stopping"
  /\ UNCHANGED <<updates, init, entry, loopback, aborted, calls>>

\* The loopback server is stopped, and the temporary directory removed.
Disposed ==
  /\ disposing = "stopping"
  /\ loopback' = "closed"
  /\ disposing' = "done"
  /\ UNCHANGED <<updates, init, process, entry, aborted, calls>>

-----------------------------------------------------------------------------
\* What an update awaits is settled from outside.
Update == \/ Begin \/ Refuse \/ Assemble \/ AssembleFails \/ Spawn
          \/ Started \/ StartFails \/ StartAborted

DisposeStep == DisposeReady \/ DisposeRuntime \/ Disposed

-----------------------------------------------------------------------------
CallStages == {"idle", "args", "init", "drain", "woken", "sent", "answered"}

\* Type correctness of the lifecycle.
LifecycleTypeOK ==
  /\ issued \in Nat
  /\ jobs \in Seq(Nat)
  /\ stage \in {"idle", "begin", "assemble", "spawn", "ports"}
  /\ options \in Nat
  /\ init \in {"pending", "resolved", "rejected"}
  /\ process \in [gen : Nat, options : Nat,
                  state : {"starting", "listening", "exited"}]
  /\ entry \in Nat
  /\ loopback \in {"none", "open", "closed"}
  /\ aborted \in BOOLEAN
  /\ disposing \in {"no", "init", "drain", "cleanup", "stopping", "done"}
  /\ calls \in [Calls -> [stage : CallStages, requested : Nat, gen : Nat]]
  /\ failed \subseteq Nat

(* Updates are applied in calling order ("this essentially puts initialisation
   and future updates in a queue"): at rest, unless the last update failed, the
   process was started with the options given last, though setOptions may be
   called at any point of earlier updates, and the entry URL is its own. *)
RestsOnLatestOptions ==
  jobs = <<>> /\ ~aborted /\ issued \notin failed =>
    /\ options = issued
    /\ process.options = issued
    /\ entry = process.gen

(* A request is served with the options given before dispatchFetch was called,
   or later ones, even if nobody awaited setOptions ("wait for runtime mutex to
   drain (i.e. all options updates applied)"), unless their update failed. *)
RequestsSeeTheirOptions ==
  \A c \in Calls : IsServed(c) =>
    \A o \in (process.options + 1)..calls[c].requested : o \in failed

(* dispose leaves neither a process nor a server nor an update behind that
   would start one, provided that the constructor's update did not throw. *)
NothingLeftAfterDispose ==
  disposing = "done" /\ init # "rejected" =>
    /\ jobs = <<>>
    /\ process.state = "exited"
    /\ loopback = "closed"

(* Nobody waits for a drain that nobody signals: while a call or dispose waits
   for the mutex to drain, some update holds it, though updates are queued, fail
   or are aborted meanwhile, and one drain wakes everybody. *)
DrainIsSignalled ==
  (disposing = "drain" \/ \E c \in Calls : calls[c].stage = "drain") => jobs # <<>>

=============================================================================
