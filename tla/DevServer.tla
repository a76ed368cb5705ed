------------------------------ MODULE DevServer ------------------------------
(***************************************************************************)
(* The reload pipeline of `wrangler dev`: the runtime controllers          *)
(* (LocalRuntimeController.ts, RemoteRuntimeController.ts), the            *)
(* ProxyController and the ProxyWorker, wired together by DevEnv.ts        *)
(* (packages/wrangler/src/api/startDevWorker).                             *)
(*                                                                         *)
(* Every bundleComplete event gives both runtimes the next bundle id; one  *)
(* of them reloads it and the other one shuts down.  Reloads run one at a  *)
(* time under the runtime's mutex and await Miniflare, or the network,     *)
(* several times.  The ProxyController turns reloadStart into a pause and  *)
(* reloadComplete into a play message, which a mutex of its own delivers   *)
(* one at a time.  A failed delivery is retried by sending the message     *)
(* again, at the end of the queue.                                         *)
(*                                                                         *)
(* A bundle stands for the proxyData that its reload produces.             *)
(***************************************************************************)
EXTENDS ProxyWorker, Naturals, Sequences

CONSTANTS
  MaxBundles,        \* bound: bundleComplete events
  MaxStarts,         \* bound: bundleStart and configUpdate events
  Retries,           \* default of sendMessageToProxyWorker's retries
  RemoteModes,       \* values of config.dev.remote
  HasEntrypoints,    \* does the local worker have named entrypoints?
  MessagesCanFail    \* may dispatchFetch to the ProxyWorker reject?

ASSUME DevServerAssumption ==
  /\ MaxBundles \in Nat
  /\ MaxStarts \in Nat
  /\ Retries \in Nat
  /\ RemoteModes \subseteq BOOLEAN
  /\ {HasEntrypoints, MessagesCanFail} \subseteq BOOLEAN
  /\ ProxyData = 1..MaxBundles

VARIABLES
  currentBundleId,   \* #currentBundleId, the same in both runtimes
  jobs,              \* jobs[rt]: closures holding (head) or awaiting rt's #mutex
  stage,             \* stage[rt]: how far the head of jobs[rt] has come
  installed,         \* the last bundle given to each runtime (0: shut down)
  messages,          \* closures holding (head) or awaiting runtimeMessageMutex
  ready,             \* has the ready promise of the ProxyWorker resolved?
  torndown,          \* DevEnv.teardown: "no", "begun", or "complete"
  starts,            \* bundleStart and configUpdate events so far
  lastSent,          \* the last message sent, initially a pause (history)
  failed,            \* bundles whose reload failed (history)
  announced          \* newest bundle whose reloadStart paused the proxy (history)

pipeline ==
  <<currentBundleId, jobs, stage, installed, messages, ready, torndown, starts,
    lastSent, failed, announced>>
vars == <<proxyVars, pipeline>>

Runtimes == {"local", "remote"}
Stages == {"waiting", "updating", "checked"}
Job == [op : {"reload", "teardown", "close"}, id : 0..MaxBundles]
Message == [type : {"pause", "play"}, bundle : 0..MaxBundles, retries : 0..Retries]

Reload(id) == [op |-> "reload", id |-> id]
Teardown == [op |-> "teardown", id |-> 0]
Close == [op |-> "close", id |-> 0]    \* DevEnv's teardown

\* The pause sent for reloadStart of a bundle, or for another event (0), and the
\* play message sent for reloadComplete.
PauseFor(bundle) == [type |-> "pause", bundle |-> bundle, retries |-> Retries]
PlayFor(bundle) == [type |-> "play", bundle |-> bundle, retries |-> Retries]

Init ==
  /\ ProxyInit
  /\ currentBundleId = 0
  /\ jobs = [rt \in Runtimes |-> <<>>]
  /\ stage = [rt \in Runtimes |-> "waiting"]
  /\ installed = [rt \in Runtimes |-> 0]
  /\ messages = <<>>
  /\ ready = FALSE
  /\ torndown = "no"
  /\ starts = 0
  /\ lastSent = PauseFor(0)
  /\ failed = {}
  /\ announced = 0

-----------------------------------------------------------------------------
(* ProxyController *)

\* Mutant: a message overtakes those that are waiting.
Send_First(m) ==
  IF torndown = "no"
  THEN /\ messages' = <<m>> \o messages
       /\ lastSent' = m
  ELSE UNCHANGED <<messages, lastSent>>

\* sendMessageToProxyWorker
Send(m) ==
  IF torndown = "no"
  THEN /\ messages' = Append(messages, m)
       /\ lastSent' = m
  ELSE UNCHANGED <<messages, lastSent>>

\* createProxyWorker: changed options restart the ProxyWorker's Miniflare, and
\* messages wait for its new ready promise.
CreateProxyWorker(optionsChanged) ==
  ready' = IF torndown = "no" /\ optionsChanged THEN FALSE ELSE ready

\* onConfigUpdate
ConfigUpdate(optionsChanged) ==
  /\ torndown # "complete"
  /\ starts < MaxStarts
  /\ starts' = starts + 1
  /\ CreateProxyWorker(optionsChanged)
  /\ Send(PauseFor(0))
  /\ UNCHANGED <<proxyVars, currentBundleId, jobs, stage, installed, torndown,
                 failed, announced>>

\* Mutant: the fetches of the old process are kept.
ProxyWorkerReady_KeepsInFlight ==
  /\ starts > 0
  /\ torndown = "no"
  /\ ~ready
  /\ ready' = TRUE
  /\ proxyData' = Undefined
  /\ requestQueue' = {}
  /\ requestRetryQueue' = {}
  /\ response' = [r \in Requests |-> IF r \in Queued \cup InFlight
                                     THEN "error" ELSE response[r]]
  /\ UNCHANGED <<inFlight, sent, resent, currentBundleId, jobs, stage, installed,
                 messages, torndown, starts, lastSent, failed, announced>>

\* A new ProxyWorker process is up (emitReadyEvent).  It starts paused, and
\* the old one's clients are disconnected.
ProxyWorkerReady ==
  /\ starts > 0
  /\ torndown = "no"
  /\ ~ready
  /\ ready' = TRUE
  /\ proxyData' = Undefined
  /\ requestQueue' = {}
  /\ requestRetryQueue' = {}
  /\ inFlight' = [r \in Requests |-> Undefined]
  /\ response' = [r \in Requests |-> IF r \in Queued \cup InFlight
                                     THEN "error" ELSE response[r]]
  /\ UNCHANGED <<sent, resent, currentBundleId, jobs, stage, installed, messages,
                 torndown, starts, lastSent, failed, announced>>

\* The ProxyWorker handles the message.
Handle(m) ==
  /\ \/ m.type = "pause" /\ Pause
     \/ m.type = "play" /\ Play(m.bundle)
  /\ announced' = IF m.type = "pause" /\ m.bundle > announced THEN m.bundle ELSE announced

\* The head of the mutex has been dispatched, or dropped: Miniflare's ready
\* rejects only once the ProxyWorker is disposed, that is, by teardown.
Deliver ==
  /\ messages # <<>>
  /\ ready
  /\ messages' = Tail(messages)
  /\ IF torndown = "no" THEN Handle(Head(messages))
                        ELSE UNCHANGED <<proxyVars, announced>>
  /\ UNCHANGED <<currentBundleId, jobs, stage, installed, ready, torndown, starts, lastSent, failed>>

\* The catch-block of sendMessageToProxyWorker.
Resend(m, queue) ==
  IF torndown = "no" /\ m.retries > 0
  THEN Append(queue, [m EXCEPT !.retries = @ - 1])
  ELSE queue

\* dispatchFetch rejects; the message may have arrived nevertheless.
DeliveryFails ==
  /\ MessagesCanFail
  /\ messages # <<>>
  /\ ready
  /\ messages' = Resend(Head(messages), Tail(messages))
  /\ \/ UNCHANGED <<proxyVars, announced>>
     \/ torndown = "no" /\ Handle(Head(messages))
  /\ UNCHANGED <<currentBundleId, jobs, stage, installed, ready, torndown, starts, lastSent, failed>>

-----------------------------------------------------------------------------
(* The runtime controllers *)

\* bundleStart: the proxy pauses.  (The remote runtime also aborts the reload
\* that is under way, which is one way for it to fail.)
BundleStart ==
  /\ torndown # "complete"
  /\ 0 < starts /\ starts < MaxStarts
  /\ starts' = starts + 1
  /\ Send(PauseFor(0))
  /\ UNCHANGED <<proxyVars, currentBundleId, jobs, stage, installed, ready,
                 torndown, failed, announced>>

\* Mutant: the newest reload goes first.
BundleComplete_NewestFirst(remote) ==
  LET id == currentBundleId + 1
      mode == IF remote THEN "remote" ELSE "local"
  IN  /\ torndown # "complete"
      /\ starts > 0
      /\ id <= MaxBundles
      /\ currentBundleId' = id
      /\ jobs' = [rt \in Runtimes |->
                    <<IF rt = mode THEN Reload(id) ELSE Teardown>> \o jobs[rt]]
      /\ Send(PauseFor(id))
      /\ UNCHANGED <<proxyVars, stage, installed, ready, torndown, starts,
                     failed, announced>>

\* onBundleComplete of both runtimes.
BundleComplete(remote) ==
  LET id == currentBundleId + 1
      mode == IF remote THEN "remote" ELSE "local"
  IN  /\ torndown # "complete"
      /\ starts > 0
      /\ id <= MaxBundles
      /\ currentBundleId' = id
      /\ jobs' = [rt \in Runtimes |->
                    Append(jobs[rt], IF rt = mode THEN Reload(id) ELSE Teardown)]
      /\ Send(PauseFor(id))
      /\ UNCHANGED <<proxyVars, stage, installed, ready, torndown, starts,
                     failed, announced>>

Running(rt) == jobs[rt] # <<>>
Current(rt) == Head(jobs[rt])

\* The closure at the head ends and the mutex goes to the next one.
Unlock(rt) ==
  /\ jobs' = [jobs EXCEPT ![rt] = Tail(@)]
  /\ stage' = [stage EXCEPT ![rt] = "waiting"]

\* #teardown
TeardownRuntime(rt) ==
  /\ Running(rt) /\ Current(rt).op # "reload"
  /\ Unlock(rt)
  /\ installed' = [installed EXCEPT ![rt] = 0]
  /\ UNCHANGED <<proxyVars, currentBundleId, messages, ready, torndown, starts, lastSent,
                 failed, announced>>

\* #onBundleComplete: the bundle is handed to Miniflare or uploaded.
Install(rt) ==
  /\ Running(rt) /\ Current(rt).op = "reload" /\ stage[rt] = "waiting"
  /\ stage' = [stage EXCEPT ![rt] = "updating"]
  /\ installed' = [installed EXCEPT ![rt] = Current(rt).id]
  /\ UNCHANGED <<proxyVars, currentBundleId, jobs, messages, ready, torndown,
                 starts, lastSent, failed, announced>>

\* Mutant: ids are handed out before they are incremented.
Superseded_PostIncrement(rt) == Current(rt).id # currentBundleId + 1

Superseded(rt) == Current(rt).id # currentBundleId

\* A newer bundle has arrived: ignore this one.
Ignore(rt) ==
  /\ Running(rt) /\ stage[rt] = "updating"
  /\ Superseded(rt)
  /\ Unlock(rt)
  /\ UNCHANGED <<proxyVars, currentBundleId, installed, messages, ready, torndown,
                 starts, lastSent, failed, announced>>

\* The remote runtime awaits an access token after the check, the local one
\* the addresses of the entrypoints, if there are any.
AwaitsAfterCheck(rt) == rt = "remote" \/ HasEntrypoints

CheckNewest(rt) ==
  /\ Running(rt) /\ stage[rt] = "updating"
  /\ ~Superseded(rt)
  /\ AwaitsAfterCheck(rt)
  /\ stage' = [stage EXCEPT ![rt] = "checked"]
  /\ UNCHANGED <<proxyVars, currentBundleId, jobs, installed, messages, ready,
                 torndown, starts, lastSent, failed, announced>>

\* Mutant: the bundle id is not checked.
MayComplete_Unchecked(rt) ==
  \/ stage[rt] = "updating" /\ ~AwaitsAfterCheck(rt)
  \/ stage[rt] = "checked"

MayComplete(rt) ==
  \/ stage[rt] = "updating" /\ ~AwaitsAfterCheck(rt) /\ ~Superseded(rt)
  \/ stage[rt] = "checked"

\* reloadComplete
ReloadComplete(rt) ==
  /\ Running(rt) /\ MayComplete(rt)
  /\ Send(PlayFor(Current(rt).id))
  /\ Unlock(rt)
  /\ UNCHANGED <<proxyVars, currentBundleId, installed, ready, torndown, starts,
                 failed, announced>>

\* Mutant: reloadComplete is emitted although the reload failed.
ReloadFails_StillCompletes(rt) ==
  /\ Running(rt) /\ Current(rt).op = "reload"
  /\ Send(PlayFor(Current(rt).id))
  /\ Unlock(rt)
  /\ failed' = failed \cup {Current(rt).id}
  /\ UNCHANGED <<proxyVars, currentBundleId, installed, ready, torndown, starts, announced>>

\* The catch-block of #onBundleComplete, and a preview without a token.
ReloadFails(rt) ==
  /\ Running(rt) /\ Current(rt).op = "reload"
  /\ Unlock(rt)
  /\ failed' = failed \cup {Current(rt).id}
  /\ UNCHANGED <<proxyVars, currentBundleId, installed, messages, ready, torndown,
                 starts, lastSent, announced>>

-----------------------------------------------------------------------------
(* DevEnv *)

\* teardown, until its Promise.all.  ProxyController.teardown sets _torndown
\* and stops the ProxyWorker; the runtimes' teardowns queue for their mutex.
\* (RemoteRuntimeController.teardown takes effect at once.)
BeginTeardown ==
  /\ torndown = "no"
  /\ torndown' = "begun"
  /\ jobs' = [jobs EXCEPT !["local"] = Append(@, Close)]
  /\ installed' = [installed EXCEPT !["remote"] = 0]
  /\ UNCHANGED <<proxyVars, currentBundleId, stage, messages, ready, starts, lastSent,
                 failed, announced>>

\* Everything awaited has ended: the listeners are removed.
CompleteTeardown ==
  /\ torndown = "begun"
  /\ \A i \in DOMAIN jobs["local"] : jobs["local"][i] # Close
  /\ torndown' = "complete"
  /\ UNCHANGED <<proxyVars, currentBundleId, jobs, stage, installed, messages,
                 ready, starts, lastSent, failed, announced>>

\* Clients reach the ProxyWorker once it listens, until it is stopped.
Client(r) ==
  /\ torndown = "no"
  /\ \/ ready /\ Fetch(r)
     \/ Respond(r)
     \/ NetworkError(r)
  /\ UNCHANGED pipeline

Next ==
  \/ \E changed \in BOOLEAN : ConfigUpdate(changed)
  \/ ProxyWorkerReady
  \/ Deliver
  \/ DeliveryFails
  \/ BundleStart
  \/ \E remote \in RemoteModes : BundleComplete(remote)
  \/ \E rt \in Runtimes :
       \/ TeardownRuntime(rt)
       \/ Install(rt)
       \/ Ignore(rt)
       \/ CheckNewest(rt)
       \/ ReloadComplete(rt)
       \/ ReloadFails(rt)
  \/ BeginTeardown
  \/ CompleteTeardown
  \/ \E r \in Requests : Client(r)

Spec == Init /\ [][Next]_vars

\* The mutexes hand over, Miniflare and the network answer: whatever has been
\* started ends.
Fairness ==
  /\ WF_vars(ProxyWorkerReady)
  /\ WF_vars(Deliver \/ DeliveryFails)
  /\ \A rt \in Runtimes :
       WF_vars(\/ TeardownRuntime(rt) \/ Install(rt) \/ Ignore(rt)
               \/ CheckNewest(rt) \/ ReloadComplete(rt) \/ ReloadFails(rt))

FairSpec == Spec /\ Fairness

-----------------------------------------------------------------------------
\* Type correctness.
TypeOK ==
  /\ ProxyTypeOK
  /\ currentBundleId \in 0..MaxBundles
  /\ jobs \in [Runtimes -> Seq(Job)]
  /\ stage \in [Runtimes -> Stages]
  /\ installed \in [Runtimes -> 0..MaxBundles]
  /\ messages \in Seq(Message)
  /\ ready \in BOOLEAN
  /\ torndown \in {"no", "begun", "complete"}
  /\ starts \in 0..MaxStarts
  /\ lastSent \in Message
  /\ failed \subseteq ProxyData
  /\ announced \in 0..MaxBundles

AtRest ==
  /\ torndown = "no"
  /\ ready
  /\ messages = <<>>
  /\ \A rt \in Runtimes : ~Running(rt)

\* Once the ProxyWorker has been paused for the reload of a bundle, it never
\* proxies to an older one.
NeverPlaysSuperseded == proxyData # Undefined => proxyData >= announced

\* When nothing is left to be done, the ProxyWorker does not play an old bundle.
RestsOnLatest == AtRest /\ proxyData # Undefined => proxyData = currentBundleId

\* Messages are put into the mutex at once ("Don't do any async work here"), so
\* once all are delivered the ProxyWorker is as the last one asked it to be,
\* even if it was started anew in between.
FollowsController ==
  torndown = "no" /\ ready /\ messages = <<>> =>
    proxyData = IF lastSent.type = "play" THEN lastSent.bundle ELSE Undefined

\* A bundle that the runtime failed to load is never played.
NeverPlaysFailed ==
  /\ proxyData \notin failed
  /\ \A i \in DOMAIN messages :
       messages[i].type = "play" => messages[i].bundle \notin failed

\* "Wrap updates in a mutex, so they're always applied in invocation order": a
\* runtime is never given a bundle older than the one it runs.
UpdatesInOrder ==
  [][\A rt \in Runtimes :
       installed'[rt] # 0 => installed'[rt] >= installed[rt]]_vars

\* The last bundle is played in the end, unless its reload fails, the server is
\* torn down, or another build has started since, which need not complete.
EventuallyPlaysLatest ==
  <>[](\/ currentBundleId = 0
       \/ currentBundleId \in failed
       \/ torndown # "no"
       \/ lastSent = PauseFor(0)
       \/ proxyData = currentBundleId)

=============================================================================
