# Verification of the workers-sdk local development stack

TLA+ models of the stateful parts of this repository, the TLC runs that check
them on small instances, and TLAPS proofs of their main properties. Paths are
relative to the root of the repository.

The repository is a monorepo of Cloudflare Workers tooling. Most of its lines
are command-line handling, configuration, code generation and API calls, which
run once and keep no state. Two programs in it run for a long time and serve
many clients at once, and they are what is modelled:

- **Miniflare** (`packages/miniflare`) simulates the platform's storage and
  messaging services as Durable Objects inside a workerd process;
- **`wrangler dev`** (`packages/wrangler/src/api/startDevWorker`, and the
  Workers under `packages/wrangler/templates/startDevWorker`) rebuilds and
  reloads a Worker while requests to it are under way.

All of it is JavaScript: a callback runs to its next `await` without
interruption, and anything may happen at an `await`. So in every module **one
action is the code between two awaits**, and the interleavings of these actions
are the behaviours a unit test hardly reaches.

## 1. Inventory

### Miniflare

| Component | State | Operations | What is hard | What makes it correct |
|---|---|---|---|---|
| Queue broker (`workers/queues/broker.worker.ts`) | messages in memory, one pending flush with its timer, failed attempts | `message`, `batch`; timers of messages and of the flush; `#flush`: dispatch, retry, dead-letter queue | deliveries during a flush, flushes that overlap, timer handles overwritten by an ending flush, log calls and dead-letter requests that reject in the middle of a batch | no message lost or duplicated, none left without a flush, bounded attempts |
| R2 bucket (`workers/r2/bucket.worker.ts`) | tables of objects, multipart uploads and parts; wait groups of blobs being read | `put`, `delete`, `get`, `head`, `list`; create, upload part, complete, abort | a blob is written before its row is committed and deleted after its row is gone; streams of several parts; crashes in between | rows name blobs that exist and that nobody else owns; no mixed multipart objects; a put conditional on an ETag succeeds only where that ETag is |
| Blob store (`workers/shared/blob.worker.ts`) | immutable files under random ids | `put`, `get`, `delete` | writes and deletions take effect later than the database's | used by the two storages; its garbage is collected |
| Key-value storage (`workers/shared/keyvalue.worker.ts`) | table of entries with expirations, blobs | `put`, `get`, `delete`, `list` with cursors | expiry in three different queries; pages read while keys change; puts aborted half way; deletions that fail, crashes | entries and blobs agree; listings are complete and ordered; only `delete` removes a live entry |
| KV namespace, cache (`workers/kv`, `workers/cache`) | none of their own | HTTP interface to key-value storage | parsing and validation | (clients of the above) |
| Mutex, WaitGroup, timers (`workers/shared/sync.ts`, `timers.worker.ts`) | a FIFO of waiters, a counter, a clock | `runWith`, `add`, `done`, `wait` | hand-over to the next waiter | part of the models that use them |
| Miniflare lifecycle (`src/index.ts`, `src/runtime`) | options, the workerd process and its entry URL, a mutex of updates | constructor, `setOptions`, `ready`, `dispatchFetch`, `getBindings`, `dispose` | updates that nobody awaits, disposal during them, a process that fails to start | options applied in calling order, requests see the options given before them, nothing left after disposal |
| Proxy client and server (`plugins/core/proxy/client.ts`, `workers/core/proxy.worker.ts`) | a version, stubs in Node, a heap of objects in workerd, a batch of addresses to free | getting and calling stubs, poisoning, garbage collection | stubs and requests outlive the heap they refer to, addresses start anew | a stub that is not poisoned names its own object |
| Durable Object, D1, rate-limit and other plugins | mostly none | generation of configuration, adapters | - | not modelled |

### `wrangler dev`

| Component | State | Operations | What is hard | What makes it correct |
|---|---|---|---|---|
| ProxyWorker (`templates/startDevWorker/ProxyWorker.ts`) | `proxyData` (undefined when paused), queue of new requests, queue of retries | `fetch`, `pause`, `play`, `processQueue`, the callbacks of its fetches | callbacks run long after they captured `proxyData` | every request at one place, none held back while playing, no effect repeated |
| ProxyController (`ProxyController.ts`) | the ProxyWorker's Miniflare and its ready promise, a mutex of messages | messages with retries, restart with new options, teardown | failed messages, restarts while messages wait | the proxy does what was asked of it last |
| LocalRuntimeController, RemoteRuntimeController | id of the current bundle, a mutex of reloads, the runtime | `bundleStart`, `bundleComplete`, reload, teardown | bundles that complete during a reload; two runtimes when the mode switches | updates in order, superseded bundles ignored, the last bundle played in the end |
| DevEnv (`DevEnv.ts`) | the controllers | wiring of events, teardown | teardown concurrent with all of the above | - |
| ConfigController, BundlerController (`src/dev/use-esbuild.ts`) | the newest input and its abort signal; a file watcher with its build aborter, an esbuild context with its cleanup function, the current bundle | `set`, `patch`, custom builds, first builds, rebuilds, teardown | what an old configuration started runs on while promises are awaited | the last bundle is of the newest configuration, old watchers and contexts are stopped |
| InspectorProxyWorker (`templates/startDevWorker/InspectorProxyWorker.ts`) | WebSockets to DevTools and to the runtime, a deferred promise of the latter, a buffer of messages | reload, upgrade, messages in both directions | late events of old sockets; clients and commands that wait across reloads | one client, the newest runtime, messages neither lost nor reordered, whoever waits is answered |

How they interact: `ConfigController` emits `configUpdate`, `BundlerController`
`bundleStart` and `bundleComplete`; `DevEnv` hands these events to the runtime
controllers and to `ProxyController`. A runtime controller emits `reloadStart`
and `reloadComplete`, upon which `ProxyController` sends a pause or a play
message to the ProxyWorker, through a mutex and by HTTP. Inside Miniflare the
brokers call one another (dead-letter queues) and the two storages call the disk
service of workerd, which reads and writes the blobs. `LocalRuntimeController`
and `ProxyController` drive Miniflare instances through `setOptions` and
`dispose`; `ProxyController` tells the inspector proxy about reloads.

### The rest

`packages/workers-shared` (asset and router Workers) are stateless request
handlers, `packages/vitest-pool-workers` isolates storage by copying
directories, and the wrangler commands, create-cloudflare, templates and hosted
Workers are sequential I/O or user interface. `PROJECT.json` lists each one with
its status.

## 2. Modules

| Module | Models | Checked in | Proved in |
|---|---|---|---|
| `QueueBroker` | all brokers of a Miniflare instance | `MCQueueBroker` | `QueueBrokerProofs` |
| `QueueDelivery` | what queues promise: the abstract specification that `QueueBroker` implements | (as a property of `QueueBroker`) | `QueueBrokerProofs` (the refinement) |
| `R2Bucket` | one bucket and its blob store | `MCR2Bucket` | `R2BucketProofs` |
| `KeyValueStorage` | one storage, its blobs and clients that list it | `MCKeyValueStorage` | `KeyValueStorageProofs` |
| `ProxyWorker` | the proxy | `MCProxyWorker` (with any pause and play messages), `MCDevServer` | `ProxyWorkerProofs` |
| `DevServer` | composes `ProxyWorker` with its controller, both runtimes and `DevEnv` | `MCDevServer` | `DevServerProofs` |
| `Bundler` | `ConfigController` and `BundlerController` | `MCBundler` | `BundlerProofs` |
| `InspectorProxyWorker` | the inspector proxy | `MCInspectorProxyWorker` | `InspectorProxyWorkerProofs` |
| `Miniflare` | the life of a Miniflare instance: updates, calls, disposal | (in `ProxyClient`) | `ProxyClientProofs` |
| `ProxyClient` | composes `Miniflare` with its proxy client and the ProxyServer's heap | `MCProxyClient` | `ProxyClientProofs` |

The `MC` modules only define constants (functions over the model values that a
`.cfg` file cannot write) and symmetries. Operators whose comment begins with
"Mutant" are faulty variants of the operator that follows; no specification uses
them. `PROJECT.json` pairs each property with a mutant that violates it, which
shows that the property depends on the code it is about.

### QueueBroker

`delayed[q]` holds the messages that wait in a `setTimeout` of their own,
`messages[q]` is `#messages`, `pendingFlush[q]` is `#pendingFlush`: whether it is
set, immediate, and whether its timer is still armed. When a `#flush` ends it
overwrites `#pendingFlush`, whose timer may be armed by then; such timers are
counted in `strayTimers` and fire like any other. `flushes[f]` are the local
variables of a running `#flush`, so several flushes of one broker may overlap.
A flush that threw stays there, with the messages it lost. `failed` is
`#failedAttempts`; `sent`, `acked` and `dropped` record what became of each
message.

| Action | Code |
|---|---|
| `SendMessage`, `SendBatch` | the two endpoints and `#enqueue` |
| `Deliver` | the closure of a message's timer, with `#ensurePendingFlush` |
| `FirePending`, `FireStray` | a flush timer: `#flush` until the consumer is called |
| `Respond` | the consumer's answer; any subset may be retried, as `retryAll`, explicit retries and exceptions allow |
| `RetryMessage` | one turn of the loop over failed messages, up to its log call |
| `EndFlush` | the lines after the last log call, with `#ensurePendingFlush` |
| `MoveToDeadLetterQueue` | the request to the other broker, when that handles it |
| `FlushThrows` | a log call, or the request to the dead-letter queue, rejects and `#flush` ends there |

Left out: message bodies, sizes and delays (a timer fires at any time), and what
is logged.

`QueueDelivery` gives each message a status and a queue: unsent, waiting,
dispatched, rejected, dead, acknowledged, dropped, or lost with a flush that
threw. It has no timers and no
flushes.

### R2Bucket

`objects[k]` is the row's `blob_id`; a multipart object has `NULL` there.
`uploads` and `parts` are the other two tables, `store` the files on disk,
`inUse` the wait groups of `#inUseBlobs`, `waiting` the background deletions that
wait for one, `doomed` those sent to the disk, `requests` the local variables of
requests that await the blob store. A request that writes or reads a value takes
two steps or more (`StartPut`/`FinishPut`, `StartUploadPart`/`FinishUploadPart`,
`StartGet`/`FinishGet`, `StartStream`/`OpenPart`/`PartPiped` or `StreamFails`);
the operations that run in one SQL transaction take one (`Delete`,
`CreateMultipartUpload`, `CompleteMultipartUpload` with its rules about part
sizes, `AbortMultipartUpload`). `InvalidPut` is a put refused once its blob is
stored, `DeleteBlob` a deletion that reaches the disk, `Crash` the process
stopping: memory is lost, the disk and the database stay. With `StickyBlobs`
(the option `unsafeStickyBlobs`) the blob store ignores deletions. Blob ids are random,
so each is used once. The ETag of an object is a function of its value (the code's
is an MD5 digest), so different blobs may have the same one; multipart objects share
one ETag of their own. A condition is a pair of sets, `etagMatches` and
`etagDoesNotMatch`, evaluated when the value is stored; `onlyIf`'s wildcard is the set
of all ETags. `unspent[k]` is a history: the ETags key k has come to have since a put
last succeeded that no other ETag would have let through. `head` and `list` change nothing and
are left out, as are conditions on dates or on the ETag of a particular multipart
object, checksums, and ranges within a value.

### KeyValueStorage

`entries[k]` is a row, with `Never` for a `NULL` expiration; keys are numbered
in SQL order. `put` and `get` take two steps like those of R2Bucket. `List` is
one `list()` call with its sweep of expired rows, and the client of it, which
asks for page after page with the cursor it was given. What `ORDER BY key LIMIT n`
returns is said by a predicate on the rows (`IsQueried`), not computed. `GetExpired` and `Delete`
remove a row and its blob, `AbortPut` is a put cancelled because its value is too
large. `DeleteBlobFails` is a background deletion whose error is ignored and `Crash`
the process stopping; `dangling` records the blobs these may leave. `Tick` advances
the clock. `steady` is kept for the properties only: the
keys that were live ever since the listing began.

### ProxyWorker

The variables have the names they have in the code. `inFlight[r]` is the
`proxyData` that the callbacks of r's fetch captured. `Fetch` is `fetch` with
the `processQueue` it calls, `Pause` and `Play` the two messages, `Respond` the
then-callback and `NetworkError` the catch-callback with its three outcomes
(report and fail, retry, 503). The queues are sets because `processQueue` fires
all their requests in one synchronous loop. The comparison of URLs in the
catch-callback is modelled by what it does: `RootRequests` are the ones for which
the request's URL and the user Worker's URL can be equal.

### DevServer

`jobs[rt]` is the mutex of a runtime controller: a queue of reloads and
teardowns of which the head is running; `stage[rt]` says how far it is.
`installed[rt]` is the bundle the runtime has. `messages` is the mutex of
`ProxyController`, with the number of retries left for each message; `ready` is
whether the ProxyWorker's process is up; `torndown` follows `DevEnv`'s teardown.
`lastSent`, `failed` and `announced` record what the properties need: the last
message sent, the bundles whose reload failed, the newest bundle the
proxy was paused for.

| Action | Code |
|---|---|
| `ConfigUpdate`, `ProxyWorkerReady` | `ProxyController.onConfigUpdate` and `createProxyWorker`; the new process is up and paused |
| `Deliver`, `DeliveryFails` | `sendMessageToProxyWorker`: the head of the mutex is dispatched, or its call rejects (whether or not it arrived) and is sent again behind the others |
| `BundleStart`, `BundleComplete` | the handlers of both runtime controllers |
| `Install` | `#onBundleComplete` until Miniflare or the preview has the bundle |
| `Ignore`, `CheckNewest`, `ReloadComplete` | the check of the bundle's id, the awaits that follow it, the `reloadComplete` event |
| `ReloadFails` | the catch-block |
| `TeardownRuntime`, `BeginTeardown`, `CompleteTeardown` | teardown of a runtime and of `DevEnv` |
| `Client` | the actions `Fetch`, `Respond` and `NetworkError` of `ProxyWorker` |

The remote runtime always awaits an access token between the check and
`reloadComplete`; the local one awaits only if there are named entrypoints
(`HasEntrypoints`).

### Bundler

Inputs and configurations have one numbering: the configuration resolved from
input i is i. `resolving` are the executions of `#updateConfig` that await
`resolveConfig`, all but the newest aborted. For each configuration two things
start side by side. `#startCustomBuild` closes the watcher of the configuration
before, awaits (`closing`), aborts its builds and, if there is a custom command,
watches files; each execution of `#runCustomBuild` is an element of `running`.
`#startBundle` calls the cleanup function that the last `runBuild` returned,
awaits (`esbuild[c] = "starting"`), and starts esbuild's watch mode; the stages
"first" and "built" are the time in which `stopWatching` is not set yet, so that
the cleanup function stops nothing. A first build that throws leaves the context
"broken": watching, with nobody to stop it. `kind[c]` is "custom", "bundle",
"noBundle" (wrangler watches the modules itself) or "processed" (without bundling, but
with the entrypoint processed by esbuild). For the last kind `runBuild` overwrites the
function that disposes of esbuild's context with the one that closes its own watcher,
so that cleanup leaves the context "orphaned". A rebuild is not cancelled when its
configuration is superseded: it ends in `updateBundle` or not, as before. `overtaken`
and `late` record the configurations superseded while starting and while rebuilding;
the properties say that nothing else goes wrong.

| Action | Code |
|---|---|
| `UpdateConfig`, `Resolve`, `ResolveAborted`, `ResolveFails` | `ConfigController.#updateConfig`, with `onConfigUpdate` up to its awaits |
| `Watch`, `Ready`, `Changed` | `#startCustomBuild` after its await, and the listeners of its watcher |
| `CommandDone`, `BundleDone`, `CustomBuildFails` | the rest of `#runCustomBuild`, with its two checks of the signal |
| `StartBuild`, `FirstBuilt`, `FirstFails`, `SetBundle`, `SetBundleFails` | `#startBundle` after its awaits and `build` of `runBuild` |
| `Rebuild`, `UpdateBundle`, `RebuildIgnored` | esbuild's watch mode and the plugin's `onEnd`, or the watcher of the modules, and `updateBundle` |
| `Teardown` | `BundlerController.teardown` |

### InspectorProxyWorker

Reload g makes promise g and, if its upgrade succeeds, socket g. `deferred[g]` is
"follows" once promise g was resolved with the next one; `awaiting` are the
clients and commands that wait on promises. Continuations of a settled promise run
before the next event, one after the other and those of later promises first: while
any is `Due`, `Continue` is the only step. Each client's continuation makes its own
check whether another one has been admitted. `sockets` are those whose close event has not come,
which still deliver messages. `received` and `delivered` are histories.

| Action | Code |
|---|---|
| `ReloadComplete` | `reconnectRuntimeWebSocket` up to its await, with `createDeferred` |
| `UpgradeOpens`, `UpgradeRefused`, `UpgradeThrows` | the rest of it, with `handleRuntimeWebSocketOpen`: the promise is settled, or stays pending |
| `Continue` | what waits goes on: a client is admitted or turned away, a command is sent, or either throws |
| `RuntimeMessage`, `RuntimeCloses` | the listeners of a runtime's socket |
| `DevToolsConnects`, `DevToolsCloses` | `handleDevToolsWebSocketUpgradeRequest` and the listeners it adds |
| `DevToolsCommand`, `LoadNetworkResource`, `LoadAnswered`, `LoadForwarded` | `handleDevToolsIncomingMessage` and `handleDevToolsLoadNetworkResource` |

`reloadStart` only sends a command of the proxy's own and is left out with those.

### Miniflare and ProxyClient

`jobs` is `#runtimeMutex` with the updates that hold it or wait for it, `stage`
what its head awaits: the assembly of the configuration, the exit of the old
process, the ports of the new one. `calls` are `dispatchFetch`, `_getProxyClient`
and others, which await `#initPromise`, then the draining of the mutex. `process`
and its `gen` say which workerd process runs, `entry` which one `#runtimeEntryURL`
was made for. `Listen` and `Exit` are workerd's own steps (external).

`ProxyClient` adds what the lifecycle calls: `setOptions` and `dispose` poison the
stubs, a new process has an empty heap. A stub is an address, a version and, as a
history, the process whose heap holds its object. `GetBinding`, `Bind` are
`getBindings` and the like. `CallStub` is an asynchronous method call up to the await
of its serialized arguments, with `#assertSafe`; `Dispatch` the call of `dispatchFetch`
that follows, which waits for updates like any other; `Serve` and `Revive` its answer,
if that is an object. `SyncCall` is a synchronous call or access, in which Node waits
for the answer. `Collect`, `FinalizeBatch`, `Free` the garbage
collection. Settled promises go on before an event from outside is handled, which
is the guard `Quiescent`; the exception is `getBindings`, which awaits more than
promises.

## 3. Runs

| Run | Instance | Shows |
|---|---|---|
| `queue_broker` | `main` (batches of 2, one retry) with dead-letter queue `dlq` (batches of 1, no retry), whose own dead-letter queue `last` has no consumer; 3 messages, 2 executions of `#flush`; log calls and dead-letter requests may reject | no message lost or duplicated (`Conservation`), no message without a flush on its way, full batches not delayed and no stale pending flush (`FlushesAreScheduled`), bounded attempts, refinement of `QueueDelivery`; every message not lost with a flush that threw is settled in the end, and the brokers come to rest |
| `r2_bucket` | 2 keys, 2 uploads of 2 parts, 3 values (two of them equal), 2 concurrent requests, crashes and refused values; puts without condition, conditional on an ETag, and create-only | rows and streams name blobs that exist, wait groups count their readers, one owner per blob, no mixed objects, a put conditional on an ETag succeeds only if the key came to have it since the last such put, parts in progress stay, nothing dangles |
| `key_value_storage` | 3 keys, 3 values, 2 requests, one lister with pages of 1 or 2, clock from 0 to 2; deletions may fail, the process may stop | all properties of the storage |
| `dev_server` | 3 bundles, 2 starts, local runtime, reliable messages | never plays a superseded bundle, rests on the latest, follows the controller, and the last bundle is played in the end unless it fails; a request is at one place across restarts, and one held by a paused proxy is sent, or lost with its process, if the proxy is ever played |
| `dev_server_unreliable` | 2 bundles, local and remote, entrypoints, messages that fail, one retry; 2 requests, a GET of `/` and a POST of another path | no failed bundle played, updates in order; requests are at one place, not held back while playing, and only GETs are repeated |
| `bundler` | 3 inputs of any of the four kinds, one file change | superseded custom builds do not complete; only configurations superseded while starting, failed first builds and processed entrypoints leave anything running; without these, and unless a configuration was superseded while rebuilding, the last bundle is of the newest configuration |
| `inspector` | 3 reloads, 2 DevTools clients (one hosted in a browser), 3 messages, one command | one client at a time, the newest runtime, messages delivered once, in order and rewritten for their client; whoever waits is answered |
| `proxy_client` | 2 calls at a time, 2 calls of `setOptions`, 2 heap addresses, updates that fail and a process that exits | the properties of `Miniflare` and of stubs, if `setOptions` is not called while stub calls are under way |

Four more runs end in a **violation**: each checks something a comment in the
code says, and TLC finds a behaviour of the code that contradicts it. They are
the `findings` of `PROJECT.json`.

| Run | The comment says | The code |
|---|---|---|
| `proxy_worker_retry` | a failed request is requeued only while the proxy is paused, with a play message to come | the URLs compared in the catch-callback differ by the request's path, so that a failed GET of any path but `/` is requeued in a playing proxy, where nothing processes the queue; so is one whose error arrives after the next play message |
| `dev_server_switch` | a bundle superseded before its `reloadComplete` is ignored | the remote runtime awaits an access token between the check and the event; when the mode switches to local meanwhile, the old bundle's play message may be the last, and the proxy stays on it |
| `proxy_client_calls` | before a proxy makes any request, it checks its version and throws if it is poisoned | the check is made when the method is called; the arguments are awaited after it, then the updates under way. With `setOptions` called in the first await, the request of a poisoned stub reaches the next process |
| `proxy_client_overlap` | a stub carries the version of its creation, so that it is refused after `setOptions` | the version is taken when Node makes the stub, which is later than when workerd put the object on its heap; with `setOptions` in between, a stub of the old process passes for one of the new process, calls whatever has its address there, and frees it when collected |

The counterexample of `proxy_worker_retry` is three steps: a play message, a fetch, a network error.

Other behaviours of the models are known and have no run of their own:

- With named entrypoints the local runtime, too, awaits between the check and
  `reloadComplete`, so a superseded bundle may be played for a while; its own
  mutex lets the newer bundle follow, so that it does not stay.
- A message to the ProxyWorker that failed is retried behind later ones, which it
  then undoes; that is why `FollowsController` is checked with reliable messages.
- `#put` of R2 validates its value after storing it, outside the try-block that
  deletes the blob, so a refused put leaves its blob for good, although
  `workers/shared/blob.worker.ts` says that such blobs are deleted in the
  background. `leaked` records these, and what crashes leave.
- At the very millisecond of its expiration an entry is listed though `get`
  reports it missing (`>=` against `<=` in `workers/shared/keyvalue.worker.ts`).
- `dispose` after a failed first update does not wait for the updates behind it,
  one of which may start a process that is never killed; `NothingLeftAfterDispose`
  excludes this case. And nobody restarts workerd when it exits.
- A configuration that is superseded while it starts, or whose first build fails,
  leaves an esbuild context or a watcher behind, whose rebuilds emit
  `bundleComplete` with whatever bundle is current. So does every configuration
  without bundling whose entrypoint is processed. A rebuild that is under way when
  its configuration is superseded emits its `bundleComplete` all the same, which may
  come last.
- A stub may be collected while a call through it waits, since the call refers to the
  stub's handler only; its object may then be freed before the call arrives.
- Two puts to R2 that are conditional on the same ETag may both succeed, if the first
  of them writes a value with that ETag again.
- In the inspector proxy, the close event of an old socket clears the keep-alive
  interval of the new one; messages of an old runtime reach DevTools after
  `Runtime.executionContextsCleared`; commands that wait across two reloads are
  sent in the opposite order, since promises that follow another are resolved
  after what waits on that one directly; the answer to
  `Network.loadNetworkResource` goes to whichever client is connected when it
  comes; and when the upgrade request itself fails, whoever waits goes on waiting
  until the next reload.

### Bounds

Every bound is a constant. The number of messages, blobs, requests, bundles and
starts is finite because each has an id that is used once; `MaxTime`,
`MaxBundles` and `MaxStarts` appear in guards. They are chosen so that the
interesting cases happen:

- *Queues*: three messages overfill a batch of two, so that messages wait during
  a flush; two flushes overlap and leave stray timers; one retry and a
  dead-letter queue give a message up to three attempts in two queues, after
  which a queue without consumer drops it.
- *R2*: two uploads compete for one key, two requests race, and three values
  suffice for a multipart object and a third value that overwrites it or one of
  its parts, or for two puts conditional on the ETag of a third. Two of the values are
  equal, so that an ETag can be replaced by itself or come back. Two keys are enough
  to link a part to the wrong one.
- *Key-value storage*: three keys with pages of one or two give a page boundary
  with keys on both sides, and the clock passes an expiration of 1 by 0, 1 or
  more.
- *ProxyWorker*: for `proxy_worker_retry` three `proxyData` on two URLs distinguish a
  reload that keeps the URL from one that changes it, and four requests are all
  combinations of GET or not, `/` or not. The other properties of the proxy are
  checked in `DevServer`, where the controller decides when it pauses and plays.
- *DevServer*: with three bundles one is superseded while another waits; two
  starts let the ProxyWorker be restarted, or a build start, while messages wait.
  After a `bundleStart` without `bundleComplete`, as when a build fails, the proxy
  stays paused as it should, and `EventuallyPlaysLatest` allows for that.

- *Bundler*: with three inputs one configuration is superseded while another
  starts and a third resolves; one file change suffices for a build to overlap
  another, since each watcher starts one when it is ready.
- *InspectorProxyWorker*: three reloads let a client connected to the first
  runtime see two more, and make a chain of three promises before any runtime;
  three messages can be buffered, delivered to one client and to the next.
- *ProxyClient*: two updates behind the constructor's let a call wait for one
  while another is queued; two addresses in each process suffice for an address to
  be used again. Calls are interchangeable and used as a symmetry set.

Deadlock is not checked where the instance may stop: all messages settled, ids
used up, or the server torn down.

### Fairness

Weak fairness is assumed of what the JavaScript event loop and workerd do by
themselves, never of clients, producers or builds:

- `QueueBroker`: timers that are set fire; workerd settles every queue event it
  dispatches, and an await that is settled resumes.
- `DevServer`: a ProxyWorker that starts comes up; each message's call resolves
  or rejects; each step of a reload ends or fails. A mutex hands over to its next
  waiter in the same step in which its holder ends. That a paused proxy is ever played
  is not assumed, since a failed build leaves it paused: it is a premise of
  `HeldRequestsAreSent`.
- `InspectorProxyWorker`: a request for an upgrade is answered or fails, and
  continuations of settled promises run.

In `R2Bucket` and `ProxyClient` what would be liveness is stated as invariants
that say that a wake-up is on its way: `WaitGroupsCountReaders` (a deletion that
waits has a reader to wait for) and `DrainIsSignalled` (a call that waits for the
updates to drain has an update to wait for).

## 4. Proofs

TLAPS proves every safety property that the passing runs check, for every value of
the constants that satisfies the named assumption of the module
(`BrokerAssumption`, `BucketAssumption` and so on). These only say of which kind a
constant is; the bounds of the runs (`MaxReloads`, `MaxBundles`, the sets of ids)
are arbitrary in the proofs. `R2Bucket` needs one assumption more: at any time
finitely many requests are under way, since a wait group counts them.

Each proof has the same shape: an inductive invariant that contains the property,
a lemma that the initial states satisfy it, and a lemma with one step per action.
What the invariants add to the properties is the reason why the code is right:

### Queues (`QueueBrokerProofs`)

- **`TypeCorrect`**. `TypeOK` is not inductive, since `EndFlush` uses the queue of
  a flush as an index; `TypeInv` adds `FlushesHaveQueue`: a flush under way belongs
  to a queue.
- **`NeverLosesWakeup`** (`FlushesAreScheduled`). `WakeupInv` is the three
  properties with the type invariant and `ArmedIsSet`: a pending flush whose timer
  is armed is set. The three need one another. When a message is delivered and
  `#ensurePendingFlush` keeps the pending flush, `PendingFlushIsLive` says that a
  timer or a flush is behind it; when a timer fires, the flush that begins takes
  over; and when a flush ends, it either registers a new flush for what is left or
  leaves no message behind. The proof looks at one queue at a time (`QueueAwake`).
  A call that rejects ends `#flush` there, and the properties
  promise nothing for a queue to which this has happened; they do for all others.
- **`MessagesAreConserved`** (`Conservation`). A count of places is not inductive.
  `PlacesInv` says that the places of a message exclude one another (`OnePlace`),
  that exactly sent messages have one (`SomePlace`), that no list repeats a message
  (`NoRepeats`) and that flushes which ended have nothing left (`BatchesEnd`).
  Lemmas say what a step does to a message it leaves alone (`Unmoved`) and to one
  it moves (`NowHeld`, `NowTaken`, `NowSettled`); `SpliceElements` says that
  `splice(0, batchSize)` divides the list. `PlacesAreHomes` goes back to the count.
- **`RetriesAreBounded`** (`AttemptsBounded`). `BudgetInv` adds `WithinBudget` for
  each message. It rests on `PlacesInv`: that `#enqueue` starts a fresh count in
  the dead letter queue is sound only because no other broker has the message.
- **`DeliveryIsImplemented`** (`ImplementsDelivery`): `Spec => Delivery!Spec`.
  `MappingIsSound` shows that under `PlacesInv` the cases of the refinement mapping
  exclude one another, `StaysPut` that a message which is not moved keeps its status,
  and `NextDelivers` finds for each action the abstract step: `StartFlush` is a
  `Dispatch` of at most `BatchSize` messages (`BatchIsBounded`), `RetryMessage` a
  `Retry` or `GiveUp`, `FlushThrows` a `Lose`, while `Deliver` and `EndFlush` stutter.

### Storage (`R2BucketProofs`, `KeyValueStorageProofs`)

- **`RowsShareNoBlob`**, **`ObjectsAreOneUpload`**, **`RowsNameStoredBlobs`**,
  **`ReadersAreCounted`**, **`NothingDangles`** are the parts of one invariant,
  `BlobInv`: a blob id belongs to one row, to one request that writes it
  (`WritesOwnBlobs`), or to a deletion, and deletions wait for readers. The
  database's part (`RowsInv`) has to know that a completed upload's parts are those
  of its object, or an overwriting put would delete blobs another row names. That
  the counter of a wait group is a natural number (**`BucketTypeCorrect`**) needs
  `ReadersCounted`: it is the number of streams that still need the blob.
- **`CompareAndSwap`** (`ConditionalPutsSwap`): the ETag a key has is among those it
  has come to have since a put conditional on them (`unspent`), whatever values have
  the same ETag. It needs `BlobInv`, by which a row never comes to name a request's
  blob except by that request.
- **`UploadsKeepTheirParts`** (`InProgressPartsStay`), an action property, from
  `RowsInv`.
- **`RowsAndBlobsAgree`** (`BlobsMatchRows`): `StoreInv` says of the key-value
  storage what `BlobInv` says of the bucket; `DiskInv` is its part about the disk, which
  failed deletions and crashes disturb.
- **`LiveEntriesStay`** (`OnlyDeleteRemovesLive`), an action property, from the
  types of the rows: the sweeps of `get` and `list` compare with the same clock.
- **`ListingsAreComplete`** (`ListingIsComplete`): `ListingInv` says what a listing
  has reached, which is every key up to its cursor that was there all along and no
  key beyond it. The row after the page, which only decides whether there is a next
  page, is neither returned nor skipped. **`StorageTypeCorrect`** goes with it.

### `wrangler dev`

- **`RequestsAreAtOnePlace`** (`OnePlace`), **`HeldOnlyWhilePaused`**
  (`NothingHeldWhilePlaying`) and **`EffectsAreNotRepeated`** (`OnlyReadsAreResent`),
  in `ProxyWorkerProofs`. `ProxyInv` adds `QueueDiscipline`: requests in the queue of
  new requests have never been sent, and the retry queue holds only GET and HEAD
  requests. Without it `OnlyReadsAreResent` is not inductive, since sending a queued
  POST that had been sent before would break it.
- `DevServerProofs` proves them again for the composed system
  (**`RestartsKeepRequests`**), in which the controller decides when the proxy
  pauses, plays and starts anew, and with them **`PipelineTypeCorrect`**,
  **`FailedIsNeverPlayed`** (`NeverPlaysFailed`) and
  **`BundlesAreInstalledInOrder`** (`UpdatesInOrder`), with messages that fail, both
  runtimes and named entrypoints. `PipelineInv` adds `JobsInv`, by which each bundle
  is reloaded by one runtime and in order, and `FateInv`, by which a bundle is
  pending, failed or played, and never two of these.
- **`ProxyFollowsController`** (`FollowsController`) assumes that messages arrive
  (`~MessagesCanFail`). `FollowInv`: the last message under way is the last one sent,
  and when none is the proxy is as that one asked.
- **`SupersededIsNeverPlayed`** (`NeverPlaysSuperseded`) and
  **`LatestIsPlayedAtRest`** (`RestsOnLatest`) assume `ChecksLast`: only the local
  runtime, no named entrypoints, messages that arrive. That is the configuration of
  run `dev_server`, in which nothing is awaited between the check of the bundle id
  and `reloadComplete`. `OrderInv` says that messages are about bundles in their
  order, between the newest announced and the current one. Run `dev_server_switch`
  is the counterexample without the assumption.
- `BundlerProofs`: **`BundlerTypeCorrect`**; **`NewestBuildCompletes`**
  (`OnlyNewestCustomBuildCompletes`, an action property) from `AborterIsNewest`: the
  abort controller belongs to the newest build; **`OldBuildsAreStopped`**
  (`OnlyUnstoppableBuildsLeak`) from `LeakInv`: what is not overtaken, broken or
  orphaned is known to the watcher or the cleanup function, which can stop it; **`LastBundleIsLatest`**
  (`RestsOnLatestConfig`) from `RestInv`: while nothing was overtaken or superseded during
  a rebuild, a build of the latest configuration is due, or failed, or came last.
- `InspectorProxyWorkerProofs`: **`OneClientAtATime`** (`OneDevTools`),
  **`NewestRuntimeIsKept`** (`RuntimeIsNewest`) from `RuntimeInv`: the socket of a
  reload whose upgrade is under way does not exist yet; and
  **`EveryMessageReachesDevTools`** (`MessagesReachDevTools`) from `MessagesInv`: the
  flag about access to files belongs to the client that is connected, so that it is
  right for what the buffer is replayed to.

### Miniflare's lifecycle (`ProxyClientProofs`)

These are theorems of the composed specification.

- **`UpdatesAreApplied`** (`RestsOnLatestOptions`), **`SomebodyDrains`**
  (`DrainIsSignalled`), **`RequestsWaitForOptions`** (`RequestsSeeTheirOptions`) and
  **`DisposeStopsAll`** (`NothingLeftAfterDispose`) are parts or consequences of
  `LifeInv`: the mutex holds the options given last, in order (`JobsInOrder`); what
  the update at its head has done so far (`UnderUpdate`); of the updates that are
  done, those after the process's own failed (`DoneOrFailed`); a call that goes on
  has waited for the updates before it (`CallsWaited`); and dispose cleans up when
  all updates are done (`DisposedInOrder`).
- **`StubsAreSound`** (`StubsNameTheirObjects`) assumes `~Overlapping`: `setOptions` is
  not called while stub calls are under way. Run `proxy_client_overlap` is the
  counterexample without it, and `proxy_client_calls` shows what becomes of the calls
  themselves. `StubInv`: stubs that are not poisoned live in the running process
  (`CurrentStubs`), calls exclude updates (`CallsExcludeUpdates`), addresses are
  handed out once per process (`AddressesAreOld`), and an object has one stub, or is
  on its way, or is about to be freed (`OneHolder`). The last is why garbage
  collection never frees what a stub still names.

### Only model-checked

The five liveness properties (`EverySentSettles`, `EventuallyAtRest`,
`HeldRequestsAreSent`, `EventuallyPlaysLatest`, `WaitersAreAnswered`): liveness under
fairness is out of this prover's reach. The violations of the four runs above are
counterexamples, for which TLC is the tool.

## 5. Hazards

`PROJECT.json` lists what can go wrong in this code and is hard to test, each at
its line, with the properties that would catch it. Three have no property for a
reason that lies in the code: whether a single-part `get` of R2 or of the
key-value storage finds its blob depends on the order in which the disk service
answers; and a reload that is queued behind `DevEnv`'s teardown leaves a runtime
running, a behaviour the model has and nothing in the repository speaks against.
The brokers keep their messages in memory and promise no durability.

## 6. Not modelled

The map covers a small share of the repository's lines, and that will not change:
most of them are templates, generated code, vendored drivers, tests' fixtures,
configuration schemas, command-line handling and calls of the Cloudflare API.
These run once, in sequence, and keep no state that two actors share. In
particular:

- *wrangler's commands, create-cloudflare, the templates and hosted Workers*:
  sequential I/O and user interface;
- *the assembly of workerd configurations* (`#assembleConfig`, the plugins): a
  pure function of the options without an independent definition to check it
  against;
- *the cache simulator*: HTTP headers and ranges on top of key-value storage;
- *asset and router Workers*: stateless request handlers. The binary search of the
  asset manifest is worth a module of its own;
- *D1, Durable Objects, rate limiting*: adapters to workerd's own services, and a
  counter per key and period;
- *the vitest pool*: stacked storage by copies of directories, and a channel
  between Node and workerd.

Within the modelled components, the notes in `PROJECT.json` say what is left out.

## 7. Plan

Proofs: every safety property that a passing run checks has its theorem. What is
worth proving next are action properties that say what a single step may never do
(a settled message stays settled, a poisoned stub stays poisoned), and an abstract
specification of the key-value storage as a map with its refinement.

Models: the composition of `Bundler` with `DevServer`, in which the bundles of
overtaken configurations reach the runtimes; the asset manifest's binary search
against a reference definition; the vitest pool's stacked storage.
