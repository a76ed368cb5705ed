---------------------------- MODULE ProxyClient -----------------------------
(***************************************************************************)
(* Miniflare with its proxy client (plugins/core/proxy/client.ts) and the  *)
(* ProxyServer in workerd (workers/core/proxy.worker.ts).  Node holds      *)
(* stubs of objects of the Worker's runtime.  A stub names an address in   *)
(* the server's heap, which dies with the process; each stub carries the   *)
(* version of the client at its creation, and setOptions and dispose       *)
(* poison the stubs made so far by increasing the version.  Stubs that are *)
(* collected as garbage are freed on the heap in batches.                  *)
(*                                                                         *)
(* An object is a heap address and, as a history, the process it lives in. *)
(***************************************************************************)
EXTENDS Miniflare

CONSTANTS
  MaxAddress,   \* bound on the addresses a process hands out
  Overlapping   \* may setOptions be called while stub calls are under way?

ASSUME ProxyClientAssumption ==
  /\ MaxAddress \in Nat
  /\ Overlapping \in BOOLEAN

VARIABLES
  version,      \* ProxyClientBridge.#version
  stubs,        \* stubs reachable in Node
  batch,        \* #finalizeBatch: what collected stubs held
  heap,         \* ProxyServer.heap: addresses in use
  nextAddress,  \* ProxyServer.nextHeapAddress
  work          \* work[c]: what call c is for

proxy == <<version, stubs, batch, heap, nextAddress, work>>
vars == <<lifecycle, proxy>>

-----------------------------------------------------------------------------
Stubs == [address : Nat, gen : Nat, version : Nat]
Ops == {"fetch", "binding", "call", "free"}

\* What call c is for: an operation, and the stubs it is about.
NoWork == [op |-> "fetch", targets |-> {}]

Init ==
  /\ LifecycleInit
  /\ version = 0
  /\ stubs = {}
  /\ batch = {}
  /\ heap = {}
  /\ nextAddress = 1
  /\ work = [c \in Calls |-> NoWork]

\* getProxy: a stub of the object at that address of process g.
Stub(address, g) == [address |-> address, gen |-> g, version |-> version]

\* The calls whose caller has to await more than promises once it is ready.
Lazy == {c \in Calls : work[c].op = "binding"}

\* Calls that use stubs or will create some.
Underway == {c \in Calls : work[c].op \in {"binding", "call"}}

\* The Native reducer puts an object on the heap.
Allocate ==
  /\ nextAddress <= MaxAddress
  /\ heap' = heap \cup {nextAddress}
  /\ nextAddress' = nextAddress + 1

Done(c) ==
  /\ calls' = [calls EXCEPT ![c] = NoCall]
  /\ work' = [work EXCEPT ![c] = NoWork]

-----------------------------------------------------------------------------
(* The lifecycle, with its calls of the proxy client. *)

\* Mutant: poisonProxies forgets the version.
PoisonProxies_NoVersion == UNCHANGED version

\* poisonProxies: the stubs made so far are of an old version, and their
\* finalizers are unregistered.
PoisonProxies == version' = version + 1

DoSetOptions ==
  /\ Overlapping \/ Underway = {}
  /\ SetOptions
  /\ PoisonProxies
  /\ UNCHANGED <<stubs, batch, heap, nextAddress, work>>

DoDispose ==
  /\ Dispose
  /\ PoisonProxies
  /\ UNCHANGED <<stubs, batch, heap, nextAddress, work>>

DoUpdate ==
  /\ Quiescent(Lazy)
  /\ Update
  /\ IF process'.gen = process.gen
     THEN UNCHANGED <<heap, nextAddress>>
     ELSE heap' = {} /\ nextAddress' = 1
  /\ UNCHANGED <<version, stubs, batch, work>>

RuntimeEvent ==
  /\ Quiescent(Lazy)
  /\ Listen \/ Exit
  /\ UNCHANGED proxy

\* dispose calls ProxyClient.dispose, which poisons once more, before it kills
\* the process.
DoDisposeStep ==
  /\ DisposeStep
  /\ IF disposing = "cleanup" THEN PoisonProxies ELSE UNCHANGED version
  /\ UNCHANGED <<stubs, batch, heap, nextAddress, work>>

\* dispatchFetch on behalf of the user.
Fetch(c) == Call(c) /\ UNCHANGED proxy

\* A call awaits ready, whatever it is for.
DoAwaitInit(c) ==
  /\ AwaitInit(c)
  /\ work' = IF calls'[c] = NoCall THEN [work EXCEPT ![c] = NoWork] ELSE work
  /\ UNCHANGED <<version, stubs, batch, heap, nextAddress>>

DoSend(c) ==
  /\ work[c].op # "binding"
  /\ Send(c)
  /\ work' = IF calls'[c] = NoCall THEN [work EXCEPT ![c] = NoWork] ELSE work
  /\ UNCHANGED <<version, stubs, batch, heap, nextAddress>>

\* A request is answered without touching the heap, or breaks off.
DoReturn(c) ==
  /\ Quiescent(Lazy)
  /\ Return(c)
  /\ work' = [work EXCEPT ![c] = NoWork]
  /\ UNCHANGED <<version, stubs, batch, heap, nextAddress>>

-----------------------------------------------------------------------------
(* Stubs. *)

\* getBindings and the like: await ready, then get a property of env.
GetBinding(c) ==
  /\ Call(c)
  /\ work' = [work EXCEPT ![c].op = "binding"]
  /\ UNCHANGED <<version, stubs, batch, heap, nextAddress>>

\* The synchronous GET on env, whose stub has the present version.
Bind(c) ==
  /\ work[c].op = "binding"
  /\ calls[c].stage = "woken"
  /\ ~aborted /\ Reaches
  /\ Allocate
  /\ stubs' = stubs \cup {Stub(nextAddress, process.gen)}
  /\ Done(c)
  /\ UNCHANGED <<updates, init, process, entry, loopback, aborted, disposing,
                 version, batch>>

\* Disposed by now, or the process does not answer, or the binding is a plain
\* value, which needs no stub.
BindNothing(c) ==
  /\ work[c].op = "binding"
  /\ calls[c].stage = "woken"
  /\ Done(c)
  /\ UNCHANGED <<updates, init, process, entry, loopback, aborted, disposing,
                 version, stubs, batch, heap, nextAddress>>

\* #assertSafe
Safe(s) == s.version = version

\* A call of a method of stub s that is known to be asynchronous, or whose
\* arguments are streams: #asyncCall awaits the serialized arguments.
CallStub(c, s) ==
  /\ Safe(s)
  /\ calls[c] = NoCall
  /\ SetStage(c, "args")
  /\ work' = [work EXCEPT ![c] = [op |-> "call", targets |-> {s}]]
  /\ UNCHANGED <<updates, init, process, entry, loopback, aborted, disposing,
                 version, stubs, batch, heap, nextAddress>>

\* The arguments are there: dispatchFetch, which throws if disposed by now.
Dispatch(c) ==
  /\ calls[c].stage = "args"
  /\ IF aborted
     THEN Done(c)
     ELSE /\ calls' = [calls EXCEPT ![c] = [stage |-> "init", requested |-> issued, gen |-> 0]]
          /\ work' = work
  /\ UNCHANGED <<updates, init, process, entry, loopback, aborted, disposing,
                 version, stubs, batch, heap, nextAddress>>

\* get or #syncCall, with an object as the result: the request is sent at once
\* and Node does nothing until it is answered.  (Of a call that is answered
\* otherwise, or not at all, nothing remains.)
SyncCall(s) ==
  /\ Safe(s)
  /\ Reaches
  /\ s.address \in heap
  /\ Allocate
  /\ stubs' = stubs \cup {Stub(nextAddress, process.gen)}
  /\ UNCHANGED <<lifecycle, version, batch, work>>

\* The server finds the target on its heap, and the result is an object.
Serve(c) ==
  /\ Quiescent(Lazy)
  /\ work[c].op = "call"
  /\ IsServed(c)
  /\ \A s \in work[c].targets : s.address \in heap
  /\ Allocate
  /\ work' = [work EXCEPT ![c].targets = {[address |-> nextAddress, gen |-> process.gen,
                                           version |-> 0]}]
  /\ SetStage(c, "answered")
  /\ UNCHANGED <<updates, init, process, entry, loopback, aborted, disposing,
                 version, stubs, batch>>

\* #parseAsyncResponse revives the result as a stub of the present version.
Revive(c) ==
  /\ Quiescent(Lazy)
  /\ calls[c].stage = "answered"
  /\ stubs' = stubs \cup {Stub(s.address, s.gen) : s \in work[c].targets}
  /\ Done(c)
  /\ UNCHANGED <<updates, init, process, entry, loopback, aborted, disposing,
                 version, batch, heap, nextAddress>>

\* Node collects stub s, which calls under way do not prevent, since they refer
\* to its handler only; #finalizeProxy is called unless s is unregistered.
Collect(s) ==
  /\ s \in stubs
  /\ stubs' = stubs \ {s}
  /\ batch' = IF s.version = version THEN batch \cup {s} ELSE batch
  /\ UNCHANGED <<lifecycle, version, heap, nextAddress, work>>

\* What #finalizeProxyBatch asks the server to free.
Freeable == {s \in batch : s.version = version}

\* The timer of the batch: dispatchFetch, which waits if updates are queued.
FinalizeBatch(c) ==
  /\ Quiescent(Lazy)
  /\ batch # {}
  /\ calls[c] = NoCall
  /\ batch' = {}
  /\ IF \/ Freeable = {} \/ aborted \/ init = "rejected"
        \/ jobs = <<>> /\ ~Reaches
     THEN UNCHANGED <<calls, work>>
     ELSE /\ work' = [work EXCEPT ![c] = [op |-> "free", targets |-> Freeable]]
          /\ calls' = [calls EXCEPT ![c] =
                         [stage |-> IF jobs = <<>> THEN "sent" ELSE "drain",
                          requested |-> issued,
                          gen |-> IF jobs = <<>> THEN process.gen ELSE 0]]
  /\ UNCHANGED <<updates, init, process, entry, loopback, aborted, disposing,
                 version, stubs, heap, nextAddress>>

\* The server frees the addresses.
Free(c) ==
  /\ Quiescent(Lazy)
  /\ work[c].op = "free"
  /\ IsServed(c)
  /\ heap' = heap \ {s.address : s \in work[c].targets}
  /\ Done(c)
  /\ UNCHANGED <<updates, init, process, entry, loopback, aborted, disposing,
                 version, stubs, batch, nextAddress>>

-----------------------------------------------------------------------------
\* What happens to a call once it is made.
Continue(c) ==
  \/ Dispatch(c) \/ DoAwaitInit(c) \/ DoSend(c) \/ DoReturn(c)
  \/ Bind(c) \/ BindNothing(c) \/ Serve(c) \/ Revive(c) \/ Free(c)

Next ==
  \/ DoSetOptions \/ DoDispose
  \/ DoUpdate \/ RuntimeEvent \/ DoDisposeStep
  \/ \E c \in Calls : \/ Fetch(c) \/ GetBinding(c) \/ FinalizeBatch(c)
                      \/ \E s \in stubs : CallStub(c, s)
                      \/ Continue(c)
  \/ \E s \in stubs : SyncCall(s) \/ Collect(s)

Spec == Init /\ [][Next]_vars

-----------------------------------------------------------------------------
\* Type correctness.
TypeOK ==
  /\ LifecycleTypeOK
  /\ version \in Nat
  /\ stubs \subseteq Stubs
  /\ batch \subseteq Stubs
  /\ heap \subseteq Nat
  /\ nextAddress \in Nat
  /\ work \in [Calls -> [op : Ops, targets : SUBSET Stubs]]

(* A stub that is not poisoned names its own object, on the heap of the process
   that runs: no restart, and no freeing of what other stubs held, takes it
   away or puts another object in its place ("we don't want a new object added
   with the same address to be freed when it's still accessible"). *)
StubsNameTheirObjects ==
  \A s \in stubs : s.version = version => s.gen = process.gen /\ s.address \in heap

(* "Before the proxy makes any request to `workerd`, it checks the version number
   here matches its own internal version, and throws if not": what is called on
   a stub that has been poisoned does not reach another process than the one of
   its object, though the request is sent some awaits after the check. *)
CallsReachTheirObjects ==
  \A c \in Calls : work[c].op = "call" /\ IsServed(c) =>
    \A s \in work[c].targets : s.gen = process.gen \/ s.version = version

=============================================================================
