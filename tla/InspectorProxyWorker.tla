------------------------ MODULE InspectorProxyWorker ------------------------
(***************************************************************************)
(* The inspector proxy of wrangler dev                                     *)
(* (packages/wrangler/templates/startDevWorker/InspectorProxyWorker.ts).   *)
(*                                                                         *)
(* The proxy stands between one DevTools client, which stays connected,    *)
(* and the inspector of the runtime, which is replaced at every reload.    *)
(* Messages of the runtime are buffered until a client is there; clients   *)
(* and their commands wait for the runtime on a deferred promise.  A       *)
(* reload replaces the promise and resolves the old one with it, so that   *)
(* who waits on the old one waits on the new one from then on.             *)
(*                                                                         *)
(* Reloads are numbered: reload g makes deferred g and, if the upgrade     *)
(* succeeds, socket g; deferred 0 is the constructor's.  What the proxy    *)
(* says of its own accord (enabling domains, keep-alive, discarding        *)
(* console entries, Runtime.executionContextsCleared when a reload is      *)
(* complete) and what it forwards to the ProxyController are left out.     *)
(***************************************************************************)
EXTENDS Naturals, Sequences, SequencesExt

CONSTANTS
  Clients,       \* DevTools clients
  Hosted,        \* those with a browser's User-Agent: no access to files
  None,          \* no client
  MaxReloads,    \* bound on the reloads
  MaxMessages,   \* bound on the messages of runtimes
  MaxCommands    \* bound on the commands of clients

ASSUME InspectorAssumption ==
  /\ Hosted \subseteq Clients
  /\ None \notin Clients
  /\ {MaxReloads, MaxMessages, MaxCommands} \subseteq Nat

VARIABLES
  gen,           \* reloads so far
  upgrading,     \* is the upgrade request of reload gen in flight?
  runtime,       \* websockets.runtime, 0 if undefined
  sockets,       \* accepted sockets whose close event has not come
  closed,        \* those of them on which the proxy has called close()
  interval,      \* the socket the keep-alive interval sends to, 0 if cleared
  deferred,      \* deferred[g]: the state of promise g
  awaiting,      \* what waits on deferred promises, in the order of its arrival
  devtools,      \* websockets.devtools
  fileAccess,    \* websockets.devtoolsHasFileSystemAccess
  attached,      \* clients whose socket was accepted with listeners
  buffer,        \* runtimeMessageBuffer
  loads,         \* commands for which the ProxyController is asked
  commands,      \* commands so far
  received,      \* messages of runtimes (history)
  delivered      \* messages of runtimes sent to clients (history)

runtimeVars == <<gen, upgrading, runtime, sockets, closed, interval, deferred>>
devtoolsVars == <<devtools, fileAccess, attached>>
messageVars == <<buffer, received, delivered>>
commandVars == <<loads, commands>>
vars == <<runtimeVars, awaiting, devtoolsVars, messageVars, commandVars>>

-----------------------------------------------------------------------------
Reloads == 1..MaxReloads

\* "follows": resolved with the promise of the next reload.
States == {"pending", "follows", "resolved", "rejected"}

Connecting(d, g) == [client |-> d, command |-> 0, on |-> g]
Sending(c, g) == [client |-> None, command |-> c, on |-> g]

\* A message for DevTools as client d gets it.
Message(i, isScript) == [id |-> i, script |-> isScript]
Delivery(m, d, isRewritten) == [message |-> m, to |-> d, rewritten |-> isRewritten]

Init ==
  /\ gen = 0
  /\ upgrading = FALSE
  /\ runtime = 0
  /\ sockets = {}
  /\ closed = {}
  /\ interval = 0
  /\ deferred = [g \in 0..MaxReloads |-> "pending"]
  /\ awaiting = <<>>
  /\ devtools = None
  /\ fileAccess = FALSE
  /\ attached = {}
  /\ buffer = <<>>
  /\ loads = {}
  /\ commands = 0
  /\ received = <<>>
  /\ delivered = <<>>

-----------------------------------------------------------------------------
(* The runtime. *)

\* Mutant: the old promise is left alone.
CreateDeferred_NoChain(g) == deferred

\* createDeferred: promise g, if still pending, follows promise g + 1.
CreateDeferred(g) ==
  IF deferred[g] = "pending" THEN [deferred EXCEPT ![g] = "follows"] ELSE deferred

\* reloadComplete: reconnectRuntimeWebSocket up to its await.
ReloadComplete ==
  /\ gen < MaxReloads
  /\ gen' = gen + 1
  /\ upgrading' = TRUE
  /\ runtime' = 0
  /\ closed' = closed \cup ({runtime} \ {0})
  /\ deferred' = CreateDeferred(gen)
  /\ UNCHANGED <<sockets, interval, awaiting, devtoolsVars, messageVars, commandVars>>

\* The messages that tryDrainRuntimeMessageBuffer sends to client d: scripts
\* are rewritten for a client without access to files.
Drain(msgs, d, hasAccess) ==
  [i \in DOMAIN msgs |-> Delivery(msgs[i], d, msgs[i].script /\ ~hasAccess)]

\* Does w wait for promise gen, or for one that follows it?
Reached(w) == \A g \in w.on..(gen - 1) : deferred[g] = "follows"

\* What waits on a promise that is settled: its continuation runs before any
\* other event.
Due == {i \in DOMAIN awaiting : deferred[gen] \in {"resolved", "rejected"} /\ Reached(awaiting[i])}

\* Continuations run in the order of the promises: first those that wait on the
\* newest one, only then those on the promises that follow it, one reload after
\* the other.
IsFirst(i) ==
  \A j \in Due : \/ awaiting[j].on < awaiting[i].on
                 \/ awaiting[j].on = awaiting[i].on /\ i <= j

\* Mutant: the buffer is replayed before the client is known to be hosted.
Attach_DrainFirst(d) ==
  /\ devtools' = d
  /\ fileAccess' = (d \notin Hosted)
  /\ delivered' = delivered \o Drain(buffer, d, fileAccess)
  /\ buffer' = <<>>

\* Client d becomes websockets.devtools, and the buffer is replayed to it.
Attach(d) ==
  /\ devtools' = d
  /\ fileAccess' = (d \notin Hosted)
  /\ delivered' = delivered \o Drain(buffer, d, d \notin Hosted)
  /\ buffer' = <<>>

\* Mutant: nobody asks, after the await, whether there is a client.
Admit_Unasked(d) == Attach(d) /\ attached' = attached \cup {d}

\* handleDevToolsWebSocketUpgradeRequest of client d after its await: d gets its
\* listeners, unless there is a client already.
Admit(d) ==
  IF devtools # None THEN UNCHANGED <<devtoolsVars, buffer, delivered>>
  ELSE Attach(d) /\ attached' = attached \cup {d}

\* The socket of reload gen opens, and the promise is resolved.
UpgradeOpens ==
  /\ upgrading
  /\ upgrading' = FALSE
  /\ runtime' = gen
  /\ sockets' = sockets \cup {gen}
  /\ interval' = gen
  /\ deferred' = [deferred EXCEPT ![gen] = "resolved"]
  /\ UNCHANGED <<gen, closed, awaiting, devtoolsVars, messageVars, commandVars>>

\* What waits goes on: a client asks to be admitted and a command is sent, or
\* either throws if the promise is rejected.
Continue(i) ==
  /\ i \in Due
  /\ IsFirst(i)
  /\ awaiting' = RemoveAt(awaiting, i)
  /\ IF deferred[gen] = "resolved" /\ awaiting[i].client # None
     THEN Admit(awaiting[i].client)
     ELSE UNCHANGED <<devtoolsVars, buffer, delivered>>
  /\ UNCHANGED <<runtimeVars, received, commandVars>>

\* The upgrade request is answered without a socket.
UpgradeRefused ==
  /\ upgrading
  /\ upgrading' = FALSE
  /\ deferred' = [deferred EXCEPT ![gen] = "rejected"]
  /\ UNCHANGED <<gen, runtime, sockets, closed, interval, awaiting, devtoolsVars,
                 messageVars, commandVars>>

\* fetch rejects: the promise stays pending until the next reload.
UpgradeThrows ==
  /\ upgrading
  /\ upgrading' = FALSE
  /\ UNCHANGED <<gen, runtime, sockets, closed, interval, deferred, awaiting,
                 devtoolsVars, messageVars, commandVars>>

\* Mutant: whichever runtime closes is taken for the current one.
Forget_Any(g) == 0

\* What the close and error listeners of socket g leave in websockets.runtime.
Forget(g) == IF runtime = g THEN 0 ELSE runtime

\* The close or error event of socket g, which comes some time after close()
\* or unexpectedly.
RuntimeCloses(g) ==
  /\ g \in sockets
  /\ sockets' = sockets \ {g}
  /\ closed' = closed \ {g}
  /\ interval' = 0
  /\ runtime' = Forget(g)
  /\ UNCHANGED <<gen, upgrading, deferred, awaiting, devtoolsVars, messageVars,
                 commandVars>>

\* handleRuntimeIncomingMessage: also of a socket that the proxy has closed,
\* as long as the other side has not.
RuntimeMessage(g, isScript) ==
  LET m == Message(Len(received) + 1, isScript)
      all == Append(buffer, m)
  IN  /\ g \in sockets
      /\ Len(received) < MaxMessages
      /\ received' = Append(received, m)
      /\ IF devtools = None
         THEN buffer' = all /\ UNCHANGED delivered
         ELSE /\ buffer' = <<>>
              /\ delivered' = delivered \o Drain(all, devtools, fileAccess)
      /\ UNCHANGED <<runtimeVars, awaiting, devtoolsVars, commandVars>>

-----------------------------------------------------------------------------
(* DevTools. *)

Idle(d) == d \notin attached /\ \A i \in DOMAIN awaiting : awaiting[i].client # d

\* handleDevToolsWebSocketUpgradeRequest of client d: it waits, or goes on at
\* once, or throws if the promise is rejected.
DevToolsConnects(d) ==
  /\ Idle(d)
  /\ CASE deferred[gen] = "pending" ->
            /\ awaiting' = Append(awaiting, Connecting(d, gen))
            /\ UNCHANGED <<devtoolsVars, buffer, delivered>>
       [] deferred[gen] = "resolved" -> Admit(d) /\ UNCHANGED awaiting
       [] OTHER -> UNCHANGED <<devtoolsVars, buffer, delivered, awaiting>>
  /\ UNCHANGED <<runtimeVars, received, commandVars>>

\* The close or error event of an attached client.
DevToolsCloses(d) ==
  /\ d \in attached
  /\ attached' = attached \ {d}
  /\ devtools' = IF devtools = d THEN None ELSE devtools
  /\ UNCHANGED <<runtimeVars, awaiting, fileAccess, messageVars, commandVars>>

\* sendRuntimeMessage of command c: it waits for the runtime, or is sent at once;
\* on a socket that is closed send throws, and on a rejected promise the await.
SendRuntimeMessage(c) ==
  awaiting' = IF deferred[gen] = "pending" THEN Append(awaiting, Sending(c, gen))
              ELSE awaiting

\* handleDevToolsIncomingMessage.
DevToolsCommand(d) ==
  /\ d \in attached
  /\ commands < MaxCommands
  /\ commands' = commands + 1
  /\ SendRuntimeMessage(commands + 1)
  /\ UNCHANGED <<runtimeVars, devtoolsVars, messageVars, loads>>

\* Network.loadNetworkResource: handleDevToolsLoadNetworkResource up to its await.
LoadNetworkResource(d) ==
  /\ d \in attached
  /\ commands < MaxCommands
  /\ commands' = commands + 1
  /\ loads' = loads \cup {commands + 1}
  /\ UNCHANGED <<runtimeVars, awaiting, devtoolsVars, messageVars>>

\* The ProxyController has the resource: the answer goes to the client of now.
LoadAnswered(c) ==
  /\ c \in loads
  /\ loads' = loads \ {c}
  /\ UNCHANGED <<runtimeVars, awaiting, devtoolsVars, messageVars, commands>>

\* It has not, so the runtime is asked.
LoadForwarded(c) ==
  /\ c \in loads
  /\ loads' = loads \ {c}
  /\ SendRuntimeMessage(c)
  /\ UNCHANGED <<runtimeVars, devtoolsVars, messageVars, commands>>

-----------------------------------------------------------------------------
UpgradeSettles == UpgradeOpens \/ UpgradeRefused \/ UpgradeThrows

\* An event from outside.
Event ==
  \/ ReloadComplete \/ UpgradeOpens \/ UpgradeRefused \/ UpgradeThrows
  \/ \E g \in Reloads : RuntimeCloses(g) \/ \E b \in BOOLEAN : RuntimeMessage(g, b)
  \/ \E d \in Clients : \/ DevToolsConnects(d) \/ DevToolsCloses(d)
                        \/ DevToolsCommand(d) \/ LoadNetworkResource(d)
  \/ \E c \in loads : LoadAnswered(c) \/ LoadForwarded(c)

Resume == \E i \in DOMAIN awaiting : Continue(i)

Next == Resume \/ (Due = {} /\ Event)

Spec == Init /\ [][Next]_vars

\* A request of the proxy is answered or fails at some time, and continuations
\* run.
FairSpec == Spec /\ WF_vars(Due = {} /\ UpgradeSettles) /\ WF_vars(Resume)

-----------------------------------------------------------------------------
\* Type correctness.
TypeOK ==
  /\ gen \in 0..MaxReloads
  /\ upgrading \in BOOLEAN
  /\ {runtime, interval} \subseteq 0..gen
  /\ sockets \subseteq 1..gen
  /\ closed \subseteq sockets
  /\ deferred \in [0..MaxReloads -> States]
  /\ awaiting \in Seq([client : Clients \cup {None}, command : 0..commands, on : 0..gen])
  /\ devtools \in Clients \cup {None}
  /\ fileAccess \in BOOLEAN
  /\ attached \subseteq Clients
  /\ commands \in 0..MaxCommands
  /\ loads \subseteq 1..commands
  /\ {buffer, received} \subseteq Seq([id : Nat, script : BOOLEAN])
  /\ delivered \in Seq([message : [id : Nat, script : BOOLEAN], to : Clients,
                        rewritten : BOOLEAN])

(* "We only want to have one active Devtools instance at a time": although
   several clients may wait for the runtime and go on together, the one in
   websockets.devtools is the only one whose socket has listeners. *)
OneDevTools == attached = {devtools} \ {None}

(* The listeners of the sockets of earlier runtimes, whose close events come
   when the next runtime may be connected already, leave the newest one alone:
   websockets.runtime is the newest socket as long as it is open, never another
   one, and the keep-alive messages go to no other socket while it is. *)
RuntimeIsNewest ==
  /\ runtime = IF gen \in sockets THEN gen ELSE 0
  /\ runtime # 0 => interval \in {0, runtime}
  /\ closed = sockets \ {gen}

(* Across reloads and reconnecting clients every message of a runtime is
   delivered once, in the order of arrival, and none is held back from a
   client that is there; scripts are rewritten exactly for the clients that
   cannot read files, also those that were buffered for an earlier client. *)
MessagesReachDevTools ==
  /\ [i \in DOMAIN delivered |-> delivered[i].message] \o buffer = received
  /\ devtools # None => buffer = <<>>
  /\ \A i \in DOMAIN delivered :
       delivered[i].rewritten = (delivered[i].message.script /\ delivered[i].to \in Hosted)

(* Whatever waits for the runtime is answered when the upgrade of the newest
   reload is, although it began to wait several reloads ago; only when that
   request fails altogether does it go on waiting. *)
WaitersAreAnswered ==
  awaiting # <<>> ~> (awaiting = <<>> \/ (~upgrading /\ deferred[gen] = "pending"))

=============================================================================
