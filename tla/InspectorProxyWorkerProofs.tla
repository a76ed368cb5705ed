--------------------- MODULE InspectorProxyWorkerProofs ---------------------
(***************************************************************************)
(* For any number of reloads, clients, messages and commands: the          *)
(* inspector proxy has one DevTools client at a time, keeps the newest     *)
(* runtime, and delivers every message of the runtimes once, in order.     *)
(***************************************************************************)
EXTENDS InspectorProxyWorker, SequenceTheorems, TLAPS

-----------------------------------------------------------------------------
(* One client. *)

\* DevTools clients come and go only with the event listeners of their sockets.
LEMMA DevToolsStep ==
  ASSUME OneDevTools, [Next]_vars
  PROVE  OneDevTools'
<1>1. ASSUME NEW d, d # None, Admit(d) PROVE OneDevTools'
  BY <1>1 DEF Admit, Attach, OneDevTools, devtoolsVars
<1>2. ASSUME NEW i \in DOMAIN awaiting, Continue(i) PROVE OneDevTools'
  <2>1. CASE awaiting[i].client # None /\ Admit(awaiting[i].client)
    BY <1>1, <2>1
  <2>2. CASE UNCHANGED devtoolsVars
    BY <2>2 DEF OneDevTools, devtoolsVars
  <2> QED
    BY <1>2, <2>1, <2>2 DEF Continue
<1>3. ASSUME NEW d \in Clients, DevToolsConnects(d) PROVE OneDevTools'
  <2>1. d # None
    BY InspectorAssumption
  <2>2. Admit(d) \/ UNCHANGED devtoolsVars
    BY <1>3 DEF DevToolsConnects
  <2> QED
    BY <1>1, <2>1, <2>2 DEF OneDevTools, devtoolsVars
<1>4. ASSUME NEW d \in Clients, DevToolsCloses(d) PROVE OneDevTools'
  BY <1>4 DEF DevToolsCloses, OneDevTools
<1>5. CASE UNCHANGED devtoolsVars
  BY <1>5 DEF OneDevTools, devtoolsVars
<1> QED
  BY <1>2, <1>3, <1>4, <1>5
  DEF Next, Event, Resume, vars, ReloadComplete, UpgradeOpens, UpgradeRefused,
      UpgradeThrows, RuntimeCloses, RuntimeMessage, DevToolsCommand, LoadNetworkResource, LoadAnswered, LoadForwarded

(* However many clients wait for a runtime and go on together, at most one has
   listeners, and it is the one in websockets.devtools. *)
THEOREM OneClientAtATime == Spec => []OneDevTools
<1>1. Init => OneDevTools
  BY DEF Init, OneDevTools
<1> QED
  BY <1>1, DevToolsStep, PTL DEF Spec

-----------------------------------------------------------------------------
(* The newest runtime. *)

(* What RuntimeIsNewest rests on: sockets are numbered by reloads, and the
   socket of a reload whose upgrade request is under way does not exist yet. *)
RuntimeInv ==
  /\ gen \in Nat
  /\ sockets \subseteq 1..gen
  /\ upgrading => gen > 0 /\ gen \notin sockets
  /\ RuntimeIsNewest

\* Reloads and the events of sockets old and new keep the newest runtime.
LEMMA RuntimeStep ==
  ASSUME RuntimeInv, [Next]_vars
  PROVE  RuntimeInv'
<1> USE DEF RuntimeInv, RuntimeIsNewest
<1>1. CASE ReloadComplete
  BY <1>1 DEF ReloadComplete
<1>2. CASE UpgradeOpens
  BY <1>2 DEF UpgradeOpens
<1>3. CASE UpgradeRefused \/ UpgradeThrows
  BY <1>3 DEF UpgradeRefused, UpgradeThrows
<1>4. ASSUME NEW g \in Reloads, RuntimeCloses(g) PROVE RuntimeInv'
  BY <1>4 DEF RuntimeCloses, Forget
<1>5. CASE UNCHANGED runtimeVars
  BY <1>5 DEF runtimeVars
<1> QED
  BY <1>1, <1>2, <1>3, <1>4, <1>5
  DEF Next, Event, Resume, vars, Continue, RuntimeMessage, DevToolsConnects,
      DevToolsCloses, DevToolsCommand, LoadNetworkResource, LoadAnswered, LoadForwarded

(* Late close and error events of the sockets of earlier runtimes never take
   the newest one away from the proxy. *)
THEOREM NewestRuntimeIsKept == Spec => []RuntimeIsNewest
<1>1. Init => RuntimeInv
  BY DEF Init, RuntimeInv, RuntimeIsNewest
<1>2. RuntimeInv => RuntimeIsNewest
  BY DEF RuntimeInv
<1> QED
  BY <1>1, <1>2, RuntimeStep, PTL DEF Spec

-----------------------------------------------------------------------------
(* Every message once, in order. *)

\* The messages of runtimes that were delivered.
Sent == [i \in DOMAIN delivered |-> delivered[i].message]

Messages == [id : Nat, script : BOOLEAN]

(* What MessagesReachDevTools rests on: the flag about access to files belongs
   to the client that is connected. *)
MessagesInv ==
  /\ \E D : delivered \in Seq(D)
  /\ buffer \in Seq(Messages)
  /\ received \in Seq(Messages)
  /\ devtools # None => fileAccess = (devtools \notin Hosted)
  /\ Sent \o buffer = received
  /\ devtools # None => buffer = <<>>
  /\ \A i \in DOMAIN delivered :
       delivered[i].rewritten = (delivered[i].message.script /\ delivered[i].to \in Hosted)

(* Draining messages msgs to client d delivers them after what was delivered
   before, rewritten as d needs them. *)
LEMMA DrainDelivers ==
  ASSUME MessagesInv, NEW msgs \in Seq(Messages), NEW d,
         delivered' = delivered \o Drain(msgs, d, d \notin Hosted)
  PROVE  /\ \E D : delivered' \in Seq(D)
         /\ Sent' = Sent \o msgs
         /\ \A i \in DOMAIN delivered' :
              delivered'[i].rewritten
                = (delivered'[i].message.script /\ delivered'[i].to \in Hosted)
<1> DEFINE drained == Drain(msgs, d, d \notin Hosted)
           R == {drained[i] : i \in DOMAIN msgs}
<1>1. PICK D : delivered \in Seq(D)
  BY DEF MessagesInv
<1>2. /\ DOMAIN drained = 1..Len(msgs)
      /\ \A i \in 1..Len(msgs) : /\ drained[i].message = msgs[i]
                                 /\ drained[i].to = d
                                 /\ drained[i].rewritten = (msgs[i].script /\ d \in Hosted)
  BY DEF Drain, Delivery
<1>3. drained \in Seq(R)
  BY DEF Drain
<1> HIDE DEF drained, R
<1>4. delivered \in Seq(D \cup R) /\ drained \in Seq(D \cup R)
  BY <1>1, <1>3
<1>5. delivered' \in Seq(D \cup R)
  BY <1>4 DEF drained
<1>6. Len(drained) = Len(msgs)
  BY <1>2, <1>3
<1>7. /\ DOMAIN delivered' = 1..(Len(delivered) + Len(msgs))
      /\ \A i \in 1..Len(delivered) : delivered'[i] = delivered[i]
      /\ \A i \in 1..Len(msgs) : delivered'[Len(delivered) + i] = drained[i]
  BY <1>4, <1>6 DEF drained
<1>8. /\ Len(delivered) \in Nat /\ Len(msgs) \in Nat
      /\ DOMAIN delivered = 1..Len(delivered)
  BY <1>1
<1>9. Sent' = Sent \o msgs
  <2>1. Sent = [i \in 1..Len(delivered) |-> delivered[i].message]
    BY <1>8 DEF Sent
  <2> DEFINE M == {delivered[i].message : i \in 1..Len(delivered)} \cup Messages
  <2>2. Sent \in Seq(M) /\ Len(Sent) = Len(delivered) /\ msgs \in Seq(M)
    <3>1. Sent \in [1..Len(delivered) -> M]
      BY <2>1
    <3>2. Messages \subseteq M
      OBVIOUS
    <3> HIDE DEF M
    <3> QED
      BY <1>8, <3>1, <3>2
  <2> HIDE DEF M
  <2>3. Sent \o msgs = [i \in 1..(Len(delivered) + Len(msgs)) |->
                          IF i <= Len(delivered) THEN Sent[i] ELSE msgs[i - Len(delivered)]]
    <3>1. /\ Sent \o msgs \in Seq(M)
          /\ Len(Sent \o msgs) = Len(Sent) + Len(msgs)
          /\ \A i \in 1..(Len(Sent) + Len(msgs)) :
               (Sent \o msgs)[i] = IF i <= Len(Sent) THEN Sent[i] ELSE msgs[i - Len(Sent)]
      BY <2>2, ConcatProperties, Zenon
    <3>2. Sent \o msgs \in [1..(Len(Sent) + Len(msgs)) -> M]
      BY <3>1, LenProperties
    <3>3. Sent \o msgs = [i \in 1..(Len(Sent) + Len(msgs)) |-> (Sent \o msgs)[i]]
      BY <3>2
    <3> QED
      BY <2>2, <3>1, <3>3, Zenon
  <2>4. Sent' = [i \in 1..(Len(delivered) + Len(msgs)) |-> delivered'[i].message]
    BY <1>7 DEF Sent
  <2>5. ASSUME NEW i \in 1..(Len(delivered) + Len(msgs))
        PROVE  delivered'[i].message
                 = IF i <= Len(delivered) THEN Sent[i] ELSE msgs[i - Len(delivered)]
    <3>1. CASE i <= Len(delivered)
      BY <1>7, <1>8, <2>1, <3>1
    <3>2. CASE ~(i <= Len(delivered))
      <4>1. i - Len(delivered) \in 1..Len(msgs)
        BY <1>8, <3>2
      <4>2. delivered'[i] = drained[i - Len(delivered)]
        BY <1>7, <1>8, <4>1
      <4>3. delivered'[i].message = msgs[i - Len(delivered)]
        BY <1>2, <4>1, <4>2
      <4> QED
        BY <3>2, <4>3
    <3> QED
      BY <3>1, <3>2
  <2> QED
    BY <2>3, <2>4, <2>5
<1>10. ASSUME NEW i \in DOMAIN delivered'
       PROVE  delivered'[i].rewritten
                = (delivered'[i].message.script /\ delivered'[i].to \in Hosted)
  <2>1. CASE i \in 1..Len(delivered)
    BY <1>7, <1>8, <2>1 DEF MessagesInv
  <2>2. CASE i \notin 1..Len(delivered)
    <3>1. i - Len(delivered) \in 1..Len(msgs) /\ i \in Nat
      BY <1>7, <1>8, <2>2
    <3>2. delivered'[i] = drained[i - Len(delivered)]
      BY <1>7, <1>8, <3>1
    <3> QED
      BY <1>2, <3>1, <3>2
  <2> QED
    BY <2>1, <2>2
<1> QED
  BY <1>5, <1>9, <1>10

\* Every step keeps the messages in order.
LEMMA MessagesStep ==
  ASSUME MessagesInv, [Next]_vars
  PROVE  MessagesInv'
<1>1. ASSUME NEW d, d # None, Admit(d), UNCHANGED received PROVE MessagesInv'
  <2>1. CASE devtools # None
    BY <1>1, <2>1 DEF Admit, MessagesInv, Sent, devtoolsVars
  <2>2. CASE devtools = None
    <3>1. /\ devtools' = d /\ fileAccess' = (d \notin Hosted) /\ buffer' = <<>>
          /\ delivered' = delivered \o Drain(buffer, d, d \notin Hosted)
      BY <1>1, <2>2 DEF Admit, Attach
    <3>2. Sent' = received
      BY <3>1, DrainDelivers DEF MessagesInv
    <3>3. Sent' \o buffer' = received'
      BY <1>1, <3>1, <3>2 DEF MessagesInv
    <3> QED
      <4>1. /\ buffer' \in Seq(Messages) /\ received' \in Seq(Messages)
            /\ devtools' # None => fileAccess' = (devtools' \notin Hosted)
        BY <1>1, <3>1 DEF MessagesInv
      <4>2. /\ \E D : delivered' \in Seq(D)
            /\ \A i \in DOMAIN delivered' :
                 delivered'[i].rewritten
                   = (delivered'[i].message.script /\ delivered'[i].to \in Hosted)
        BY <3>1, DrainDelivers DEF MessagesInv
      <4> QED
        BY <3>1, <3>3, <4>1, <4>2 DEF MessagesInv
  <2> QED
    BY <2>1, <2>2
<1>2. ASSUME NEW i \in DOMAIN awaiting, Continue(i) PROVE MessagesInv'
  <2>1. CASE awaiting[i].client # None /\ Admit(awaiting[i].client)
    BY <1>1, <1>2, <2>1 DEF Continue
  <2>2. CASE UNCHANGED <<devtoolsVars, buffer, delivered>>
    BY <1>2, <2>2 DEF Continue, MessagesInv, Sent, devtoolsVars
  <2> QED
    BY <1>2, <2>1, <2>2 DEF Continue
<1>3. ASSUME NEW d \in Clients, DevToolsConnects(d) PROVE MessagesInv'
  <2>1. d # None /\ UNCHANGED received
    BY <1>3, InspectorAssumption DEF DevToolsConnects
  <2>2. Admit(d) \/ UNCHANGED <<devtoolsVars, buffer, delivered>>
    BY <1>3 DEF DevToolsConnects
  <2> QED
    BY <1>1, <2>1, <2>2 DEF MessagesInv, Sent, devtoolsVars
<1>4. ASSUME NEW g \in Reloads, NEW b \in BOOLEAN, RuntimeMessage(g, b) PROVE MessagesInv'
  <2> DEFINE m == Message(Len(received) + 1, b)
             all == Append(buffer, m)
  <2>1. m \in Messages
    BY DEF Message, Messages, MessagesInv
  <2> HIDE DEF m
  <2>2. all \in Seq(Messages) /\ received' = Append(received, m)
        /\ UNCHANGED devtoolsVars /\ received' \in Seq(Messages)
    BY <1>4, <2>1 DEF RuntimeMessage, MessagesInv, m
  <2>3. Sent \o all = received'
    <3>1. PICK D : delivered \in Seq(D)
      BY DEF MessagesInv
    <3>2. \E M : Sent \in Seq(M)
      <4>1. Sent \in Seq({delivered[i].message : i \in DOMAIN delivered})
        BY <3>1 DEF Sent
      <4> QED
        BY <4>1
    <3>3. PICK M : Sent \in Seq(M)
      BY <3>2
    <3>4. Sent \in Seq(M \cup Messages) /\ buffer \in Seq(M \cup Messages)
          /\ m \in M \cup Messages
      BY <2>1, <3>3 DEF MessagesInv
    <3>5. Sent \o Append(buffer, m) = Append(Sent \o buffer, m)
      BY <3>4
    <3> QED
      BY <2>2, <3>5 DEF MessagesInv
  <2>4. CASE devtools = None
    <3>1. buffer' = all /\ UNCHANGED delivered
      BY <1>4, <2>4 DEF RuntimeMessage, m
    <3> QED
      BY <2>2, <2>3, <2>4, <3>1 DEF MessagesInv, Sent, devtoolsVars
  <2>5. CASE devtools # None
    <3>1. buffer' = <<>> /\ delivered' = delivered \o Drain(all, devtools, fileAccess)
      BY <1>4, <2>5 DEF RuntimeMessage, m
    <3>2. fileAccess = (devtools \notin Hosted)
      BY <2>5 DEF MessagesInv
    <3> HIDE DEF all
    <3>3. /\ \E D : delivered' \in Seq(D)
          /\ Sent' = received'
          /\ \A i \in DOMAIN delivered' :
               delivered'[i].rewritten
                 = (delivered'[i].message.script /\ delivered'[i].to \in Hosted)
      BY <2>2, <2>3, <3>1, <3>2, DrainDelivers
    <3>4. Sent' \o buffer' = received'
      BY <2>2, <3>1, <3>3
    <3> QED
      BY <2>2, <3>1, <3>2, <3>3, <3>4 DEF MessagesInv, devtoolsVars
  <2> QED
    BY <2>4, <2>5
<1>5. ASSUME NEW d \in Clients, DevToolsCloses(d) PROVE MessagesInv'
  BY <1>5 DEF DevToolsCloses, MessagesInv, Sent, messageVars
<1>6. CASE UNCHANGED <<devtoolsVars, messageVars>>
  BY <1>6 DEF MessagesInv, Sent, devtoolsVars, messageVars
<1> QED
  BY <1>2, <1>3, <1>4, <1>5, <1>6
  DEF Next, Event, Resume, vars, ReloadComplete, UpgradeOpens, UpgradeRefused,
      UpgradeThrows, RuntimeCloses, DevToolsCommand, LoadNetworkResource, LoadAnswered, LoadForwarded

(* Whatever reloads, reconnecting clients and late messages of old runtimes do,
   every message of a runtime reaches DevTools once and in order, rewritten for
   the client that gets it. *)
THEOREM EveryMessageReachesDevTools == Spec => []MessagesReachDevTools
<1>1. Init => MessagesInv
  <2> SUFFICES ASSUME Init PROVE MessagesInv
    OBVIOUS
  <2>1. delivered \in Seq({}) /\ buffer \in Seq(Messages) /\ received \in Seq(Messages)
    BY DEF Init
  <2>2. Sent = <<>>
    BY DEF Sent, Init
  <2>3. Sent \o buffer = received
    BY <2>2 DEF Init
  <2> QED
    BY <2>1, <2>3 DEF Init, MessagesInv
<1>2. MessagesInv => MessagesReachDevTools
  BY DEF MessagesInv, MessagesReachDevTools, Sent
<1> QED
  BY <1>1, <1>2, MessagesStep, PTL DEF Spec

=============================================================================
