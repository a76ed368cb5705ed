------------------------- MODULE ProxyWorkerProofs -------------------------
(***************************************************************************)
(* For any set of requests and any sequence of pause and play messages:    *)
(* the ProxyWorker keeps every request at one place, holds no new request  *)
(* back while it is playing, and sends only GET and HEAD requests twice.   *)
(***************************************************************************)
EXTENDS ProxyWorker, TLAPS

\* What the retry discipline rests on: a request in the first queue has never
\* been sent, and only a GET or HEAD request gets into the second one.  A
\* request with a pending fetch, or with an answer of the user's Worker, has
\* been sent.
QueueDiscipline ==
  /\ requestQueue \cap sent = {}
  /\ requestRetryQueue \subseteq GetOrHead
  /\ OnlyReadsAreResent

ProxyInv ==
  /\ ProxyTypeOK
  /\ OnePlace
  /\ NothingHeldWhilePlaying
  /\ QueueDiscipline

\* The proxy starts with nothing queued.
LEMMA InitProxyInv == ProxyInit => ProxyInv
BY ProxyAssumption
DEF ProxyInit, ProxyInv, ProxyTypeOK, OnePlace, NothingHeldWhilePlaying,
    QueueDiscipline, OnlyReadsAreResent, Responses, Queued, InFlight, Settled, Arrived

\* processQueue moves what is queued upstream, and keeps the invariant whatever
\* new request has been put into the queue.
LEMMA ProcessQueueKeepsInv ==
  ASSUME ProxyInv, NEW data \in ProxyData \cup {Undefined},
         NEW queue \in SUBSET Requests,
         requestQueue \subseteq queue,
         \A r \in queue \ requestQueue : r \notin Arrived,
         ProcessQueue(data, queue),
         proxyData' = data,
         UNCHANGED response
  PROVE  ProxyInv'
<1> USE ProxyAssumption
<1>1. queue \cap sent = {} /\ queue \cap InFlight = {} /\ queue \cap Settled = {}
      /\ queue \cap requestRetryQueue = {}
  BY DEF ProxyInv, OnePlace, QueueDiscipline, Arrived, Queued
<1>2. CASE data = Undefined
  <2>1. /\ requestQueue' = queue
        /\ UNCHANGED <<requestRetryQueue, inFlight, sent, resent>>
    BY <1>2 DEF ProcessQueue
  <2>2. InFlight' = InFlight /\ Settled' = Settled
    BY <2>1 DEF InFlight, Settled
  <2>3. ProxyTypeOK'
    BY <2>1 DEF ProxyInv, ProxyTypeOK
  <2>4. OnePlace'
    BY <1>1, <2>1, <2>2 DEF ProxyInv, OnePlace, Queued, Arrived
  <2>5. NothingHeldWhilePlaying' /\ QueueDiscipline'
    BY <1>1, <1>2, <2>1
    DEF ProxyInv, NothingHeldWhilePlaying, QueueDiscipline, OnlyReadsAreResent
  <2>6. QED BY <2>3, <2>4, <2>5 DEF ProxyInv
<1>3. CASE data # Undefined
  <2> DEFINE fired == requestRetryQueue \cup queue
  <2>1. /\ requestQueue' = {}
        /\ requestRetryQueue' = {}
        /\ inFlight' = [r \in Requests |-> IF r \in fired THEN data ELSE inFlight[r]]
        /\ sent' = sent \cup fired
        /\ resent' = resent \cup (sent \cap fired)
    BY <1>3 DEF ProcessQueue
  <2>2. fired \subseteq Requests
    BY DEF ProxyInv, ProxyTypeOK
  <2>3. InFlight' = InFlight \cup fired /\ Settled' = Settled
    BY <1>3, <2>1, <2>2 DEF InFlight, Settled, ProxyInv, ProxyTypeOK
  <2>4. ProxyTypeOK'
    BY <2>1, <2>2 DEF ProxyInv, ProxyTypeOK
  <2>5. OnePlace'
    <3>1. fired \cap Settled = {} /\ InFlight \cap Settled = {}
      BY <1>1 DEF ProxyInv, OnePlace, Queued
    <3>2. sent \subseteq requestQueue \cup requestRetryQueue \cup InFlight \cup Settled
      BY DEF ProxyInv, OnePlace, Arrived, Queued
    <3>3. sent' \subseteq InFlight' \cup Settled'
      BY <2>1, <2>3, <3>2
    <3>4. Queued' = {}
      BY <2>1 DEF Queued
    <3>5. QED BY <2>1, <2>3, <3>1, <3>3, <3>4 DEF OnePlace, Arrived
  <2>6. NothingHeldWhilePlaying' /\ QueueDiscipline'
    BY <1>1, <2>1
    DEF ProxyInv, NothingHeldWhilePlaying, QueueDiscipline, OnlyReadsAreResent
  <2>7. QED BY <2>4, <2>5, <2>6 DEF ProxyInv
<1>4. QED BY <1>2, <1>3

\* Settling a pending fetch, in any way, keeps the invariant.
LEMMA SettleKeepsInv ==
  ASSUME ProxyInv, NEW r \in InFlight, NEW how \in Responses \ {"pending"},
         Settle(r, how),
         UNCHANGED <<proxyData, requestQueue, requestRetryQueue, sent, resent>>
  PROVE  ProxyInv'
<1> USE ProxyAssumption
<1>1. r \in Requests
  BY DEF InFlight
<1>2. InFlight' = InFlight \ {r} /\ Settled' = Settled \cup {r}
  BY <1>1 DEF Settle, InFlight, Settled, ProxyInv, ProxyTypeOK, Responses
<1>3. ProxyTypeOK'
  BY <1>1 DEF Settle, ProxyInv, ProxyTypeOK, Responses
<1>4. OnePlace'
  BY <1>2 DEF ProxyInv, OnePlace, Queued, Arrived
<1>5. NothingHeldWhilePlaying' /\ QueueDiscipline'
  BY DEF ProxyInv, NothingHeldWhilePlaying, QueueDiscipline, OnlyReadsAreResent
<1>6. QED BY <1>3, <1>4, <1>5 DEF ProxyInv

\* Every step of the ProxyWorker keeps the invariant.
LEMMA NextProxyInv == ProxyInv /\ [ProxyNext]_proxyVars => ProxyInv'
<1> SUFFICES ASSUME ProxyInv, [ProxyNext]_proxyVars PROVE ProxyInv'
  OBVIOUS
<1> USE ProxyAssumption
<1>1. ASSUME NEW r \in Requests, Fetch(r) PROVE ProxyInv'
  <2>1. proxyData \in ProxyData \cup {Undefined} /\ requestQueue \cup {r} \in SUBSET Requests
    BY DEF ProxyInv, ProxyTypeOK
  <2>2. \A q \in (requestQueue \cup {r}) \ requestQueue : q \notin Arrived
    BY <1>1 DEF Fetch
  <2>3. ProcessQueue(proxyData, requestQueue \cup {r}) /\ UNCHANGED <<proxyData, response>>
    BY <1>1 DEF Fetch
  <2>4. QED BY <2>1, <2>2, <2>3, ProcessQueueKeepsInv
<1>2. ASSUME NEW r \in Requests, Respond(r) PROVE ProxyInv'
  BY <1>2, SettleKeepsInv DEF Respond, Responses
<1>3. ASSUME NEW r \in Requests, NetworkError(r) PROVE ProxyInv'
  <2>1. r \in InFlight /\ UNCHANGED <<proxyData, requestQueue, sent, resent>>
    BY <1>3 DEF NetworkError
  <2>2. CASE Settle(r, "error") /\ UNCHANGED requestRetryQueue
    BY <2>1, <2>2, SettleKeepsInv DEF Responses
  <2>3. CASE Settle(r, "503") /\ UNCHANGED requestRetryQueue
    BY <2>1, <2>3, SettleKeepsInv DEF Responses
  <2>4. CASE /\ CanRetry(r)
             /\ requestRetryQueue' = requestRetryQueue \cup {r}
             /\ inFlight' = [inFlight EXCEPT ![r] = Undefined]
             /\ UNCHANGED response
    <3>1. InFlight' = InFlight \ {r} /\ Settled' = Settled
      BY <2>4 DEF InFlight, Settled, ProxyInv, ProxyTypeOK
    <3>2. ProxyTypeOK'
      BY <2>1, <2>4 DEF ProxyInv, ProxyTypeOK
    <3>3. OnePlace'
      BY <2>1, <2>4, <3>1 DEF ProxyInv, OnePlace, Queued, Arrived
    <3>4. NothingHeldWhilePlaying' /\ QueueDiscipline'
      BY <2>1, <2>4
      DEF ProxyInv, NothingHeldWhilePlaying, QueueDiscipline, OnlyReadsAreResent, CanRetry
    <3>5. QED BY <3>2, <3>3, <3>4 DEF ProxyInv
  <2>5. QED BY <1>3, <2>2, <2>3, <2>4 DEF NetworkError
<1>4. CASE Pause
  BY <1>4
  DEF Pause, ProxyInv, ProxyTypeOK, OnePlace, NothingHeldWhilePlaying,
      QueueDiscipline, OnlyReadsAreResent, Queued, InFlight, Settled, Arrived
<1>5. ASSUME NEW d \in ProxyData, Play(d) PROVE ProxyInv'
  <2>1. requestQueue \in SUBSET Requests
    BY DEF ProxyInv, ProxyTypeOK
  <2>2. ProcessQueue(d, requestQueue) /\ proxyData' = d /\ UNCHANGED response
    BY <1>5 DEF Play
  <2>3. QED BY <2>1, <2>2, ProcessQueueKeepsInv
<1>6. CASE UNCHANGED proxyVars
  BY <1>6
  DEF proxyVars, ProxyInv, ProxyTypeOK, OnePlace, NothingHeldWhilePlaying,
      QueueDiscipline, OnlyReadsAreResent, Queued, InFlight, Settled, Arrived
<1>7. QED BY <1>1, <1>2, <1>3, <1>4, <1>5, <1>6 DEF ProxyNext, Request

\* The ProxyWorker never loses, duplicates or answers twice a request
\* (processQueue and the callbacks of its fetches).
THEOREM RequestsAreAtOnePlace == ProxySpec => [](ProxyTypeOK /\ OnePlace)
<1>1. ProxyInv => ProxyTypeOK /\ OnePlace
  BY DEF ProxyInv
<1>2. QED BY <1>1, InitProxyInv, NextProxyInv, PTL DEF ProxySpec

\* Whatever order requests, pause and play messages and network errors come in,
\* a playing proxy holds no new request back (fetch and the play message call
\* processQueue).
THEOREM HeldOnlyWhilePaused == ProxySpec => []NothingHeldWhilePlaying
<1>1. ProxyInv => NothingHeldWhilePlaying
  BY DEF ProxyInv
<1>2. QED BY <1>1, InitProxyInv, NextProxyInv, PTL DEF ProxySpec

\* Only GET and HEAD requests are sent a second time, also when they were queued
\* and requeued (the catch-callback of processQueue).
THEOREM EffectsAreNotRepeated == ProxySpec => []OnlyReadsAreResent
<1>1. ProxyInv => OnlyReadsAreResent
  BY DEF ProxyInv, QueueDiscipline
<1>2. QED BY <1>1, InitProxyInv, NextProxyInv, PTL DEF ProxySpec

=============================================================================
