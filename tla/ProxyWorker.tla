----------------------------- MODULE ProxyWorker -----------------------------
(***************************************************************************)
(* The proxy in front of the user's Worker in `wrangler dev`               *)
(* (packages/wrangler/templates/startDevWorker/ProxyWorker.ts).  While the *)
(* user's Worker is being rebuilt the proxy is paused: it holds requests   *)
(* back, and sends them on when the controller says play.                  *)
(*                                                                         *)
(* Each callback runs to completion; a request that was sent on is settled *)
(* by a later callback, which finds proxyData as it is by then.  The       *)
(* queues are sets: all their requests are fired in one synchronous loop.  *)
(* URL and header rewriting and the live-reload WebSockets, which share no *)
(* state with the queues, are left out.                                    *)
(***************************************************************************)
EXTENDS FiniteSets

CONSTANTS
  Requests,
  GetOrHead,       \* the requests whose method is GET or HEAD
  RootRequests,    \* the requests for "/", without a query
  ProxyData,       \* payloads of play messages
  UserWorkerUrl,   \* UserWorkerUrl[d]: origin of d.userWorkerUrl
  Undefined

ASSUME ProxyAssumption ==
  /\ GetOrHead \subseteq Requests
  /\ RootRequests \subseteq Requests
  /\ DOMAIN UserWorkerUrl = ProxyData
  /\ Undefined \notin ProxyData

VARIABLES
  proxyData,           \* Undefined: paused
  requestQueue,
  requestRetryQueue,
  inFlight,            \* inFlight[r]: the proxyData captured by r's pending fetch
  response,            \* response[r]: how r's deferred response was settled
  sent, resent         \* requests sent at least once, at least twice (history)

proxyVars ==
  <<proxyData, requestQueue, requestRetryQueue, inFlight, response, sent, resent>>

Responses == {"pending", "response", "error", "503"}

Queued == requestQueue \cup requestRetryQueue
InFlight == {r \in Requests : inFlight[r] # Undefined}
Settled == {r \in Requests : response[r] # "pending"}
Arrived == Queued \cup InFlight \cup Settled

ProxyInit ==
  /\ proxyData = Undefined
  /\ requestQueue = {}
  /\ requestRetryQueue = {}
  /\ inFlight = [r \in Requests |-> Undefined]
  /\ response = [r \in Requests |-> "pending"]
  /\ sent = {}
  /\ resent = {}

-----------------------------------------------------------------------------
\* Mutant: requests that are retried stay in their queue.
ProcessQueue_KeepsRetries(data, queue) ==
  IF data = Undefined
  THEN /\ requestQueue' = queue
       /\ UNCHANGED <<requestRetryQueue, inFlight, sent, resent>>
  ELSE LET fired == requestRetryQueue \cup queue
       IN  /\ requestQueue' = {}
           /\ inFlight' = [r \in Requests |-> IF r \in fired THEN data ELSE inFlight[r]]
           /\ sent' = sent \cup fired
           /\ resent' = resent \cup (sent \cap fired)
           /\ UNCHANGED requestRetryQueue

\* processQueue, with proxyData = data and requestQueue = queue.
ProcessQueue(data, queue) ==
  IF data = Undefined
  THEN /\ requestQueue' = queue
       /\ UNCHANGED <<requestRetryQueue, inFlight, sent, resent>>
  ELSE LET fired == requestRetryQueue \cup queue
       IN  /\ requestQueue' = {}
           /\ requestRetryQueue' = {}
           /\ inFlight' = [r \in Requests |-> IF r \in fired THEN data ELSE inFlight[r]]
           /\ sent' = sent \cup fired
           /\ resent' = resent \cup (sent \cap fired)

\* fetch, for a request to be proxied.
Fetch(r) ==
  /\ r \notin Arrived
  /\ ProcessQueue(proxyData, requestQueue \cup {r})
  /\ UNCHANGED <<proxyData, response>>

\* Mutant: what was held back before is forgotten.
Pause_DropsRequests ==
  /\ proxyData' = Undefined
  /\ requestQueue' = {}
  /\ UNCHANGED <<requestRetryQueue, inFlight, response, sent, resent>>

\* processProxyControllerRequest, "pause".
Pause ==
  /\ proxyData' = Undefined
  /\ UNCHANGED <<requestQueue, requestRetryQueue, inFlight, response, sent, resent>>

\* Mutant: play does not look at the queues.
Play_NoProcessing(d) ==
  /\ proxyData' = d
  /\ UNCHANGED <<requestQueue, requestRetryQueue, inFlight, response, sent, resent>>

\* processProxyControllerRequest, "play".
Play(d) ==
  /\ proxyData' = d
  /\ ProcessQueue(d, requestQueue)
  /\ UNCHANGED response

Settle(r, how) ==
  /\ inFlight' = [inFlight EXCEPT ![r] = Undefined]
  /\ response' = [response EXCEPT ![r] = how]

\* The user's Worker answers: the fetch's then-callback.
Respond(r) ==
  /\ r \in InFlight
  /\ Settle(r, "response")
  /\ UNCHANGED <<proxyData, requestQueue, requestRetryQueue, sent, resent>>

\* The comparison of href's: that of the request's URL has its path and
\* query, that of the current proxyData.userWorkerUrl has none.
SameHref(r) ==
  /\ proxyData # Undefined
  /\ UserWorkerUrl[inFlight[r]] = UserWorkerUrl[proxyData]
  /\ r \in RootRequests

\* Mutant: every request is retried.
CanRetry_Always(r) == TRUE

CanRetry(r) == r \in GetOrHead

\* A network error: the fetch's catch-callback.
NetworkError(r) ==
  /\ r \in InFlight
  /\ \/ /\ SameHref(r)
        /\ Settle(r, "error")
        /\ UNCHANGED requestRetryQueue
     \/ /\ ~SameHref(r)
        /\ CanRetry(r)
        /\ requestRetryQueue' = requestRetryQueue \cup {r}
        /\ inFlight' = [inFlight EXCEPT ![r] = Undefined]
        /\ UNCHANGED response
     \/ /\ ~SameHref(r)
        /\ ~CanRetry(r)
        /\ Settle(r, "503")
        /\ UNCHANGED requestRetryQueue
  /\ UNCHANGED <<proxyData, requestQueue, sent, resent>>

Request(r) == Fetch(r) \/ Respond(r) \/ NetworkError(r)

ProxyNext ==
  \/ \E r \in Requests : Request(r)
  \/ Pause
  \/ \E d \in ProxyData : Play(d)

ProxySpec == ProxyInit /\ [][ProxyNext]_proxyVars

-----------------------------------------------------------------------------
\* Type correctness: what each queue and each captured proxyData may hold.
ProxyTypeOK ==
  /\ proxyData \in ProxyData \cup {Undefined}
  /\ requestQueue \subseteq Requests
  /\ requestRetryQueue \subseteq Requests
  /\ inFlight \in [Requests -> ProxyData \cup {Undefined}]
  /\ response \in [Requests -> Responses]
  /\ sent \subseteq Requests
  /\ resent \subseteq sent

\* A request that arrived is at one place: in one of the queues, sent and
\* awaited, or answered.  So none is dropped, none is fetched a second time
\* while a fetch of it is pending, and none is settled twice.
OnePlace ==
  /\ requestQueue \cap requestRetryQueue = {}
  /\ Queued \cap InFlight = {}
  /\ (Queued \cup InFlight) \cap Settled = {}
  /\ sent \subseteq Arrived

\* No new request is held back while the proxy is playing: fetch and play both
\* process the queue, whatever order they come in.
NothingHeldWhilePlaying == proxyData # Undefined => requestQueue = {}

\* "It would be incorrect to retry non-idempotent requests": only GET and HEAD
\* requests reach the user's Worker more than once.
OnlyReadsAreResent == resent \subseteq GetOrHead

\* "This request will be processed (retried) when the play message arrives":
\* what waits while the proxy is paused, new or retried, is sent to the user's
\* Worker if the proxy is ever played again, or is failed by a restart of the
\* proxy's process before that.  That the proxy is played is a premise: a build
\* that fails leaves it paused.
HeldRequestsAreSent ==
  \A r \in Requests :
    (r \in Queued /\ proxyData = Undefined /\ <>(proxyData # Undefined))
      ~> (r \in InFlight \/ response[r] = "error")

\* processQueue's catch-callback requeues a request without processing the
\* queue since "we are in a `pause`d state and expecting a `play` message soon".
RetriesAwaitPlay == requestRetryQueue # {} => proxyData = Undefined
=============================================================================
