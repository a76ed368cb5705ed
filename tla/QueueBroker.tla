---------------------------- MODULE QueueBroker ----------------------------
(***************************************************************************)
(* Miniflare's simulator of Cloudflare Queues: one QueueBrokerObject per   *)
(* queue (packages/miniflare/src/workers/queues/broker.worker.ts).         *)
(*                                                                         *)
(* A broker keeps its messages in memory.  Producers send messages, each   *)
(* of which waits in a timer of its own before it joins #messages; one     *)
(* more timer, #pendingFlush, dispatches a batch to the consumer Worker.   *)
(* Messages the consumer did not accept are retried, moved to the dead     *)
(* letter queue or dropped.                                                *)
(*                                                                         *)
(* JavaScript runs each callback to its next await, so one action is the   *)
(* code between two awaits.  Timers may fire in any order.                 *)
(***************************************************************************)
EXTENDS Naturals, Sequences, FiniteSets

CONSTANTS
  Queues,           \* names of the queues, one broker object each
  Ids,              \* message ids (bounds the number of messages sent)
  FlushIds,         \* executions of #flush (bounds those awaiting at once)
  NoQueue,          \* stands for an absent queue name
  Consumers,        \* the queues some Worker consumes
  BatchSize,        \* maxBatchSize of each consumer
  BatchTimeout,     \* maxBatchTimeout of each consumer, only "= 0" matters
  MaxRetries,       \* maxRetires (sic) of each consumer
  DeadLetterQueue,  \* deadLetterQueue of each consumer, or NoQueue
  FlushCanThrow     \* may a log call, or the dead letter queue's fetch, reject?

\* The schema admits a maximum batch size of 0, and index.ts rejects only a
\* queue that is its own dead letter queue.
ASSUME BrokerAssumption ==
  /\ NoQueue \notin Queues
  /\ Consumers \subseteq Queues
  /\ BatchSize \in [Queues -> Nat]
  /\ BatchTimeout \in [Queues -> Nat]
  /\ MaxRetries \in [Queues -> Nat]
  /\ DeadLetterQueue \in [Queues -> Queues \cup {NoQueue}]
  /\ \A q \in Queues : DeadLetterQueue[q] # q
  /\ FlushCanThrow \in BOOLEAN

VARIABLES
  delayed,       \* delayed[q]: messages waiting in a setTimeout of broker q
  messages,      \* messages[q]: #messages of broker q
  pendingFlush,  \* pendingFlush[q]: #pendingFlush of broker q
  strayTimers,   \* strayTimers[q]: armed flush timers #pendingFlush forgot
  flushes,       \* flushes[f]: the local variables of execution f of #flush
  failed,        \* failed[m]: #failedAttempts of message m
  sent,          \* messages some producer sent
  acked,         \* messages a consumer accepted
  dropped        \* messages the broker gave up

vars == <<delayed, messages, pendingFlush, strayTimers, flushes, failed,
          sent, acked, dropped>>

-----------------------------------------------------------------------------
(* #pendingFlush is undefined, or knows whether it is immediate and holds a
   timer handle; all clearTimeout() can see of a handle is whether its timer
   is still armed. *)

None == [immediate |-> FALSE, armed |-> FALSE, set |-> FALSE]
Flush(isImmediate) == [immediate |-> isImmediate, armed |-> TRUE, set |-> TRUE]

PendingFlushes == [immediate : BOOLEAN, armed : BOOLEAN, set : BOOLEAN]

Stages == {"idle", "dispatch", "retry", "deadletter", "threw"}
Idle == [queue |-> NoQueue, stage |-> "idle", batch |-> {}, dead |-> {}]

Flushes == [queue : Queues \cup {NoQueue}, stage : Stages,
            batch : SUBSET Ids, dead : SUBSET Ids]

MaxAttempts(q) == MaxRetries[q] + 1

Smaller(a, b) == IF a < b THEN a ELSE b

Elements(s) == {s[i] : i \in 1..Len(s)}

Init ==
  /\ delayed = [q \in Queues |-> {}]
  /\ messages = [q \in Queues |-> <<>>]
  /\ pendingFlush = [q \in Queues |-> None]
  /\ strayTimers = [q \in Queues |-> 0]
  /\ flushes = [f \in FlushIds |-> Idle]
  /\ failed = [m \in Ids |-> 0]
  /\ sent = {}
  /\ acked = {}
  /\ dropped = {}

-----------------------------------------------------------------------------
(* #ensurePendingFlush with n messages queued: keep the pending flush if it
   is immediate or the batch still has space; otherwise clear its timer (a
   no-op when it has fired) and register a new one. *)
EnsurePendingFlush(q, pending, n) ==
  LET hasSpace == n < BatchSize[q]
  IN  IF pending.set /\ (pending.immediate \/ hasSpace)
      THEN pending
      ELSE Flush(~hasSpace \/ BatchTimeout[q] = 0)

\* Mutant: the message object keeps its failed attempts in the next queue.
Enqueue_KeepsAttempts(q, ms) ==
  /\ delayed' = [delayed EXCEPT ![q] = @ \cup ms]
  /\ UNCHANGED failed

\* #enqueue: every message waits in a timer of its own, as a new QueueMessage.
Enqueue(q, ms) ==
  /\ delayed' = [delayed EXCEPT ![q] = @ \cup ms]
  /\ failed' = [m \in Ids |-> IF m \in ms THEN 0 ELSE failed[m]]

\* The message and batch endpoints: a queue without consumer drops messages.
Send(q, ms) ==
  /\ sent' = sent \cup ms
  /\ IF q \in Consumers
     THEN Enqueue(q, ms) /\ UNCHANGED dropped
     ELSE dropped' = dropped \cup ms /\ UNCHANGED <<delayed, failed>>
  /\ UNCHANGED <<messages, pendingFlush, strayTimers, flushes, acked>>

SendMessage(q, m) == m \notin sent /\ Send(q, {m})

SendBatch(q, ms) == ms \cap sent = {} /\ Send(q, ms)

\* The closure fn of a message's timer, set in #enqueue or in #flush.
Deliver(q, m) ==
  /\ m \in delayed[q]
  /\ delayed' = [delayed EXCEPT ![q] = @ \ {m}]
  /\ messages' = [messages EXCEPT ![q] = Append(@, m)]
  /\ pendingFlush' = [pendingFlush EXCEPT
                        ![q] = EnsurePendingFlush(q, @, Len(messages[q]) + 1)]
  /\ UNCHANGED <<strayTimers, flushes, failed, sent, acked, dropped>>

-----------------------------------------------------------------------------
\* Mutant: splice removes one message more than it returns.
Remaining_SkipsOne(q) ==
  SubSeq(messages[q], Smaller(BatchSize[q], Len(messages[q])) + 2,
         Len(messages[q]))

\* this.#messages.splice(0, batchSize): the batch and what stays.
Spliced(q) == LET n == Smaller(BatchSize[q], Len(messages[q]))
              IN  Elements(SubSeq(messages[q], 1, n))
Remaining(q) == LET n == Smaller(BatchSize[q], Len(messages[q]))
                IN  SubSeq(messages[q], n + 1, Len(messages[q]))

\* The start of #flush, up to the await of the consumer's answer.
StartFlush(q, f) ==
  /\ flushes[f] = Idle
  /\ messages' = [messages EXCEPT ![q] = Remaining(q)]
  /\ flushes' = [flushes EXCEPT ![f] = [queue |-> q, stage |-> "dispatch",
                                        batch |-> Spliced(q), dead |-> {}]]
  /\ UNCHANGED <<delayed, failed, sent, acked, dropped>>

\* The timer #pendingFlush holds fires; #pendingFlush itself is left as it is.
FirePending(q, f) ==
  /\ pendingFlush[q].armed
  /\ pendingFlush' = [pendingFlush EXCEPT ![q].armed = FALSE]
  /\ UNCHANGED strayTimers
  /\ StartFlush(q, f)

\* A timer fires whose handle an ending #flush overwrote.
FireStray(q, f) ==
  /\ strayTimers[q] > 0
  /\ strayTimers' = [strayTimers EXCEPT ![q] = @ - 1]
  /\ UNCHANGED pendingFlush
  /\ StartFlush(q, f)

\* The consumer answers, accepting all but the messages rs: none, some
\* (retryMessages) or all of the batch (retryBatch, or any other outcome).
Respond(f, rs) ==
  /\ flushes[f].stage = "dispatch"
  /\ rs \subseteq flushes[f].batch
  /\ flushes' = [flushes EXCEPT ![f].stage = "retry", ![f].batch = rs]
  /\ acked' = acked \cup (flushes[f].batch \ rs)
  /\ UNCHANGED <<delayed, messages, pendingFlush, strayTimers, failed, sent,
                 dropped>>

\* Mutant: off by one in the retry budget.
Retryable_OffByOne(q, n) == n <= MaxAttempts(q)

\* May a message that has now failed n times be tried again?
Retryable(q, n) == n < MaxAttempts(q)

\* Mutant: the attempts count down.
RetryMessage_CountsDown(f, m) ==
  /\ flushes[f].stage = "retry"
  /\ m \in flushes[f].batch
  /\ failed' = [failed EXCEPT ![m] = @ - 1]
  /\ delayed' = [delayed EXCEPT ![flushes[f].queue] = @ \cup {m}]
  /\ flushes' = [flushes EXCEPT ![f].batch = @ \ {m}]
  /\ UNCHANGED <<messages, pendingFlush, strayTimers, sent, acked, dropped>>

\* One turn of #flush's loop: the message's log call has returned.
RetryMessage(f, m) ==
  LET q == flushes[f].queue
      n == failed[m] + 1
  IN  /\ flushes[f].stage = "retry"
      /\ m \in flushes[f].batch
      /\ failed' = [failed EXCEPT ![m] = n]
      /\ \/ /\ Retryable(q, n)
            /\ delayed' = [delayed EXCEPT ![q] = @ \cup {m}]
            /\ flushes' = [flushes EXCEPT ![f].batch = @ \ {m}]
            /\ UNCHANGED dropped
         \/ /\ ~Retryable(q, n)
            /\ DeadLetterQueue[q] # NoQueue
            /\ flushes' = [flushes EXCEPT ![f].batch = @ \ {m},
                                          ![f].dead = @ \cup {m}]
            /\ UNCHANGED <<delayed, dropped>>
         \/ /\ ~Retryable(q, n)
            /\ DeadLetterQueue[q] = NoQueue
            /\ flushes' = [flushes EXCEPT ![f].batch = @ \ {m}]
            /\ dropped' = dropped \cup {m}
            /\ UNCHANGED delayed
      /\ UNCHANGED <<messages, pendingFlush, strayTimers, sent, acked>>

\* Mutants: no flush follows; one follows even when no message waits.
FlushAgain_Never(q) == None
FlushAgain_Always(q) == EnsurePendingFlush(q, None, Len(messages[q]))

\* What #flush leaves in #pendingFlush once its last log call has returned.
FlushAgain(q) == IF messages[q] = <<>>
                 THEN None
                 ELSE EnsurePendingFlush(q, None, Len(messages[q]))

\* The end of #flush.  Whatever flush #pendingFlush held is forgotten, though
\* its timer may still be armed; dead messages go to the dead letter queue.
EndFlush(f) ==
  LET q == flushes[f].queue
  IN  /\ flushes[f].stage = "retry"
      /\ flushes[f].batch = {}
      /\ pendingFlush' = [pendingFlush EXCEPT ![q] = FlushAgain(q)]
      /\ strayTimers' = [strayTimers EXCEPT
                           ![q] = IF pendingFlush[q].armed THEN @ + 1 ELSE @]
      /\ flushes' = [flushes EXCEPT
                       ![f] = IF @.dead = {} THEN Idle
                              ELSE [@ EXCEPT !.stage = "deadletter"]]
      /\ UNCHANGED <<delayed, messages, failed, sent, acked, dropped>>

\* The dead letter queue's broker handles the batch request #flush sent it.
MoveToDeadLetterQueue(f) ==
  LET d == DeadLetterQueue[flushes[f].queue]
  IN  /\ flushes[f].stage = "deadletter"
      /\ IF d \in Consumers
         THEN Enqueue(d, flushes[f].dead) /\ UNCHANGED dropped
         ELSE /\ dropped' = dropped \cup flushes[f].dead
              /\ UNCHANGED <<delayed, failed>>
      /\ flushes' = [flushes EXCEPT ![f] = Idle]
      /\ UNCHANGED <<messages, pendingFlush, strayTimers, sent, acked>>

\* A log call of #flush rejects, or its request to the dead letter queue does
\* before it is handled, and #flush ends there: no later line runs, and the
\* messages it still had are lost with it.
FlushThrows(f) ==
  /\ FlushCanThrow
  /\ flushes[f].stage \in {"dispatch", "retry", "deadletter"}
  /\ flushes' = [flushes EXCEPT ![f].stage = "threw"]
  /\ UNCHANGED <<delayed, messages, pendingFlush, strayTimers, failed, sent,
                 acked, dropped>>

-----------------------------------------------------------------------------
\* A batch of one message has the effect of sendMessage.
Produce == \E q \in Queues :
             \/ \E m \in Ids : SendMessage(q, m)
             \/ \E ms \in SUBSET Ids : Cardinality(ms) > 1 /\ SendBatch(q, ms)

Timer(q) == \/ \E m \in Ids : Deliver(q, m)
            \/ \E f \in FlushIds : FirePending(q, f)
            \/ \E f \in FlushIds : FireStray(q, f)

Continue(f) == \/ \E rs \in SUBSET Ids : Respond(f, rs)
               \/ \E m \in Ids : RetryMessage(f, m)
               \/ EndFlush(f)
               \/ MoveToDeadLetterQueue(f)

Next == \/ Produce
        \/ \E q \in Queues : Timer(q)
        \/ \E f \in FlushIds : Continue(f) \/ FlushThrows(f)

Spec == Init /\ [][Next]_vars

(* Timers fire, consumers answer (workerd settles every queue event), and an
   await that settled resumes.  Producers need not send.  Queues without a
   consumer set no timers. *)
Fairness ==
  /\ \A q \in Consumers :
       /\ WF_vars(\E m \in Ids : Deliver(q, m))
       /\ WF_vars(\E f \in FlushIds : FirePending(q, f))
       /\ WF_vars(\E f \in FlushIds : FireStray(q, f))
  /\ \A f \in FlushIds : WF_vars(Continue(f))

FairSpec == Spec /\ Fairness

-----------------------------------------------------------------------------
\* Type correctness.
TypeOK ==
  /\ delayed \in [Queues -> SUBSET Ids]
  /\ messages \in [Queues -> Seq(Ids)]
  /\ pendingFlush \in [Queues -> PendingFlushes]
  /\ strayTimers \in [Queues -> Nat]
  /\ flushes \in [FlushIds -> Flushes]
  /\ failed \in [Ids -> Nat]
  /\ sent \subseteq Ids
  /\ acked \subseteq Ids
  /\ dropped \subseteq Ids

\* A flush of q has yet to run its last lines, which flush again, or it threw
\* before it came to them: then nothing is promised for q.
Flushing(q) ==
  \E f \in FlushIds : /\ flushes[f].queue = q
                      /\ flushes[f].stage \in {"dispatch", "retry", "threw"}

(* No lost wakeup.  While messages wait in #messages, a flush timer is armed
   or a flush is under way that flushes again when it ends: the comment
   "Ensure we flush again if we still have messages" holds on every
   interleaving of deliveries and overlapping flushes. *)
NoLostWakeup ==
  \A q \in Queues :
    messages[q] # <<>> => pendingFlush[q].armed \/ Flushing(q)

(* A full batch does not wait for the batch timeout: an immediate flush is
   registered, or one is under way that re-registers when it ends ("the batch
   is full, so clear the existing timeout, and register an immediate flush"). *)
FullBatchIsImmediate ==
  \A q \in Queues :
    /\ messages[q] # <<>>
    /\ Len(messages[q]) >= BatchSize[q]
    => \/ pendingFlush[q].armed /\ pendingFlush[q].immediate
       \/ Flushing(q)

(* #pendingFlush never goes stale: when it is set, its own timer is armed or
   some flush is under way that will reset it.  A stale immediate flush would
   make #ensurePendingFlush return early for ever. *)
PendingFlushIsLive ==
  \A q \in Queues : pendingFlush[q].set => pendingFlush[q].armed \/ Flushing(q)

(* The three together: as long as no flush of its queue threw,
   whatever waits has a flush on its way, at once if a batch is full. *)
FlushesAreScheduled ==
  NoLostWakeup /\ FullBatchIsImmediate /\ PendingFlushIsLive

(* Where a message can be: in a delivery timer, in #messages, in a running
   #flush, or settled.  Each home is a value, so that homes can be compared. *)
Homes(m) ==
  {<<"delayed", q>> : q \in {p \in Queues : m \in delayed[p]}}
    \cup (UNION {{<<"messages", q, i>> :
                    i \in {j \in 1..Len(messages[q]) : messages[q][j] = m}} :
                  q \in Queues})
    \cup {<<"batch", f>> : f \in {g \in FlushIds : m \in flushes[g].batch}}
    \cup {<<"dead", f>> : f \in {g \in FlushIds : m \in flushes[g].dead}}
    \cup {<<"acked">> : n \in acked \cap {m}}
    \cup {<<"dropped">> : n \in dropped \cap {m}}

(* Neither lost nor duplicated: across retries, overlapping flushes and moves
   between queues a sent message is in exactly one place (one of which is a
   #flush that threw), an unsent one nowhere. *)
Conservation ==
  \A m \in Ids : Cardinality(Homes(m)) = IF m \in sent THEN 1 ELSE 0

(* The retry budget: a message that queue q may still hand to its consumer
   has failed there fewer than MaxAttempts(q) times, whichever queues it came
   through, and one on its way to the dead letter queue exactly so often. *)
AttemptsBounded ==
  /\ \A q \in Queues : \A m \in delayed[q] \cup Elements(messages[q]) :
       failed[m] < MaxAttempts(q)
  /\ \A f \in FlushIds :
       /\ \A m \in flushes[f].batch : failed[m] < MaxAttempts(flushes[f].queue)
       /\ \A m \in flushes[f].dead : failed[m] = MaxAttempts(flushes[f].queue)

\* A call that some #flush made failed, and that #flush ended there.
SomeFlushThrew == \E f \in FlushIds : flushes[f].stage = "threw"

\* Every message sent is at last accepted or given up, unless a #flush throws
\* (batches of at least one message, dead letter queues that form no cycle).
EverySentSettles ==
  \A m \in Ids : m \in sent ~> m \in acked \cup dropped \/ SomeFlushThrew

\* The brokers come to rest: stray timers and empty flushes do not keep
\* re-arming one another once producers stop.
EventuallyAtRest ==
  <>[](\/ SomeFlushThrew
       \/ /\ \A q \in Queues : ~pendingFlush[q].set /\ strayTimers[q] = 0
          /\ \A f \in FlushIds : flushes[f] = Idle)

-----------------------------------------------------------------------------
(* The brokers implement QueueDelivery: the refinement mapping forgets timers
   and flushes and says of each message where it is. *)

InFlush(m, stage) == \E f \in FlushIds : flushes[f].stage = stage
                                         /\ m \in flushes[f].batch
IsLost(m) == \E f \in FlushIds : /\ flushes[f].stage = "threw"
                                 /\ m \in flushes[f].batch \cup flushes[f].dead
IsDead(m) == ~IsLost(m) /\ \E f \in FlushIds : m \in flushes[f].dead
IsQueued(m) == \E q \in Queues : m \in delayed[q] \cup Elements(messages[q])

StatusOf(m) ==
  CASE m \notin sent -> "unsent"
    [] m \in acked -> "acked"
    [] m \in dropped -> "dropped"
    [] IsQueued(m) -> "waiting"
    [] InFlush(m, "dispatch") -> "dispatched"
    [] InFlush(m, "retry") -> "rejected"
    [] IsLost(m) -> "lost"
    [] IsDead(m) -> "dead"

MappedStatus == [m \in Ids |-> StatusOf(m)]

Holds(q, m) == \/ m \in delayed[q] \cup Elements(messages[q])
               \/ \E f \in FlushIds : /\ flushes[f].queue = q
                                      /\ m \in flushes[f].batch \cup flushes[f].dead

MappedAt ==
  [m \in Ids |-> IF \E q \in Queues : Holds(q, m)
                 THEN CHOOSE q \in Queues : Holds(q, m)
                 ELSE NoQueue]

Delivery == INSTANCE QueueDelivery
              WITH status <- MappedStatus, at <- MappedAt, attempts <- failed

(* Whatever the timers do, users see only the message lives of QueueDelivery:
   batches within the limit, a bounded number of attempts per queue, no
   settled message delivered again. *)
ImplementsDelivery == Delivery!Spec

=============================================================================
