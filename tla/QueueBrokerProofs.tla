------------------------- MODULE QueueBrokerProofs -------------------------
(***************************************************************************)
(* Proofs about QueueBroker, for any number of queues, messages and        *)
(* concurrent flushes and for any consumer configuration.                  *)
(***************************************************************************)
EXTENDS QueueBroker, FiniteSetTheorems, TLAPS

-----------------------------------------------------------------------------
(* Type correctness. *)

\* A running flush belongs to a queue.
FlushesHaveQueue ==
  \A f \in FlushIds : flushes[f].stage # "idle" => flushes[f].queue \in Queues

\* The inductive form of type correctness.
TypeInv == TypeOK /\ FlushesHaveQueue

\* #ensurePendingFlush leaves a well-formed pending flush.
LEMMA EnsurePendingFlushType ==
  ASSUME NEW q \in Queues, NEW p \in PendingFlushes, NEW n \in Nat
  PROVE  EnsurePendingFlush(q, p, n) \in PendingFlushes
BY BrokerAssumption DEF EnsurePendingFlush, PendingFlushes, Flush

\* Splitting #messages yields a batch of messages and a list of messages.
LEMMA SpliceType ==
  ASSUME NEW q \in Queues, messages \in [Queues -> Seq(Ids)]
  PROVE  /\ Spliced(q) \subseteq Ids
         /\ Remaining(q) \in Seq(Ids)
<1> DEFINE n == Smaller(BatchSize[q], Len(messages[q]))
<1>1. messages[q] \in Seq(Ids) /\ n \in Nat /\ n <= Len(messages[q])
  BY BrokerAssumption DEF Smaller
<1>2. SubSeq(messages[q], 1, n) \in Seq(Ids)
  BY <1>1
<1>3. SubSeq(messages[q], n + 1, Len(messages[q])) \in Seq(Ids)
  BY <1>1
<1> QED
  BY <1>2, <1>3 DEF Spliced, Remaining, Elements

\* #enqueue keeps the delivery timers and the attempts well typed.
LEMMA EnqueueType ==
  ASSUME TypeOK, NEW q \in Queues, NEW ms \in SUBSET Ids, Enqueue(q, ms)
  PROVE  delayed' \in [Queues -> SUBSET Ids] /\ failed' \in [Ids -> Nat]
<1>1. delayed' \in [Queues -> SUBSET Ids]
  BY DEF TypeOK, Enqueue
<1>2. failed' \in [Ids -> Nat]
  BY DEF TypeOK, Enqueue
<1> QED
  BY <1>1, <1>2

\* The initial state is well typed.
LEMMA InitTypeInv == Init => TypeInv
BY BrokerAssumption
   DEF Init, TypeInv, TypeOK, FlushesHaveQueue, PendingFlushes, None, Flushes,
       Stages, Idle

\* Every step preserves the type invariant.
LEMMA NextTypeInv ==
  ASSUME TypeInv, [Next]_vars
  PROVE  TypeInv'
<1> USE DEF TypeInv, TypeOK, FlushesHaveQueue
<1>1. ASSUME NEW q \in Queues, NEW ms \in SUBSET Ids, Send(q, ms)
      PROVE  TypeInv'
  <2>1. CASE q \in Consumers
    BY <1>1, <2>1, EnqueueType DEF Send
  <2>2. CASE q \notin Consumers
    BY <1>1, <2>2 DEF Send
  <2> QED
    BY <2>1, <2>2
<1>2. ASSUME NEW q \in Queues, NEW m \in Ids, Deliver(q, m)
      PROVE  TypeInv'
  <2>1. EnsurePendingFlush(q, pendingFlush[q], Len(messages[q]) + 1)
          \in PendingFlushes
    BY EnsurePendingFlushType
  <2>2. Append(messages[q], m) \in Seq(Ids)
    OBVIOUS
  <2> QED
    BY <1>2, <2>1, <2>2 DEF Deliver
<1>3. ASSUME NEW q \in Queues, NEW f \in FlushIds, StartFlush(q, f)
      PROVE  /\ messages' \in [Queues -> Seq(Ids)]
             /\ flushes' \in [FlushIds -> Flushes]
             /\ FlushesHaveQueue'
  <2>1. [queue |-> q, stage |-> "dispatch", batch |-> Spliced(q), dead |-> {}]
          \in Flushes
    BY SpliceType DEF Flushes, Stages
  <2> QED
    BY <1>3, <2>1, SpliceType DEF StartFlush
<1>4. ASSUME NEW q \in Queues, NEW f \in FlushIds, FirePending(q, f)
      PROVE  TypeInv'
  <2>1. pendingFlush' \in [Queues -> PendingFlushes]
    <3>1. [pendingFlush[q] EXCEPT !.armed = FALSE] \in PendingFlushes
      BY DEF PendingFlushes
    <3> QED
      BY <1>4, <3>1 DEF FirePending
  <2> QED
    BY <1>3, <1>4, <2>1 DEF FirePending, StartFlush
<1>5. ASSUME NEW q \in Queues, NEW f \in FlushIds, FireStray(q, f)
      PROVE  TypeInv'
  <2>1. strayTimers' \in [Queues -> Nat]
    BY <1>5 DEF FireStray
  <2> QED
    BY <1>3, <1>5, <2>1 DEF FireStray, StartFlush
<1>6. ASSUME NEW f \in FlushIds, NEW rs \in SUBSET Ids, Respond(f, rs)
      PROVE  TypeInv'
  <2>1. [flushes[f] EXCEPT !.stage = "retry", !.batch = rs] \in Flushes
    BY DEF Flushes, Stages
  <2>2. [flushes[f] EXCEPT !.stage = "retry", !.batch = rs].queue \in Queues
    BY <1>6 DEF Respond, Flushes
  <2>3. flushes' = [flushes EXCEPT ![f] =
                      [flushes[f] EXCEPT !.stage = "retry", !.batch = rs]]
    BY <1>6 DEF Respond
  <2>4. flushes' \in [FlushIds -> Flushes] /\ FlushesHaveQueue'
    BY <2>1, <2>2, <2>3
  <2>5. acked' \subseteq Ids
    BY <1>6 DEF Respond, Flushes
  <2> QED
    BY <1>6, <2>4, <2>5 DEF Respond
<1>7. ASSUME NEW f \in FlushIds, NEW m \in Ids, RetryMessage(f, m)
      PROVE  TypeInv'
  <2> DEFINE F == [flushes[f] EXCEPT !.batch = @ \ {m}]
             D == [flushes[f] EXCEPT !.batch = @ \ {m}, !.dead = @ \cup {m}]
  <2>0. flushes' = [flushes EXCEPT ![f] = F] \/ flushes' = [flushes EXCEPT ![f] = D]
    BY <1>7 DEF RetryMessage
  <2>1. flushes' \in [FlushIds -> Flushes] /\ FlushesHaveQueue'
    <3>1. flushes[f] \in Flushes /\ flushes[f].queue \in Queues
      BY <1>7 DEF RetryMessage
    <3>2. F \in Flushes /\ D \in Flushes
      BY <3>1 DEF Flushes
    <3>3. F.queue \in Queues /\ D.queue \in Queues
      BY <3>1 DEF Flushes
    <3> HIDE DEF F, D
    <3> QED
      BY <2>0, <3>2, <3>3
  <2>2. failed' \in [Ids -> Nat]
    BY <1>7 DEF RetryMessage
  <2>3. delayed' \in [Queues -> SUBSET Ids]
    <3>1. \/ delayed' = [delayed EXCEPT ![flushes[f].queue] = @ \cup {m}]
          \/ UNCHANGED delayed
      BY <1>7 DEF RetryMessage
    <3>2. flushes[f].queue \in Queues
      BY <1>7 DEF RetryMessage
    <3>3. delayed[flushes[f].queue] \cup {m} \in SUBSET Ids
      BY <3>2
    <3>4. CASE delayed' = [delayed EXCEPT ![flushes[f].queue] = @ \cup {m}]
      BY <3>3, <3>4
    <3> QED
      BY <3>1, <3>4
  <2>4. dropped' \subseteq Ids
    BY <1>7 DEF RetryMessage
  <2> QED
    BY <1>7, <2>1, <2>2, <2>3, <2>4 DEF RetryMessage
<1>8. ASSUME NEW f \in FlushIds, EndFlush(f)
      PROVE  TypeInv'
  <2> DEFINE q == flushes[f].queue
  <2>1. q \in Queues
    BY <1>8 DEF EndFlush
  <2>2. FlushAgain(q) \in PendingFlushes
    <3>1. None \in PendingFlushes
      BY DEF None, PendingFlushes
    <3>2. Len(messages[q]) \in Nat
      BY <2>1
    <3> QED
      BY <2>1, <3>1, <3>2, EnsurePendingFlushType DEF FlushAgain
  <2>3. flushes' \in [FlushIds -> Flushes] /\ FlushesHaveQueue'
    <3>1. Idle \in Flushes /\ Idle.stage = "idle"
      BY DEF Idle, Flushes, Stages
    <3>2. flushes[f] \in Flushes
      OBVIOUS
    <3>3. /\ [flushes[f] EXCEPT !.stage = "deadletter"] \in Flushes
          /\ [flushes[f] EXCEPT !.stage = "deadletter"].queue \in Queues
      BY <2>1, <3>2 DEF Flushes, Stages
    <3> QED
      BY <1>8, <3>1, <3>3 DEF EndFlush
  <2>4. strayTimers' \in [Queues -> Nat]
    BY <1>8 DEF EndFlush
  <2> QED
    BY <1>8, <2>2, <2>3, <2>4 DEF EndFlush
<1>9. ASSUME NEW f \in FlushIds, MoveToDeadLetterQueue(f)
      PROVE  TypeInv'
  <2>1. flushes[f].dead \subseteq Ids
    BY DEF Flushes
  <2>2. delayed' \in [Queues -> SUBSET Ids] /\ failed' \in [Ids -> Nat]
    BY <1>9, <2>1, EnqueueType, BrokerAssumption DEF MoveToDeadLetterQueue
  <2>3. Idle \in Flushes /\ Idle.stage = "idle"
    BY DEF Idle, Flushes, Stages
  <2>4. flushes' \in [FlushIds -> Flushes] /\ FlushesHaveQueue'
    BY <1>9, <2>3 DEF MoveToDeadLetterQueue
  <2>5. dropped' \subseteq Ids
    BY <1>9, <2>1 DEF MoveToDeadLetterQueue, Enqueue
  <2> QED
    BY <1>9, <2>2, <2>4, <2>5 DEF MoveToDeadLetterQueue
<1>10. ASSUME NEW f \in FlushIds, FlushThrows(f)
       PROVE  TypeInv'
  <2>1. flushes' \in [FlushIds -> Flushes] /\ FlushesHaveQueue'
    BY <1>10 DEF FlushThrows, Flushes, Stages, Idle
  <2> QED
    BY <1>10, <2>1 DEF FlushThrows
<1>11. CASE UNCHANGED vars
  BY <1>11 DEF vars
<1> QED
  BY <1>1, <1>2, <1>4, <1>5, <1>6, <1>7, <1>8, <1>9, <1>10, <1>11
     DEF Next, Produce, Timer, Continue, SendMessage, SendBatch

\* Type correctness of the brokers (TypeOK) in every reachable state.
THEOREM TypeCorrect == Spec => []TypeOK
<1>1. TypeInv /\ [Next]_vars => TypeInv'
  BY NextTypeInv
<1>2. TypeInv => TypeOK
  BY DEF TypeInv
<1> QED
  BY <1>1, <1>2, InitTypeInv, PTL DEF Spec

-----------------------------------------------------------------------------
(* No lost wakeup. *)

\* An armed #pendingFlush is a registered one.
ArmedIsSet == \A q \in Queues : pendingFlush[q].armed => pendingFlush[q].set

(* NoLostWakeup is not inductive alone: #ensurePendingFlush returns early on a
   registered flush, so a registered flush must be known to run or to be
   running (PendingFlushIsLive). *)
WakeupInv ==
  TypeInv /\ ArmedIsSet /\ NoLostWakeup /\ FullBatchIsImmediate
  /\ PendingFlushIsLive

\* The part of WakeupInv about queue q.
QueueAwake(q) ==
  /\ pendingFlush[q].armed => pendingFlush[q].set
  /\ messages[q] # <<>> => pendingFlush[q].armed \/ Flushing(q)
  /\ messages[q] # <<>> /\ Len(messages[q]) >= BatchSize[q]
       => (pendingFlush[q].armed /\ pendingFlush[q].immediate) \/ Flushing(q)
  /\ pendingFlush[q].set => pendingFlush[q].armed \/ Flushing(q)

LEMMA WakeupInvByQueue == WakeupInv <=> TypeInv /\ \A q \in Queues : QueueAwake(q)
BY DEF WakeupInv, QueueAwake, ArmedIsSet, NoLostWakeup, FullBatchIsImmediate,
       PendingFlushIsLive

\* A newly registered flush is armed, and immediate when the batch is full.
LEMMA NewFlush ==
  ASSUME NEW q \in Queues, NEW p, NEW n \in Nat,
         ~(p.set /\ (p.immediate \/ n < BatchSize[q]))
  PROVE  /\ EnsurePendingFlush(q, p, n).armed
         /\ EnsurePendingFlush(q, p, n).set
         /\ n >= BatchSize[q] => EnsurePendingFlush(q, p, n).immediate
<1>1. EnsurePendingFlush(q, p, n) = Flush(~(n < BatchSize[q]) \/ BatchTimeout[q] = 0)
  BY DEF EnsurePendingFlush
<1>2. n >= BatchSize[q] => ~(n < BatchSize[q])
  BY BrokerAssumption
<1>3. ASSUME NEW b PROVE Flush(b).armed /\ Flush(b).set /\ Flush(b).immediate = b
  BY DEF Flush
<1> QED
  BY <1>1, <1>2, <1>3

\* A queue all of whose state is unchanged, and whose flush goes on, is awake.
LEMMA AwakeUnchanged ==
  ASSUME NEW q \in Queues, QueueAwake(q),
         messages'[q] = messages[q], pendingFlush'[q] = pendingFlush[q],
         Flushing(q) => Flushing(q)'
  PROVE  QueueAwake(q)'
BY DEF QueueAwake

\* A flush that only continues, and the flushes of other queues, keep running.
LEMMA FlushingUnchanged ==
  ASSUME NEW q \in Queues, NEW f \in FlushIds,
         \A g \in FlushIds \ {f} : flushes'[g] = flushes[g],
         \/ flushes[f].queue # q
         \/ flushes[f].stage \notin {"dispatch", "retry", "threw"}
         \/ flushes'[f].queue = q /\ flushes'[f].stage \in {"dispatch", "retry", "threw"}
  PROVE  Flushing(q) => Flushing(q)'
BY DEF Flushing

\* The initial state has no message waiting and no flush registered.
LEMMA InitWakeupInv == Init => WakeupInv
<1> SUFFICES ASSUME Init PROVE \A q \in Queues : QueueAwake(q)
  BY InitTypeInv, WakeupInvByQueue
<1> QED
  BY DEF Init, QueueAwake, None

\* Every step keeps every queue awake.
LEMMA NextWakeupInv ==
  ASSUME WakeupInv, [Next]_vars
  PROVE  WakeupInv'
<1> TypeInv /\ TypeInv'
  BY NextTypeInv DEF WakeupInv
<1> SUFFICES ASSUME NEW p \in Queues PROVE QueueAwake(p)'
  BY DEF WakeupInv, QueueAwake, ArmedIsSet, NoLostWakeup, FullBatchIsImmediate,
         PendingFlushIsLive
<1> QueueAwake(p)
  BY WakeupInvByQueue
<1>1. ASSUME NEW q \in Queues, NEW ms \in SUBSET Ids, Send(q, ms)
      PROVE  QueueAwake(p)'
  BY <1>1, AwakeUnchanged DEF Send, Flushing
<1>2. ASSUME NEW q \in Queues, NEW m \in Ids, Deliver(q, m)
      PROVE  QueueAwake(p)'
  <2>1. CASE p # q
    BY <1>2, <2>1, AwakeUnchanged DEF Deliver, Flushing, TypeInv, TypeOK
  <2>2. CASE p = q
    <3> DEFINE n == Len(messages[q]) + 1
    <3>1. messages'[q] = Append(messages[q], m) /\ n \in Nat
      BY <1>2 DEF Deliver, TypeInv, TypeOK
    <3>2. Len(messages'[q]) = n
      BY <3>1 DEF TypeInv, TypeOK
    <3>3. pendingFlush'[q] = EnsurePendingFlush(q, pendingFlush[q], n)
      BY <1>2 DEF Deliver, TypeInv, TypeOK
    <3>4. Flushing(q)' <=> Flushing(q)
      BY <1>2 DEF Deliver, Flushing
    <3>5. BatchSize[q] \in Nat
      BY BrokerAssumption
    <3> HIDE DEF n
    <3>6. CASE pendingFlush[q].set /\ (pendingFlush[q].immediate \/ n < BatchSize[q])
      BY <2>2, <3>1, <3>2, <3>3, <3>4, <3>5, <3>6
         DEF EnsurePendingFlush, QueueAwake
    <3>7. CASE ~(pendingFlush[q].set /\ (pendingFlush[q].immediate \/ n < BatchSize[q]))
      <4>1. /\ pendingFlush'[q].armed /\ pendingFlush'[q].set
            /\ n >= BatchSize[q] => pendingFlush'[q].immediate
        BY <3>1, <3>3, <3>7, NewFlush
      <4> QED
        BY <2>2, <3>2, <4>1 DEF QueueAwake
    <3> QED
      BY <3>6, <3>7
  <2> QED
    BY <2>1, <2>2
<1>3. ASSUME NEW q \in Queues, NEW f \in FlushIds, StartFlush(q, f),
             pendingFlush'[p] = pendingFlush[p] \/ p = q,
             pendingFlush'[p].armed => pendingFlush'[p].set
      PROVE  QueueAwake(p)'
  <2>1. CASE p # q
    <3>1. messages'[p] = messages[p]
      BY <1>3, <2>1 DEF StartFlush, TypeInv, TypeOK
    <3>2. Flushing(p) => Flushing(p)'
      <4>1. /\ \A g \in FlushIds \ {f} : flushes'[g] = flushes[g]
            /\ flushes[f] = Idle
        BY <1>3 DEF StartFlush, TypeInv, TypeOK
      <4>2. flushes[f].stage = "idle"
        BY <4>1 DEF Idle
      <4> QED
        BY <4>1, <4>2, FlushingUnchanged
    <3> QED
      BY <1>3, <2>1, <3>1, <3>2, AwakeUnchanged
  <2>2. CASE p = q
    <3>1. Flushing(q)'
      BY <1>3 DEF StartFlush, Flushing, TypeInv, TypeOK
    <3> QED
      BY <1>3, <2>2, <3>1 DEF QueueAwake
  <2> QED
    BY <2>1, <2>2
<1>4. ASSUME NEW q \in Queues, NEW f \in FlushIds, FirePending(q, f)
      PROVE  QueueAwake(p)'
  <2>1. pendingFlush'[p] = pendingFlush[p] \/ p = q
    BY <1>4 DEF FirePending, TypeInv, TypeOK
  <2>2. p = q => ~pendingFlush'[p].armed
    BY <1>4 DEF FirePending, TypeInv, TypeOK, PendingFlushes
  <2> QED
    BY <1>3, <1>4, <2>1, <2>2 DEF FirePending, QueueAwake
<1>5. ASSUME NEW q \in Queues, NEW f \in FlushIds, FireStray(q, f)
      PROVE  QueueAwake(p)'
  BY <1>3, <1>5 DEF FireStray, QueueAwake
<1>6. ASSUME NEW f \in FlushIds, NEW rs \in SUBSET Ids, Respond(f, rs)
      PROVE  QueueAwake(p)'
  <2>1. /\ \A g \in FlushIds \ {f} : flushes'[g] = flushes[g]
        /\ flushes'[f].queue = flushes[f].queue
        /\ flushes'[f].stage = "retry"
    BY <1>6 DEF Respond, TypeInv, TypeOK, Flushes
  <2> QED
    BY <1>6, <2>1, FlushingUnchanged, AwakeUnchanged DEF Respond
<1>7. ASSUME NEW f \in FlushIds, NEW m \in Ids, RetryMessage(f, m)
      PROVE  QueueAwake(p)'
  <2>1. /\ \A g \in FlushIds \ {f} : flushes'[g] = flushes[g]
        /\ flushes'[f].queue = flushes[f].queue
        /\ flushes'[f].stage = "retry"
    BY <1>7 DEF RetryMessage, TypeInv, TypeOK, Flushes
  <2>2. messages' = messages /\ pendingFlush' = pendingFlush
    BY <1>7 DEF RetryMessage
  <2> QED
    BY <2>1, <2>2, FlushingUnchanged, AwakeUnchanged
<1>8. ASSUME NEW f \in FlushIds, EndFlush(f)
      PROVE  QueueAwake(p)'
  <2> DEFINE q == flushes[f].queue
  <2>1. q \in Queues /\ messages' = messages
    BY <1>8 DEF EndFlush, TypeInv, FlushesHaveQueue
  <2>2. \A g \in FlushIds \ {f} : flushes'[g] = flushes[g]
    BY <1>8 DEF EndFlush, TypeInv, TypeOK
  <2>3. CASE p # q
    <3>1. pendingFlush'[p] = pendingFlush[p]
      BY <1>8, <2>3 DEF EndFlush, TypeInv, TypeOK
    <3> QED
      BY <2>1, <2>2, <2>3, <3>1, FlushingUnchanged, AwakeUnchanged
  <2>4. CASE p = q
    <3>1. pendingFlush'[p] = FlushAgain(p)
      BY <1>8, <2>1, <2>4 DEF EndFlush, TypeInv, TypeOK
    <3>2. Len(messages[p]) \in Nat /\ BatchSize[p] \in Nat
      BY BrokerAssumption DEF TypeInv, TypeOK
    <3>3. CASE messages[p] = <<>>
      BY <2>1, <3>1, <3>3 DEF FlushAgain, None, QueueAwake
    <3>4. CASE messages[p] # <<>>
      <4>1. pendingFlush'[p] = EnsurePendingFlush(p, None, Len(messages[p]))
        BY <3>1, <3>4 DEF FlushAgain
      <4>2. ~None.set
        BY DEF None
      <4>3. /\ pendingFlush'[p].armed /\ pendingFlush'[p].set
            /\ Len(messages[p]) >= BatchSize[p] => pendingFlush'[p].immediate
        BY <3>2, <4>1, <4>2, NewFlush
      <4> QED
        BY <2>1, <4>3 DEF QueueAwake
    <3> QED
      BY <3>3, <3>4
  <2> QED
    BY <2>3, <2>4
<1>9. ASSUME NEW f \in FlushIds, MoveToDeadLetterQueue(f)
      PROVE  QueueAwake(p)'
  <2>1. /\ \A g \in FlushIds \ {f} : flushes'[g] = flushes[g]
        /\ flushes[f].stage = "deadletter"
    BY <1>9 DEF MoveToDeadLetterQueue, TypeInv, TypeOK
  <2>2. messages' = messages /\ pendingFlush' = pendingFlush
    BY <1>9 DEF MoveToDeadLetterQueue
  <2> QED
    BY <2>1, <2>2, FlushingUnchanged, AwakeUnchanged
<1>10. ASSUME NEW f \in FlushIds, FlushThrows(f)
       PROVE  QueueAwake(p)'
  <2>1. /\ \A g \in FlushIds \ {f} : flushes'[g] = flushes[g]
        /\ flushes'[f].queue = flushes[f].queue
        /\ flushes'[f].stage = "threw"
    BY <1>10 DEF FlushThrows, TypeInv, TypeOK, Flushes
  <2>2. messages' = messages /\ pendingFlush' = pendingFlush
    BY <1>10 DEF FlushThrows
  <2> QED
    BY <2>1, <2>2, FlushingUnchanged, AwakeUnchanged
<1>11. CASE UNCHANGED vars
  BY <1>11, AwakeUnchanged DEF vars, Flushing
<1> QED
  BY <1>1, <1>2, <1>4, <1>5, <1>6, <1>7, <1>8, <1>9, <1>10, <1>11
     DEF Next, Produce, Timer, Continue, SendMessage, SendBatch

(* Unless a flush of their queue was cut short by a failing log call, messages
   never wait without a flush that will take them, a full batch never waits
   for the batch timeout, and #pendingFlush never goes stale, however
   deliveries, overlapping flushes and stray timers interleave. *)
THEOREM NeverLosesWakeup ==
  Spec => []FlushesAreScheduled
<1>1. WakeupInv /\ [Next]_vars => WakeupInv'
  BY NextWakeupInv
<1>2. WakeupInv => FlushesAreScheduled
  BY DEF WakeupInv, FlushesAreScheduled
<1> QED
  BY <1>1, <1>2, InitWakeupInv, PTL DEF Spec

-----------------------------------------------------------------------------
(* Neither lost nor duplicated. *)

\* What broker q holds, what flush f took from it, and what is settled.
Held(q) == delayed[q] \cup Elements(messages[q])
Taken(f) == flushes[f].batch \cup flushes[f].dead
Settled == acked \cup dropped

\* #messages holds no message twice.
NoRepeats(s) == \A i, j \in 1..Len(s) : s[i] = s[j] => i = j

\* The places of message m exclude one another.
OnePlace(m) ==
  /\ \A q, p \in Queues : m \in Held(q) /\ m \in Held(p) => q = p
  /\ \A q \in Queues : ~(m \in delayed[q] /\ m \in Elements(messages[q]))
  /\ \A f, g \in FlushIds : m \in Taken(f) /\ m \in Taken(g) => f = g
  /\ \A f \in FlushIds : ~(m \in flushes[f].batch /\ m \in flushes[f].dead)
  /\ \A q \in Queues, f \in FlushIds : ~(m \in Held(q) /\ m \in Taken(f))
  /\ ~(m \in acked /\ m \in dropped)
  /\ m \in Settled => /\ \A q \in Queues : m \notin Held(q)
                      /\ \A f \in FlushIds : m \notin Taken(f)

\* Message m is somewhere.
SomePlace(m) ==
  \/ m \in Settled
  \/ \E q \in Queues : m \in Held(q)
  \/ \E f \in FlushIds : m \in Taken(f)

\* A flush that has only its dead messages left has settled its batch, and one
\* that ended has nothing left.
BatchesEnd ==
  \A f \in FlushIds :
    /\ flushes[f].stage \in {"idle", "deadletter"} => flushes[f].batch = {}
    /\ flushes[f].stage = "idle" => flushes[f].dead = {}

(* Conservation is not inductive as a count: a message that is at one place
   must be known not to be at any other, and the lists not to repeat it. *)
PlacesInv ==
  /\ TypeInv
  /\ BatchesEnd
  /\ \A q \in Queues : NoRepeats(messages[q])
  /\ \A m \in Ids : OnePlace(m) /\ (m \in sent <=> SomePlace(m))

\* Appending a message adds it to the elements of a list.
LEMMA AppendElements ==
  ASSUME NEW s \in Seq(Ids), NEW m \in Ids
  PROVE  /\ Elements(Append(s, m)) = Elements(s) \cup {m}
         /\ NoRepeats(s) /\ m \notin Elements(s) => NoRepeats(Append(s, m))
<1> DEFINE t == Append(s, m)
<1>1. /\ Len(s) \in Nat /\ Len(t) = Len(s) + 1
      /\ \A i \in 1..Len(s) : t[i] = s[i]
      /\ t[Len(s) + 1] = m
  OBVIOUS
<1> HIDE DEF t
<1>2. \A i \in 1..Len(t) : i \in 1..Len(s) \/ i = Len(s) + 1
  BY <1>1
<1>3. \A i \in 1..Len(s) : i \in 1..Len(t)
  BY <1>1
<1>4. Len(s) + 1 \in 1..Len(t)
  BY <1>1
<1>5. Elements(t) = Elements(s) \cup {m}
  <2>1. ASSUME NEW x \in Elements(t) PROVE x \in Elements(s) \cup {m}
    BY <1>1, <1>2, <2>1 DEF Elements
  <2>2. ASSUME NEW x \in Elements(s) PROVE x \in Elements(t)
    <3>1. PICK i \in 1..Len(s) : x = s[i]
      BY DEF Elements
    <3>2. QED BY <1>1, <1>3, <3>1 DEF Elements
  <2>3. m \in Elements(t)
    BY <1>1, <1>4 DEF Elements
  <2>4. QED BY <2>1, <2>2, <2>3
<1>6. ASSUME NoRepeats(s), m \notin Elements(s) PROVE NoRepeats(t)
  <2> SUFFICES ASSUME NEW i \in 1..Len(t), NEW j \in 1..Len(t), t[i] = t[j] PROVE i = j
    BY DEF NoRepeats
  <2>1. \A k \in 1..Len(s) : t[k] = s[k] /\ s[k] # m
    BY <1>1, <1>6 DEF Elements
  <2>2. QED BY <1>1, <1>2, <1>6, <2>1 DEF NoRepeats
<1>7. QED BY <1>5, <1>6 DEF t

\* splice(0, batchSize) divides #messages.
LEMMA SpliceElements ==
  ASSUME NEW q \in Queues, messages \in [Queues -> Seq(Ids)]
  PROVE  /\ Elements(messages[q]) = Spliced(q) \cup Elements(Remaining(q))
         /\ NoRepeats(messages[q]) =>
              NoRepeats(Remaining(q)) /\ Spliced(q) \cap Elements(Remaining(q)) = {}
<1>1. PICK s \in Seq(Ids) : s = messages[q]
  OBVIOUS
<1>2. PICK n : n = Smaller(BatchSize[q], Len(s))
  OBVIOUS
<1>3. n \in Nat /\ n <= Len(s) /\ Len(s) \in Nat
  BY <1>1, <1>2, BrokerAssumption DEF Smaller
<1>4. PICK b : b = SubSeq(s, 1, n)
  OBVIOUS
<1>5. PICK r : r = SubSeq(s, n + 1, Len(s))
  OBVIOUS
<1>6. Spliced(q) = Elements(b) /\ Remaining(q) = r
  BY <1>1, <1>2, <1>4, <1>5 DEF Spliced, Remaining
<1>7. Len(b) = n /\ \A i \in 1..n : b[i] = s[i]
  BY <1>3, <1>4
<1>8. Len(r) = Len(s) - n /\ \A i \in 1..(Len(s) - n) : r[i] = s[n + i]
  <2>1. Len(r) = Len(s) - n
    BY <1>3, <1>5
  <2>2. \A i \in 1..(Len(s) - n) : r[i] = s[n + i]
    BY <1>3, <1>5
  <2>3. QED BY <2>1, <2>2
<1>9. \A i \in 1..Len(s) : i \in 1..n \/ (i - n \in 1..(Len(s) - n) /\ n + (i - n) = i)
  BY <1>3
<1>10. \A i \in 1..(Len(s) - n) : n + i \in 1..Len(s) /\ n + i \notin 1..n
  BY <1>3
<1>11. \A i \in 1..n : i \in 1..Len(s)
  BY <1>3
<1>12. \A x : x \in Elements(b) <=> \E i \in 1..n : s[i] = x
  BY <1>7 DEF Elements
<1>13. \A x : x \in Elements(r) <=> \E i \in 1..(Len(s) - n) : s[n + i] = x
  BY <1>8 DEF Elements
<1>14. Elements(s) = Elements(b) \cup Elements(r)
  <2>1. ASSUME NEW x \in Elements(s) PROVE x \in Elements(b) \cup Elements(r)
    <3>1. PICK i \in 1..Len(s) : x = s[i]
      BY DEF Elements
    <3>2. QED BY <1>9, <1>12, <1>13, <3>1
  <2>2. ASSUME NEW x \in Elements(b) \cup Elements(r) PROVE x \in Elements(s)
    <3>1. \E i \in 1..Len(s) : s[i] = x
      BY <1>10, <1>11, <1>12, <1>13, <2>2
    <3>2. QED BY <3>1 DEF Elements
  <2>3. QED BY <2>1, <2>2
<1>15. ASSUME NoRepeats(s) PROVE NoRepeats(r) /\ Elements(b) \cap Elements(r) = {}
  <2>1. ASSUME NEW i \in 1..Len(r), NEW j \in 1..Len(r), r[i] = r[j] PROVE i = j
    <3>1. /\ i \in 1..(Len(s) - n) /\ j \in 1..(Len(s) - n)
          /\ s[n + i] = s[n + j]
      BY <1>8, <2>1
    <3>2. n + i = n + j
      BY <1>10, <1>15, <3>1 DEF NoRepeats
    <3>3. QED BY <1>3, <3>1, <3>2
  <2>2. ASSUME NEW x \in Elements(b), x \in Elements(r) PROVE FALSE
    <3>1. PICK i \in 1..n : s[i] = x
      BY <1>12
    <3>2. PICK j \in 1..(Len(s) - n) : s[n + j] = x
      BY <1>13, <2>2
    <3>3. i = n + j
      BY <1>10, <1>11, <1>15, <3>1, <3>2 DEF NoRepeats
    <3>4. QED BY <1>10, <3>1, <3>2, <3>3
  <2>3. QED BY <2>1, <2>2 DEF NoRepeats
<1>16. QED BY <1>1, <1>6, <1>14, <1>15

\* A step that moves message m nowhere keeps it at its place.
LEMMA Unmoved ==
  ASSUME NEW m \in Ids, OnePlace(m), m \in sent <=> SomePlace(m),
         \A q \in Queues : /\ m \in delayed'[q] <=> m \in delayed[q]
                           /\ m \in Elements(messages'[q]) <=> m \in Elements(messages[q]),
         \A f \in FlushIds : /\ m \in flushes'[f].batch <=> m \in flushes[f].batch
                             /\ m \in flushes'[f].dead <=> m \in flushes[f].dead,
         m \in acked' <=> m \in acked, m \in dropped' <=> m \in dropped,
         m \in sent' <=> m \in sent
  PROVE  (OnePlace(m) /\ (m \in sent <=> SomePlace(m)))'
<1>1. /\ \A q \in Queues : m \in Held(q)' <=> m \in Held(q)
      /\ \A f \in FlushIds : m \in Taken(f)' <=> m \in Taken(f)
      /\ m \in Settled' <=> m \in Settled
  BY DEF Held, Taken, Settled, Elements
<1>2. \A q \in Queues : ~(m \in delayed'[q] /\ m \in Elements(messages'[q]))
  BY DEF OnePlace
<1>3. OnePlace(m)'
  BY <1>1, <1>2 DEF OnePlace, Elements
<1>4. SomePlace(m)' <=> SomePlace(m)
  BY <1>1 DEF SomePlace
<1>5. QED BY <1>3, <1>4

\* A message that a broker holds is nowhere else.
LEMMA HeldOnly ==
  ASSUME NEW m \in Ids, OnePlace(m), NEW q \in Queues, m \in Held(q)
  PROVE  /\ \A p \in Queues \ {q} : m \notin delayed[p] /\ m \notin Elements(messages[p])
         /\ \A f \in FlushIds : m \notin flushes[f].batch /\ m \notin flushes[f].dead
         /\ m \notin acked /\ m \notin dropped
BY DEF OnePlace, Held, Taken, Settled

\* A message that a flush took is nowhere else.
LEMMA TakenOnly ==
  ASSUME NEW m \in Ids, OnePlace(m), NEW f \in FlushIds, m \in Taken(f)
  PROVE  /\ \A g \in FlushIds \ {f} : m \notin flushes[g].batch /\ m \notin flushes[g].dead
         /\ \A q \in Queues : m \notin delayed[q] /\ m \notin Elements(messages[q])
         /\ m \notin acked /\ m \notin dropped
BY DEF OnePlace, Held, Taken, Settled

\* A message that was not sent is nowhere.
LEMMA NowhereElse ==
  ASSUME NEW m \in Ids, ~SomePlace(m)
  PROVE  /\ \A q \in Queues : m \notin delayed[q] /\ m \notin Elements(messages[q])
         /\ \A f \in FlushIds : m \notin flushes[f].batch /\ m \notin flushes[f].dead
         /\ m \notin acked /\ m \notin dropped
BY DEF SomePlace, Held, Taken, Settled

\* The step left message m with broker q alone.
LEMMA NowHeld ==
  ASSUME NEW m \in Ids, NEW q \in Queues, m \in sent',
         m \in delayed'[q] <=> m \notin Elements(messages'[q]),
         \A p \in Queues \ {q} : m \notin delayed'[p] /\ m \notin Elements(messages'[p]),
         \A f \in FlushIds : m \notin flushes'[f].batch /\ m \notin flushes'[f].dead,
         m \notin acked' /\ m \notin dropped'
  PROVE  (OnePlace(m) /\ (m \in sent <=> SomePlace(m)))'
<1>1. /\ m \in Held(q)' /\ \A p \in Queues \ {q} : m \notin Held(p)'
      /\ \A f \in FlushIds : m \notin Taken(f)'
      /\ m \notin Settled'
  BY DEF Held, Taken, Settled, Elements
<1>2. \A p \in Queues : ~(m \in delayed'[p] /\ m \in Elements(messages'[p]))
  OBVIOUS
<1>3. OnePlace(m)'
  BY <1>1, <1>2 DEF OnePlace, Elements
<1>4. SomePlace(m)'
  BY <1>1 DEF SomePlace
<1>5. QED BY <1>3, <1>4

\* The step left message m with flush f alone.
LEMMA NowTaken ==
  ASSUME NEW m \in Ids, NEW f \in FlushIds, m \in sent',
         m \in flushes'[f].batch <=> m \notin flushes'[f].dead,
         \A g \in FlushIds \ {f} : m \notin flushes'[g].batch /\ m \notin flushes'[g].dead,
         \A q \in Queues : m \notin delayed'[q] /\ m \notin Elements(messages'[q]),
         m \notin acked' /\ m \notin dropped'
  PROVE  (OnePlace(m) /\ (m \in sent <=> SomePlace(m)))'
<1>1. /\ m \in Taken(f)' /\ \A g \in FlushIds \ {f} : m \notin Taken(g)'
      /\ \A q \in Queues : m \notin Held(q)'
      /\ m \notin Settled'
  BY DEF Held, Taken, Settled, Elements
<1>2. /\ \A q \in Queues : ~(m \in delayed'[q] /\ m \in Elements(messages'[q]))
      /\ \A g \in FlushIds : ~(m \in flushes'[g].batch /\ m \in flushes'[g].dead)
  OBVIOUS
<1>3. OnePlace(m)'
  BY <1>1, <1>2 DEF OnePlace, Elements
<1>4. SomePlace(m)'
  BY <1>1 DEF SomePlace
<1>5. QED BY <1>3, <1>4

\* The step settled message m.
LEMMA NowSettled ==
  ASSUME NEW m \in Ids, m \in sent', m \in acked' <=> m \notin dropped',
         \A q \in Queues : m \notin delayed'[q] /\ m \notin Elements(messages'[q]),
         \A f \in FlushIds : m \notin flushes'[f].batch /\ m \notin flushes'[f].dead
  PROVE  (OnePlace(m) /\ (m \in sent <=> SomePlace(m)))'
<1>1. /\ \A f \in FlushIds : m \notin Taken(f)'
      /\ \A q \in Queues : m \notin Held(q)'
      /\ m \in Settled'
  BY DEF Held, Taken, Settled, Elements
<1>2. OnePlace(m)'
  BY <1>1 DEF OnePlace, Elements
<1>3. SomePlace(m)'
  BY <1>1 DEF SomePlace
<1>4. QED BY <1>2, <1>3

\* Nothing has been sent at first.
LEMMA InitPlaces == Init => PlacesInv
<1> SUFFICES ASSUME Init PROVE PlacesInv
  OBVIOUS
<1>1. TypeInv
  BY InitTypeInv
<1>2. /\ \A q \in Queues : delayed[q] = {} /\ messages[q] = <<>>
      /\ \A f \in FlushIds : flushes[f].batch = {} /\ flushes[f].dead = {}
      /\ acked = {} /\ dropped = {} /\ sent = {}
  BY DEF Init, Idle
<1>3. \A q \in Queues : Elements(messages[q]) = {} /\ NoRepeats(messages[q])
  <2> SUFFICES ASSUME NEW q \in Queues
               PROVE  Elements(messages[q]) = {} /\ NoRepeats(messages[q])
    OBVIOUS
  <2>1. messages[q] = <<>> /\ Len(<<>>) = 0
    BY <1>2
  <2>2. Elements(messages[q]) = {}
    BY <2>1 DEF Elements
  <2>3. NoRepeats(messages[q])
    BY <2>1 DEF NoRepeats
  <2>4. QED BY <2>2, <2>3
<1>4. BatchesEnd
  BY <1>2 DEF BatchesEnd
<1>5. /\ \A q \in Queues : Held(q) = {}
      /\ \A f \in FlushIds : Taken(f) = {}
      /\ Settled = {}
  BY <1>2, <1>3 DEF Held, Taken, Settled
<1>6. ASSUME NEW m \in Ids PROVE OnePlace(m) /\ (m \in sent <=> SomePlace(m))
  BY <1>2, <1>3, <1>5 DEF OnePlace, SomePlace
<1>7. QED BY <1>1, <1>3, <1>4, <1>6 DEF PlacesInv

\* Every step moves messages from one place to another.
LEMMA NextPlaces ==
  ASSUME PlacesInv, [Next]_vars
  PROVE  PlacesInv'
<1>0. TypeInv /\ TypeInv' /\ TypeOK /\ FlushesHaveQueue
  BY NextTypeInv DEF PlacesInv, TypeInv
<1> DEFINE Placed(m) == OnePlace(m) /\ (m \in sent <=> SomePlace(m))
           Kept == BatchesEnd /\ \A q \in Queues : NoRepeats(messages[q])
<1>1. Kept /\ \A m \in Ids : OnePlace(m) /\ (m \in sent <=> SomePlace(m))
  BY DEF PlacesInv
<1> SUFFICES Kept' /\ \A m \in Ids : Placed(m)'
  BY <1>0 DEF PlacesInv
<1>2. ASSUME UNCHANGED <<messages, flushes>> PROVE Kept'
  BY <1>1, <1>2 DEF BatchesEnd, NoRepeats
<1>3. ASSUME UNCHANGED messages, BatchesEnd' PROVE Kept'
  BY <1>1, <1>3 DEF NoRepeats
<1>4. ASSUME NEW q \in Queues, NEW ms \in SUBSET Ids, ms \cap sent = {}, Send(q, ms)
      PROVE  Kept' /\ \A m \in Ids : Placed(m)'
  <2>1. UNCHANGED <<messages, flushes, acked>> /\ sent' = sent \cup ms
    BY <1>4 DEF Send
  <2>2. CASE q \in Consumers
    <3>1. /\ dropped' = dropped /\ delayed'[q] = delayed[q] \cup ms
          /\ \A p \in Queues \ {q} : delayed'[p] = delayed[p]
      BY <1>0, <1>4, <2>2 DEF Send, Enqueue, TypeOK
    <3>2. ASSUME NEW m \in Ids, m \notin ms PROVE Placed(m)'
      BY <1>1, <2>1, <3>1, <3>2, Unmoved
    <3>3. ASSUME NEW m \in Ids, m \in ms PROVE Placed(m)'
      <4>1. ~SomePlace(m)
        BY <1>1, <1>4, <3>3
      <4>2. QED BY <2>1, <3>1, <3>3, <4>1, NowhereElse, NowHeld
    <3>4. QED BY <1>2, <2>1, <3>2, <3>3
  <2>3. CASE q \notin Consumers
    <3>1. dropped' = dropped \cup ms /\ delayed' = delayed
      BY <1>4, <2>3 DEF Send
    <3>2. ASSUME NEW m \in Ids, m \notin ms PROVE Placed(m)'
      BY <1>1, <2>1, <3>1, <3>2, Unmoved
    <3>3. ASSUME NEW m \in Ids, m \in ms PROVE Placed(m)'
      <4>1. ~SomePlace(m)
        BY <1>1, <1>4, <3>3
      <4>2. QED BY <2>1, <3>1, <3>3, <4>1, NowhereElse, NowSettled
    <3>4. QED BY <1>2, <2>1, <3>2, <3>3
  <2>4. QED BY <2>2, <2>3
<1>5. ASSUME NEW q \in Queues, NEW d \in Ids, Deliver(q, d)
      PROVE  Kept' /\ \A m \in Ids : Placed(m)'
  <2>1. /\ d \in delayed[q] /\ delayed'[q] = delayed[q] \ {d}
        /\ \A p \in Queues \ {q} : delayed'[p] = delayed[p] /\ messages'[p] = messages[p]
        /\ messages'[q] = Append(messages[q], d) /\ messages[q] \in Seq(Ids)
        /\ UNCHANGED <<flushes, acked, dropped, sent>>
    BY <1>0, <1>5 DEF Deliver, TypeOK
  <2>2. d \in Held(q) /\ d \notin Elements(messages[q]) /\ d \in sent
    BY <1>1, <2>1 DEF Held, OnePlace, SomePlace
  <2>3. Elements(messages'[q]) = Elements(messages[q]) \cup {d} /\ NoRepeats(messages'[q])
    BY <1>1, <2>1, <2>2, AppendElements
  <2>4. Kept'
    <3>1. \A p \in Queues : NoRepeats(messages'[p])
      BY <1>1, <2>1, <2>3
    <3>2. QED BY <1>1, <2>1, <3>1 DEF BatchesEnd, NoRepeats
  <2>5. ASSUME NEW m \in Ids, m # d PROVE Placed(m)'
    BY <1>1, <2>1, <2>3, <2>5, Unmoved
  <2>6. Placed(d)'
    BY <1>1, <2>1, <2>2, <2>3, HeldOnly, NowHeld
  <2>7. QED BY <2>4, <2>5, <2>6
<1>6. ASSUME NEW q \in Queues, NEW f \in FlushIds, StartFlush(q, f)
      PROVE  Kept' /\ \A m \in Ids : Placed(m)'
  <2>1. /\ messages'[q] = Remaining(q)
        /\ \A p \in Queues \ {q} : messages'[p] = messages[p]
        /\ UNCHANGED <<delayed, sent, acked, dropped>>
    BY <1>0, <1>6 DEF StartFlush, TypeOK
  <2>2. /\ flushes[f].batch = {} /\ flushes[f].dead = {}
        /\ flushes'[f].batch = Spliced(q) /\ flushes'[f].dead = {}
        /\ flushes'[f].stage = "dispatch"
        /\ \A g \in FlushIds \ {f} : flushes'[g] = flushes[g]
    BY <1>0, <1>6 DEF StartFlush, TypeOK, Idle
  <2>3. /\ Elements(messages[q]) = Spliced(q) \cup Elements(Remaining(q))
        /\ NoRepeats(Remaining(q)) /\ Spliced(q) \cap Elements(Remaining(q)) = {}
    BY <1>0, <1>1, SpliceElements DEF TypeOK
  <2>4. Kept'
    <3>1. \A p \in Queues : NoRepeats(messages'[p])
      BY <1>1, <2>1, <2>3
    <3>2. BatchesEnd'
      BY <1>1, <2>2 DEF BatchesEnd
    <3>3. QED BY <3>1, <3>2 DEF NoRepeats
  <2>5. ASSUME NEW m \in Ids, m \notin Spliced(q) PROVE Placed(m)'
    BY <1>1, <2>1, <2>2, <2>3, <2>5, Unmoved
  <2>6. ASSUME NEW m \in Ids, m \in Spliced(q) PROVE Placed(m)'
    <3>1. /\ m \in Elements(messages[q]) /\ m \in Held(q)
          /\ m \notin Elements(messages'[q])
      BY <2>1, <2>3, <2>6 DEF Held
    <3>2. m \in sent /\ m \notin delayed[q]
      BY <1>1, <3>1 DEF SomePlace, OnePlace
    <3>3. \A p \in Queues : m \notin delayed'[p] /\ m \notin Elements(messages'[p])
      BY <1>1, <2>1, <3>1, <3>2, HeldOnly
    <3>4. /\ \A g \in FlushIds \ {f} : m \notin flushes'[g].batch /\ m \notin flushes'[g].dead
          /\ m \notin acked' /\ m \notin dropped'
      BY <1>1, <2>1, <2>2, <3>1, HeldOnly
    <3>5. QED BY <2>1, <2>2, <2>6, <3>2, <3>3, <3>4, NowTaken
  <2>7. QED BY <2>4, <2>5, <2>6
<1>7. ASSUME NEW f \in FlushIds, NEW rs \in SUBSET Ids, Respond(f, rs)
      PROVE  Kept' /\ \A m \in Ids : Placed(m)'
  <2>1. /\ rs \subseteq flushes[f].batch
        /\ flushes'[f].batch = rs /\ flushes'[f].dead = flushes[f].dead
        /\ flushes'[f].stage = "retry"
        /\ \A g \in FlushIds \ {f} : flushes'[g] = flushes[g]
    BY <1>0, <1>7 DEF Respond, TypeOK, Flushes
  <2>2. /\ acked' = acked \cup (flushes[f].batch \ rs)
        /\ UNCHANGED <<delayed, messages, sent, dropped>>
    BY <1>7 DEF Respond
  <2>3. BatchesEnd'
    BY <1>1, <2>1 DEF BatchesEnd
  <2>4. ASSUME NEW m \in Ids, m \notin flushes[f].batch \ rs PROVE Placed(m)'
    BY <1>1, <2>1, <2>2, <2>4, Unmoved
  <2>5. ASSUME NEW m \in Ids, m \in flushes[f].batch \ rs PROVE Placed(m)'
    <3>1. m \in Taken(f) /\ m \notin flushes[f].dead /\ m \in sent
      BY <1>1, <2>5 DEF Taken, OnePlace, SomePlace
    <3>2. QED BY <1>1, <2>1, <2>2, <2>5, <3>1, TakenOnly, NowSettled
  <2>6. QED BY <1>3, <2>2, <2>3, <2>4, <2>5
<1>8. ASSUME NEW f \in FlushIds, NEW r \in Ids, RetryMessage(f, r)
      PROVE  Kept' /\ \A m \in Ids : Placed(m)'
  <2>1. /\ r \in flushes[f].batch /\ r \in Taken(f) /\ flushes[f].queue \in Queues
        /\ UNCHANGED <<messages, sent, acked>>
    BY <1>0, <1>8 DEF RetryMessage, FlushesHaveQueue, Taken
  <2>2. r \in sent /\ r \notin flushes[f].dead
    BY <1>1, <2>1 DEF SomePlace, OnePlace, Taken
  <2>3. /\ flushes'[f].batch = flushes[f].batch \ {r} /\ flushes'[f].stage = "retry"
        /\ \A g \in FlushIds \ {f} : flushes'[g] = flushes[g]
    BY <1>0, <1>8 DEF RetryMessage, TypeOK, Flushes
  <2>4. PICK q \in Queues : q = flushes[f].queue
    BY <2>1
  <2>5. \/ /\ delayed' = [delayed EXCEPT ![q] = @ \cup {r}]
           /\ flushes'[f].dead = flushes[f].dead /\ dropped' = dropped
        \/ delayed' = delayed /\ flushes'[f].dead = flushes[f].dead \cup {r} /\ dropped' = dropped
        \/ /\ delayed' = delayed /\ flushes'[f].dead = flushes[f].dead
           /\ dropped' = dropped \cup {r}
    BY <1>0, <1>8, <2>4 DEF RetryMessage, TypeOK, Flushes
  <2>6. BatchesEnd'
    BY <1>1, <2>3 DEF BatchesEnd
  <2>7. ASSUME NEW m \in Ids, m # r PROVE Placed(m)'
    <3>1. \A p \in Queues : m \in delayed'[p] <=> m \in delayed[p]
      BY <1>0, <2>5, <2>7 DEF TypeOK
    <3>2. \A g \in FlushIds : /\ m \in flushes'[g].batch <=> m \in flushes[g].batch
                              /\ m \in flushes'[g].dead <=> m \in flushes[g].dead
      BY <2>3, <2>5, <2>7
    <3>3. QED BY <1>1, <2>1, <2>5, <2>7, <3>1, <3>2, Unmoved
  <2>8. /\ \A g \in FlushIds \ {f} : r \notin flushes'[g].batch /\ r \notin flushes'[g].dead
        /\ \A p \in Queues : r \notin delayed[p] /\ r \notin Elements(messages'[p])
        /\ r \notin acked' /\ r \notin dropped /\ r \notin flushes'[f].batch /\ r \in sent'
    BY <1>1, <2>1, <2>2, <2>3, TakenOnly
  <2>9. CASE /\ delayed' = [delayed EXCEPT ![q] = @ \cup {r}]
             /\ flushes'[f].dead = flushes[f].dead /\ dropped' = dropped
    <3>1. r \in delayed'[q] /\ \A p \in Queues \ {q} : r \notin delayed'[p]
      BY <1>0, <2>8, <2>9 DEF TypeOK
    <3>2. Placed(r)'
      BY <2>2, <2>8, <2>9, <3>1, NowHeld
    <3>3. QED BY <1>3, <2>1, <2>6, <2>7, <3>2
  <2>10. CASE delayed' = delayed /\ flushes'[f].dead = flushes[f].dead \cup {r}
              /\ dropped' = dropped
    <3>1. Placed(r)'
      BY <2>8, <2>10, NowTaken
    <3>2. QED BY <1>3, <2>1, <2>6, <2>7, <3>1
  <2>11. CASE /\ delayed' = delayed /\ flushes'[f].dead = flushes[f].dead
              /\ dropped' = dropped \cup {r}
    <3>1. Placed(r)'
      BY <2>2, <2>8, <2>11, NowSettled
    <3>2. QED BY <1>3, <2>1, <2>6, <2>7, <3>1
  <2>12. QED BY <2>5, <2>9, <2>10, <2>11
<1>9. ASSUME NEW f \in FlushIds, EndFlush(f)
      PROVE  Kept' /\ \A m \in Ids : Placed(m)'
  <2>1. /\ flushes'[f].batch = flushes[f].batch /\ flushes'[f].dead = flushes[f].dead
        /\ flushes[f].batch = {}
        /\ flushes'[f].stage = "idle" => flushes'[f].dead = {}
        /\ \A g \in FlushIds \ {f} : flushes'[g] = flushes[g]
    BY <1>0, <1>9 DEF EndFlush, TypeOK, Flushes, Idle
  <2>2. UNCHANGED <<delayed, messages, sent, acked, dropped>>
    BY <1>9 DEF EndFlush
  <2>3. BatchesEnd'
    BY <1>1, <2>1 DEF BatchesEnd
  <2>4. QED BY <1>1, <1>3, <2>1, <2>2, <2>3, Unmoved
<1>10. ASSUME NEW f \in FlushIds, MoveToDeadLetterQueue(f)
       PROVE  Kept' /\ \A m \in Ids : Placed(m)'
  <2>1. /\ flushes[f].stage = "deadletter" /\ flushes[f].batch = {}
        /\ flushes'[f].batch = {} /\ flushes'[f].dead = {}
        /\ \A g \in FlushIds \ {f} : flushes'[g] = flushes[g]
    BY <1>0, <1>1, <1>10 DEF MoveToDeadLetterQueue, TypeOK, Idle, BatchesEnd
  <2>2. UNCHANGED <<messages, sent, acked>>
    BY <1>10 DEF MoveToDeadLetterQueue
  <2>3. BatchesEnd'
    BY <1>1, <2>1 DEF BatchesEnd
  <2>4. PICK ms \in SUBSET Ids : ms = flushes[f].dead
    BY <1>0 DEF TypeOK, Flushes
  <2>5. ASSUME NEW m \in ms
        PROVE  /\ \A g \in FlushIds : m \notin flushes'[g].batch /\ m \notin flushes'[g].dead
               /\ \A q \in Queues : m \notin delayed[q] /\ m \notin Elements(messages'[q])
               /\ m \notin acked' /\ m \notin dropped /\ m \in sent'
    <3>1. m \in Ids /\ m \in Taken(f)
      BY <2>4 DEF Taken
    <3>2. m \in sent
      BY <1>1, <3>1 DEF SomePlace
    <3>3. QED BY <1>1, <2>1, <2>2, <3>1, <3>2, TakenOnly
  <2>6. CASE DeadLetterQueue[flushes[f].queue] \in Consumers
    <3>1. PICK d \in Queues : d = DeadLetterQueue[flushes[f].queue]
      BY <2>6, BrokerAssumption
    <3>2. /\ dropped' = dropped /\ delayed'[d] = delayed[d] \cup ms
          /\ \A p \in Queues \ {d} : delayed'[p] = delayed[p]
      BY <1>0, <1>10, <2>4, <2>6, <3>1 DEF MoveToDeadLetterQueue, Enqueue, TypeOK
    <3>3. ASSUME NEW m \in Ids, m \notin ms PROVE Placed(m)'
      <4>1. \A q \in Queues : m \in delayed'[q] <=> m \in delayed[q]
        BY <3>2, <3>3
      <4>2. \A g \in FlushIds : /\ m \in flushes'[g].batch <=> m \in flushes[g].batch
                                /\ m \in flushes'[g].dead <=> m \in flushes[g].dead
        BY <2>1, <2>4, <3>3
      <4>3. QED BY <1>1, <2>2, <3>2, <4>1, <4>2, Unmoved
    <3>4. ASSUME NEW m \in Ids, m \in ms PROVE Placed(m)'
      BY <2>5, <3>2, <3>4, NowHeld
    <3>5. QED BY <1>3, <2>2, <2>3, <3>3, <3>4
  <2>7. CASE DeadLetterQueue[flushes[f].queue] \notin Consumers
    <3>1. dropped' = dropped \cup ms /\ delayed' = delayed
      BY <1>10, <2>4, <2>7 DEF MoveToDeadLetterQueue
    <3>2. ASSUME NEW m \in Ids, m \notin ms PROVE Placed(m)'
      <4>1. \A g \in FlushIds : /\ m \in flushes'[g].batch <=> m \in flushes[g].batch
                                /\ m \in flushes'[g].dead <=> m \in flushes[g].dead
        BY <2>1, <2>4, <3>2
      <4>2. QED BY <1>1, <2>2, <3>1, <3>2, <4>1, Unmoved
    <3>3. ASSUME NEW m \in Ids, m \in ms PROVE Placed(m)'
      BY <2>5, <3>1, <3>3, NowSettled
    <3>4. QED BY <1>3, <2>2, <2>3, <3>2, <3>3
  <2>8. QED BY <2>6, <2>7
<1>11. ASSUME NEW f \in FlushIds, FlushThrows(f)
       PROVE  Kept' /\ \A m \in Ids : Placed(m)'
  <2>1. /\ flushes'[f].batch = flushes[f].batch /\ flushes'[f].dead = flushes[f].dead
        /\ flushes'[f].stage = "threw"
        /\ \A g \in FlushIds \ {f} : flushes'[g] = flushes[g]
    BY <1>0, <1>11 DEF FlushThrows, TypeOK, Flushes
  <2>2. UNCHANGED <<delayed, messages, sent, acked, dropped>>
    BY <1>11 DEF FlushThrows
  <2>3. BatchesEnd'
    BY <1>1, <2>1 DEF BatchesEnd
  <2>4. QED BY <1>1, <1>3, <2>1, <2>2, <2>3, Unmoved
<1>12. CASE UNCHANGED vars
  <2>1. UNCHANGED <<delayed, messages, flushes, sent, acked, dropped>>
    BY <1>12 DEF vars
  <2>2. QED BY <1>1, <1>2, <2>1, Unmoved
<1>13. ASSUME NEW q \in Queues, Timer(q) PROVE Kept' /\ \A m \in Ids : Placed(m)'
  BY <1>5, <1>6, <1>13 DEF Timer, FirePending, FireStray
<1>14. CASE Produce
  <2>1. \A m \in Ids : m \notin sent => {m} \in SUBSET Ids /\ {m} \cap sent = {}
    OBVIOUS
  <2>2. QED BY <1>4, <1>14, <2>1 DEF Produce, SendMessage, SendBatch
<1>15. ASSUME NEW f \in FlushIds, Continue(f) PROVE Kept' /\ \A m \in Ids : Placed(m)'
  BY <1>7, <1>8, <1>9, <1>10, <1>15 DEF Continue
<1> HIDE DEF Placed, Kept
<1>16. QED BY <1>11, <1>12, <1>13, <1>14, <1>15 DEF Next

\* Places that exclude one another are counted once.
LEMMA PlacesAreHomes == PlacesInv => Conservation
<1> SUFFICES ASSUME PlacesInv, NEW m \in Ids
             PROVE  Cardinality(Homes(m)) = IF m \in sent THEN 1 ELSE 0
  BY DEF Conservation
<1>1. /\ OnePlace(m) /\ (m \in sent <=> SomePlace(m))
      /\ \A q \in Queues : NoRepeats(messages[q])
  BY DEF PlacesInv
<1> DEFINE D == {<<"delayed", q>> : q \in {p \in Queues : m \in delayed[p]}}
           M == UNION {{<<"messages", q, i>> :
                          i \in {j \in 1..Len(messages[q]) : messages[q][j] = m}} :
                        q \in Queues}
           B == {<<"batch", f>> : f \in {g \in FlushIds : m \in flushes[g].batch}}
           X == {<<"dead", f>> : f \in {g \in FlushIds : m \in flushes[g].dead}}
           S == {<<"acked">> : n \in acked \cap {m}}
           T == {<<"dropped">> : n \in dropped \cap {m}}
<1>2. Homes(m) = D \cup M \cup B \cup X \cup S \cup T
  BY DEF Homes
<1>3. ASSUME \A q \in Queues : m \notin delayed[q] PROVE D = {}
  BY <1>3
<1>4. ASSUME \A q \in Queues : m \notin Elements(messages[q]) PROVE M = {}
  BY <1>4 DEF Elements
<1>5. ASSUME \A f \in FlushIds : m \notin flushes[f].batch PROVE B = {}
  BY <1>5
<1>6. ASSUME \A f \in FlushIds : m \notin flushes[f].dead PROVE X = {}
  BY <1>6
<1>7. ASSUME m \notin acked, m \notin dropped PROVE S = {} /\ T = {}
  BY <1>7
<1>8. ASSUME NEW q \in Queues, m \in delayed[q],
             \A p \in Queues \ {q} : m \notin delayed[p]
      PROVE  D = {<<"delayed", q>>}
  BY <1>8
<1>9. ASSUME NEW q \in Queues, m \in Elements(messages[q]),
             \A p \in Queues \ {q} : m \notin Elements(messages[p])
      PROVE  \E h : M = {h}
  <2>1. PICK i \in 1..Len(messages[q]) : messages[q][i] = m
    BY <1>9 DEF Elements
  <2>2. {j \in 1..Len(messages[q]) : messages[q][j] = m} = {i}
    BY <1>1, <2>1 DEF NoRepeats
  <2>3. \A p \in Queues \ {q} : {j \in 1..Len(messages[p]) : messages[p][j] = m} = {}
    BY <1>9 DEF Elements
  <2>4. M = {<<"messages", q, i>>}
    <3>1. <<"messages", q, i>> \in M
      BY <2>2
    <3>2. ASSUME NEW h \in M PROVE h = <<"messages", q, i>>
      <4>1. PICK p \in Queues :
              h \in {<<"messages", p, k>> :
                       k \in {j \in 1..Len(messages[p]) : messages[p][j] = m}}
        OBVIOUS
      <4>2. p = q
        BY <2>3, <4>1
      <4>3. QED BY <2>2, <4>1, <4>2
    <3>3. QED BY <3>1, <3>2
  <2>5. QED BY <2>4
<1>10. ASSUME NEW f \in FlushIds, m \in flushes[f].batch,
              \A g \in FlushIds \ {f} : m \notin flushes[g].batch
       PROVE  B = {<<"batch", f>>}
  BY <1>10
<1>11. ASSUME NEW f \in FlushIds, m \in flushes[f].dead,
              \A g \in FlushIds \ {f} : m \notin flushes[g].dead
       PROVE  X = {<<"dead", f>>}
  BY <1>11
<1>12. ASSUME m \in acked, m \notin dropped PROVE S = {<<"acked">>} /\ T = {}
  <2>1. acked \cap {m} = {m} /\ dropped \cap {m} = {}
    BY <1>12
  <2>2. QED BY <2>1
<1>13. ASSUME m \notin acked, m \in dropped PROVE S = {} /\ T = {<<"dropped">>}
  <2>1. acked \cap {m} = {} /\ dropped \cap {m} = {m}
    BY <1>13
  <2>2. QED BY <2>1
<1> HIDE DEF D, M, B, X, S, T
<1>14. CASE m \notin sent
  <2>1. ~SomePlace(m)
    BY <1>1, <1>14
  <2>2. Homes(m) = {}
    BY <1>2, <1>3, <1>4, <1>5, <1>6, <1>7, <2>1, NowhereElse
  <2>3. QED BY <1>14, <2>2, FS_EmptySet
<1>15. CASE m \in sent
  <2> SUFFICES \E h : Homes(m) = {h}
    BY <1>15, FS_Singleton
  <2>1. ASSUME NEW q \in Queues, m \in Held(q) PROVE \E h : Homes(m) = {h}
    <3>1. B = {} /\ X = {} /\ S = {} /\ T = {}
      BY <1>1, <1>5, <1>6, <1>7, <2>1, HeldOnly
    <3>2. \A p \in Queues \ {q} : m \notin delayed[p] /\ m \notin Elements(messages[p])
      BY <1>1, <2>1, HeldOnly
    <3>3. CASE m \in delayed[q] /\ m \notin Elements(messages[q])
      <4>1. D = {<<"delayed", q>>} /\ M = {}
        BY <1>4, <1>8, <3>2, <3>3
      <4>2. QED BY <1>2, <3>1, <4>1
    <3>4. CASE m \notin delayed[q] /\ m \in Elements(messages[q])
      <4>1. D = {} /\ \E h : M = {h}
        BY <1>3, <1>9, <3>2, <3>4
      <4>2. QED BY <1>2, <3>1, <4>1
    <3>5. QED BY <1>1, <2>1, <3>3, <3>4 DEF Held, OnePlace
  <2>2. ASSUME NEW f \in FlushIds, m \in Taken(f) PROVE \E h : Homes(m) = {h}
    <3>1. D = {} /\ M = {} /\ S = {} /\ T = {}
      BY <1>1, <1>3, <1>4, <1>7, <2>2, TakenOnly
    <3>2. \A g \in FlushIds \ {f} : m \notin flushes[g].batch /\ m \notin flushes[g].dead
      BY <1>1, <2>2, TakenOnly
    <3>3. CASE m \in flushes[f].batch /\ m \notin flushes[f].dead
      <4>1. B = {<<"batch", f>>} /\ X = {}
        BY <1>6, <1>10, <3>2, <3>3
      <4>2. QED BY <1>2, <3>1, <4>1
    <3>4. CASE m \notin flushes[f].batch /\ m \in flushes[f].dead
      <4>1. B = {} /\ X = {<<"dead", f>>}
        BY <1>5, <1>11, <3>2, <3>4
      <4>2. QED BY <1>2, <3>1, <4>1
    <3>5. QED BY <1>1, <2>2, <3>3, <3>4 DEF Taken, OnePlace
  <2>3. CASE m \in Settled
    <3>1. /\ \A q \in Queues : m \notin delayed[q] /\ m \notin Elements(messages[q])
          /\ \A f \in FlushIds : m \notin flushes[f].batch /\ m \notin flushes[f].dead
      BY <1>1, <2>3 DEF OnePlace, Held, Taken
    <3>2. D = {} /\ M = {} /\ B = {} /\ X = {}
      BY <1>3, <1>4, <1>5, <1>6, <3>1
    <3>3. (S = {<<"acked">>} /\ T = {}) \/ (S = {} /\ T = {<<"dropped">>})
      BY <1>1, <1>12, <1>13, <2>3 DEF Settled, OnePlace
    <3>4. QED BY <1>2, <3>2, <3>3
  <2>4. QED BY <1>1, <1>15, <2>1, <2>2, <2>3 DEF SomePlace
<1>16. QED BY <1>14, <1>15

(* A sent message is at exactly one place, however deliveries, overlapping
   flushes, retries, moves to dead letter queues and failing log calls
   interleave: #enqueue, #flush and its loop neither lose nor duplicate it. *)
THEOREM MessagesAreConserved == Spec => []Conservation
<1>1. PlacesInv /\ [Next]_vars => PlacesInv'
  BY NextPlaces
<1>2. QED
  BY <1>1, InitPlaces, PlacesAreHomes, PTL DEF Spec

-----------------------------------------------------------------------------
(* The retry budget. *)

\* AttemptsBounded, for one message.
WithinBudget(m) ==
  /\ \A q \in Queues : m \in Held(q) => failed[m] < MaxAttempts(q)
  /\ \A f \in FlushIds :
       /\ m \in flushes[f].batch => failed[m] < MaxAttempts(flushes[f].queue)
       /\ m \in flushes[f].dead => failed[m] = MaxAttempts(flushes[f].queue)

(* #failedAttempts belongs to a message and the budget to a queue, so a message
   must be known to be in one queue only (PlacesInv). *)
BudgetInv == PlacesInv /\ \A m \in Ids : WithinBudget(m)

\* A budget allows at least one attempt.
LEMMA BudgetIsPositive ==
  ASSUME NEW q \in Queues
  PROVE  MaxAttempts(q) \in Nat /\ 0 < MaxAttempts(q)
<1>1. MaxRetries[q] \in Nat
  BY BrokerAssumption
<1>2. QED BY <1>1 DEF MaxAttempts

\* A message that goes nowhere new and fails no attempt keeps its budget.
LEMMA BudgetUnchanged ==
  ASSUME NEW m \in Ids, WithinBudget(m), failed'[m] = failed[m],
         \A q \in Queues : m \in Held(q)' => m \in Held(q),
         \A f \in FlushIds :
           /\ m \in flushes'[f].batch =>
                m \in flushes[f].batch /\ flushes'[f].queue = flushes[f].queue
           /\ m \in flushes'[f].dead =>
                m \in flushes[f].dead /\ flushes'[f].queue = flushes[f].queue
  PROVE  WithinBudget(m)'
<1>1. \A q : MaxAttempts(q)' = MaxAttempts(q)
  BY DEF MaxAttempts
<1>2. \A q \in Queues : m \in Held(q)' => failed'[m] < MaxAttempts(q)
  BY DEF WithinBudget
<1>3. ASSUME NEW f \in FlushIds
      PROVE  /\ m \in flushes'[f].batch => failed'[m] < MaxAttempts(flushes'[f].queue)
             /\ m \in flushes'[f].dead => failed'[m] = MaxAttempts(flushes'[f].queue)
  BY DEF WithinBudget
<1>4. QED BY <1>2, <1>3 DEF WithinBudget, MaxAttempts

\* Nothing has failed at first.
LEMMA InitBudget == Init => BudgetInv
<1> SUFFICES ASSUME Init PROVE BudgetInv
  OBVIOUS
<1>1. PlacesInv /\ \A f \in FlushIds : flushes[f].batch = {} /\ flushes[f].dead = {}
  BY InitPlaces DEF Init, Idle
<1>2. ASSUME NEW m \in Ids PROVE \A q \in Queues : m \notin Held(q)
  <2>1. m \notin sent
    BY DEF Init
  <2>2. ~SomePlace(m)
    BY <1>1, <2>1 DEF PlacesInv
  <2>3. QED BY <2>2 DEF SomePlace
<1>3. QED BY <1>1, <1>2 DEF BudgetInv, WithinBudget

\* Every step keeps every message within its budget.
LEMMA NextBudget ==
  ASSUME BudgetInv, [Next]_vars
  PROVE  BudgetInv'
<1>0. /\ PlacesInv /\ PlacesInv' /\ TypeOK /\ FlushesHaveQueue
      /\ \A m \in Ids : OnePlace(m) /\ (m \in sent <=> SomePlace(m))
  BY NextPlaces DEF BudgetInv, PlacesInv, TypeInv
<1> SUFFICES ASSUME NEW m \in Ids PROVE WithinBudget(m)'
  BY <1>0 DEF BudgetInv
<1>1. WithinBudget(m) /\ OnePlace(m) /\ (m \in sent <=> SomePlace(m))
  BY <1>0 DEF BudgetInv
<1>2. ASSUME UNCHANGED <<delayed, messages, failed>>,
             \A f \in FlushIds :
               /\ m \in flushes'[f].batch =>
                    m \in flushes[f].batch /\ flushes'[f].queue = flushes[f].queue
               /\ m \in flushes'[f].dead =>
                    m \in flushes[f].dead /\ flushes'[f].queue = flushes[f].queue
      PROVE  WithinBudget(m)'
  <2>1. \A q \in Queues : Held(q)' = Held(q)
    BY <1>2 DEF Held, Elements
  <2>2. QED BY <1>1, <1>2, <2>1, BudgetUnchanged
\* #enqueue gives each of its messages, which were nowhere else, a new budget.
<1>3. ASSUME NEW q \in Queues, NEW ms \in SUBSET Ids, Enqueue(q, ms), messages' = messages,
             \A f \in FlushIds : m \in ms =>
               m \notin flushes'[f].batch /\ m \notin flushes'[f].dead,
             \A f \in FlushIds : m \notin ms =>
               /\ m \in flushes'[f].batch =>
                    m \in flushes[f].batch /\ flushes'[f].queue = flushes[f].queue
               /\ m \in flushes'[f].dead =>
                    m \in flushes[f].dead /\ flushes'[f].queue = flushes[f].queue
      PROVE  WithinBudget(m)'
  <2>1. /\ delayed'[q] = delayed[q] \cup ms
        /\ \A p \in Queues \ {q} : delayed'[p] = delayed[p]
        /\ failed'[m] = IF m \in ms THEN 0 ELSE failed[m]
    BY <1>0, <1>3 DEF Enqueue, TypeOK
  <2>2. CASE m \in ms
    <3>1. \A p \in Queues : failed'[m] < MaxAttempts(p)
      BY <2>1, <2>2, BudgetIsPositive
    <3>2. QED BY <1>3, <2>2, <3>1 DEF WithinBudget, MaxAttempts
  <2>3. CASE m \notin ms
    <3>1. \A p \in Queues : m \in Held(p)' => m \in Held(p)
      BY <1>3, <2>1, <2>3 DEF Held, Elements
    <3>2. QED BY <1>1, <1>3, <2>1, <2>3, <3>1, BudgetUnchanged
  <2>4. QED BY <2>2, <2>3
<1>4. ASSUME NEW q \in Queues, NEW ms \in SUBSET Ids, ms \cap sent = {}, Send(q, ms)
      PROVE  WithinBudget(m)'
  <2>1. UNCHANGED <<messages, flushes>>
    BY <1>4 DEF Send
  <2>2. CASE q \in Consumers
    <3>1. Enqueue(q, ms)
      BY <1>4, <2>2 DEF Send
    <3>2. m \in ms => \A f \in FlushIds : m \notin flushes[f].batch /\ m \notin flushes[f].dead
      BY <1>1, <1>4, NowhereElse
    <3>3. QED BY <1>3, <2>1, <3>1, <3>2
  <2>3. CASE q \notin Consumers
    BY <1>2, <1>4, <2>1, <2>3 DEF Send
  <2>4. QED BY <2>2, <2>3
<1>5. ASSUME NEW q \in Queues, NEW d \in Ids, Deliver(q, d)
      PROVE  WithinBudget(m)'
  <2>1. /\ d \in delayed[q] /\ delayed'[q] = delayed[q] \ {d}
        /\ \A p \in Queues \ {q} : delayed'[p] = delayed[p] /\ messages'[p] = messages[p]
        /\ messages'[q] = Append(messages[q], d) /\ messages[q] \in Seq(Ids)
        /\ UNCHANGED <<flushes, failed>>
    BY <1>0, <1>5 DEF Deliver, TypeOK
  <2>2. Elements(messages'[q]) = Elements(messages[q]) \cup {d}
    BY <2>1, AppendElements
  <2>3. \A p \in Queues : delayed'[p] \cup Elements(messages'[p]) \subseteq Held(p)
    BY <2>1, <2>2 DEF Held
  <2>4. \A p \in Queues : m \in Held(p)' => m \in Held(p)
    BY <2>3 DEF Held, Elements
  <2>5. QED BY <1>1, <2>1, <2>4, BudgetUnchanged
<1>6. ASSUME NEW q \in Queues, NEW f \in FlushIds, StartFlush(q, f)
      PROVE  WithinBudget(m)'
  <2>1. /\ messages'[q] = Remaining(q)
        /\ \A p \in Queues \ {q} : messages'[p] = messages[p]
        /\ UNCHANGED <<delayed, failed>>
    BY <1>0, <1>6 DEF StartFlush, TypeOK
  <2>2. /\ flushes'[f].batch = Spliced(q) /\ flushes'[f].dead = {} /\ flushes'[f].queue = q
        /\ \A g \in FlushIds \ {f} : flushes'[g] = flushes[g]
    BY <1>0, <1>6 DEF StartFlush, TypeOK
  <2>3. Elements(messages[q]) = Spliced(q) \cup Elements(Remaining(q))
    BY <1>0, SpliceElements DEF TypeOK
  <2>4. \A p \in Queues : delayed'[p] \cup Elements(messages'[p]) \subseteq Held(p)
    BY <2>1, <2>3 DEF Held
  <2>5. \A p \in Queues : m \in Held(p)' => m \in Held(p)
    BY <2>4 DEF Held, Elements
  <2>6. m \in Spliced(q) => failed[m] < MaxAttempts(q)
    BY <1>1, <2>3 DEF WithinBudget, Held
  <2>7. \A p \in Queues : m \in Held(p)' => failed'[m] < MaxAttempts(p)
    BY <1>1, <2>1, <2>5 DEF WithinBudget
  <2>8. ASSUME NEW g \in FlushIds
        PROVE  /\ m \in flushes'[g].batch => failed'[m] < MaxAttempts(flushes'[g].queue)
               /\ m \in flushes'[g].dead => failed'[m] = MaxAttempts(flushes'[g].queue)
    BY <1>1, <2>1, <2>2, <2>6 DEF WithinBudget
  <2>9. QED BY <2>7, <2>8 DEF WithinBudget, MaxAttempts
<1>7. ASSUME NEW f \in FlushIds, NEW rs \in SUBSET Ids, Respond(f, rs)
      PROVE  WithinBudget(m)'
  <2>1. /\ rs \subseteq flushes[f].batch
        /\ flushes'[f].batch = rs /\ flushes'[f].dead = flushes[f].dead
        /\ flushes'[f].queue = flushes[f].queue
        /\ \A g \in FlushIds \ {f} : flushes'[g] = flushes[g]
    BY <1>0, <1>7 DEF Respond, TypeOK, Flushes
  <2>2. QED BY <1>2, <1>7, <2>1 DEF Respond
<1>8. ASSUME NEW f \in FlushIds, NEW r \in Ids, RetryMessage(f, r)
      PROVE  WithinBudget(m)'
  <2>1. PICK q \in Queues : q = flushes[f].queue
    BY <1>0, <1>8 DEF RetryMessage, FlushesHaveQueue
  <2>2. /\ r \in flushes[f].batch /\ messages' = messages
        /\ failed' = [failed EXCEPT ![r] = failed[r] + 1]
        /\ flushes'[f].queue = q /\ flushes'[f].batch = flushes[f].batch \ {r}
        /\ \A g \in FlushIds \ {f} : flushes'[g] = flushes[g]
    BY <1>0, <1>8, <2>1 DEF RetryMessage, TypeOK, Flushes
  <2>3. \/ /\ failed[r] + 1 < MaxAttempts(q) /\ flushes'[f].dead = flushes[f].dead
           /\ delayed' = [delayed EXCEPT ![q] = @ \cup {r}]
        \/ /\ ~(failed[r] + 1 < MaxAttempts(q))
           /\ flushes'[f].dead = flushes[f].dead \/ flushes'[f].dead = flushes[f].dead \cup {r}
           /\ delayed' = delayed
    BY <1>0, <1>8, <2>1 DEF RetryMessage, Retryable, TypeOK, Flushes
  <2>4. CASE m # r
    <3>1. failed'[m] = failed[m]
      BY <1>0, <2>2, <2>4 DEF TypeOK
    <3>2. \A p \in Queues : m \in delayed'[p] => m \in delayed[p]
      BY <1>0, <2>3, <2>4 DEF TypeOK
    <3>3. \A p \in Queues : m \in Held(p)' => m \in Held(p)
      BY <2>2, <3>2 DEF Held, Elements
    <3>4. \A g \in FlushIds :
            /\ m \in flushes'[g].batch =>
                 m \in flushes[g].batch /\ flushes'[g].queue = flushes[g].queue
            /\ m \in flushes'[g].dead =>
                 m \in flushes[g].dead /\ flushes'[g].queue = flushes[g].queue
      BY <2>1, <2>2, <2>3, <2>4
    <3>5. QED BY <1>1, <3>1, <3>3, <3>4, BudgetUnchanged
  <2>5. CASE m = r
    <3>1. m \in Taken(f) /\ m \notin flushes[f].dead
      BY <1>1, <2>2, <2>5 DEF Taken, OnePlace
    <3>2. /\ \A g \in FlushIds \ {f} : m \notin flushes'[g].batch /\ m \notin flushes'[g].dead
          /\ \A p \in Queues : m \notin delayed[p] /\ m \notin Elements(messages[p])
      BY <1>1, <2>2, <3>1, TakenOnly
    <3>3. failed'[m] = failed[m] + 1 /\ failed[m] \in Nat
      BY <1>0, <2>2, <2>5 DEF TypeOK
    <3>4. failed[m] < MaxAttempts(q) /\ MaxAttempts(q) \in Nat
      BY <1>1, <2>1, <2>2, <2>5, BudgetIsPositive DEF WithinBudget
    <3>5. \A p \in Queues : m \in Held(p)' => failed'[m] < MaxAttempts(p)
      <4> SUFFICES ASSUME NEW p \in Queues, m \in Held(p)' PROVE failed'[m] < MaxAttempts(p)
        OBVIOUS
      <4>1. m \in delayed'[p]
        BY <2>2, <3>2 DEF Held, Elements
      <4>2. p = q /\ failed[r] + 1 < MaxAttempts(q)
        BY <1>0, <2>3, <2>5, <3>2, <4>1 DEF TypeOK
      <4>3. QED BY <2>5, <3>3, <4>2
    <3>6. m \in flushes'[f].dead => failed'[m] = MaxAttempts(q)
      <4>1. m \in flushes'[f].dead => ~(failed[m] + 1 < MaxAttempts(q))
        BY <2>3, <2>5, <3>1
      <4>2. QED BY <3>3, <3>4, <4>1
    <3>7. m \notin flushes'[f].batch
      BY <2>2, <2>5
    <3>8. QED BY <2>2, <3>2, <3>5, <3>6, <3>7 DEF WithinBudget, MaxAttempts
  <2>6. QED BY <2>4, <2>5
<1>9. ASSUME NEW f \in FlushIds, EndFlush(f)
      PROVE  WithinBudget(m)'
  <2>1. /\ flushes'[f].batch = {}
        /\ m \in flushes'[f].dead =>
             m \in flushes[f].dead /\ flushes'[f].queue = flushes[f].queue
        /\ \A g \in FlushIds \ {f} : flushes'[g] = flushes[g]
    BY <1>0, <1>9 DEF EndFlush, TypeOK, Flushes, Idle
  <2>2. QED BY <1>2, <1>9, <2>1 DEF EndFlush
<1>10. ASSUME NEW f \in FlushIds, MoveToDeadLetterQueue(f)
       PROVE  WithinBudget(m)'
  <2>1. /\ flushes'[f].batch = {} /\ flushes'[f].dead = {} /\ messages' = messages
        /\ \A g \in FlushIds \ {f} : flushes'[g] = flushes[g]
    BY <1>0, <1>10 DEF MoveToDeadLetterQueue, TypeOK, Idle
  <2>2. PICK ms \in SUBSET Ids : ms = flushes[f].dead
    BY <1>0 DEF TypeOK, Flushes
  <2>3. ASSUME m \in ms, NEW g \in FlushIds
        PROVE  m \notin flushes'[g].batch /\ m \notin flushes'[g].dead
    <3>1. m \in Taken(f)
      BY <2>2, <2>3 DEF Taken
    <3>2. QED BY <1>1, <2>1, <3>1, TakenOnly
  <2>4. CASE DeadLetterQueue[flushes[f].queue] \in Consumers
    <3>1. PICK d \in Queues : d = DeadLetterQueue[flushes[f].queue]
      BY <2>4, BrokerAssumption
    <3>2. Enqueue(d, ms)
      BY <1>10, <2>2, <2>4, <3>1 DEF MoveToDeadLetterQueue
    <3>3. \A g \in FlushIds : m \notin ms =>
            /\ m \in flushes'[g].batch =>
                 m \in flushes[g].batch /\ flushes'[g].queue = flushes[g].queue
            /\ m \in flushes'[g].dead =>
                 m \in flushes[g].dead /\ flushes'[g].queue = flushes[g].queue
      BY <2>1
    <3>4. QED BY <1>3, <2>1, <2>3, <3>2, <3>3
  <2>5. CASE DeadLetterQueue[flushes[f].queue] \notin Consumers
    BY <1>2, <1>10, <2>1, <2>5 DEF MoveToDeadLetterQueue
  <2>6. QED BY <2>4, <2>5
<1>11. ASSUME NEW f \in FlushIds, FlushThrows(f)
       PROVE  WithinBudget(m)'
  <2>1. /\ flushes'[f].batch = flushes[f].batch /\ flushes'[f].dead = flushes[f].dead
        /\ flushes'[f].queue = flushes[f].queue
        /\ \A g \in FlushIds \ {f} : flushes'[g] = flushes[g]
    BY <1>0, <1>11 DEF FlushThrows, TypeOK, Flushes
  <2>2. QED BY <1>2, <1>11, <2>1 DEF FlushThrows
<1>12. CASE UNCHANGED vars
  BY <1>2, <1>12 DEF vars
<1>13. ASSUME NEW q \in Queues, Timer(q) PROVE WithinBudget(m)'
  BY <1>5, <1>6, <1>13 DEF Timer, FirePending, FireStray
<1>14. CASE Produce
  <2>1. \A n \in Ids : n \notin sent => {n} \in SUBSET Ids /\ {n} \cap sent = {}
    OBVIOUS
  <2>2. QED BY <1>4, <1>14, <2>1 DEF Produce, SendMessage, SendBatch
<1>15. ASSUME NEW f \in FlushIds, Continue(f) PROVE WithinBudget(m)'
  BY <1>7, <1>8, <1>9, <1>10, <1>15 DEF Continue
<1>16. QED BY <1>11, <1>12, <1>13, <1>14, <1>15 DEF Next

(* Whichever queues a message came through, a consumer gets it at most
   maxRetries + 1 times, and it goes to the dead letter queue exactly when that
   budget is spent (#failedAttempts in #flush's loop). *)
THEOREM RetriesAreBounded == Spec => []AttemptsBounded
<1>1. BudgetInv => AttemptsBounded
  <2> SUFFICES ASSUME BudgetInv PROVE AttemptsBounded
    OBVIOUS
  <2>1. TypeOK /\ \A m \in Ids : WithinBudget(m)
    BY DEF BudgetInv, PlacesInv, TypeInv
  <2>2. \A q \in Queues : delayed[q] \subseteq Ids /\ Elements(messages[q]) \subseteq Ids
    BY <2>1 DEF TypeOK, Elements
  <2>3. \A f \in FlushIds : flushes[f].batch \subseteq Ids /\ flushes[f].dead \subseteq Ids
    BY <2>1 DEF TypeOK, Flushes
  <2>4. \A q \in Queues : \A m \in delayed[q] \cup Elements(messages[q]) :
          failed[m] < MaxAttempts(q)
    BY <2>1, <2>2 DEF WithinBudget, Held
  <2>5. \A f \in FlushIds :
          /\ \A m \in flushes[f].batch : failed[m] < MaxAttempts(flushes[f].queue)
          /\ \A m \in flushes[f].dead : failed[m] = MaxAttempts(flushes[f].queue)
    BY <2>1, <2>3 DEF WithinBudget
  <2>6. QED BY <2>4, <2>5 DEF AttemptsBounded
<1>2. BudgetInv /\ [Next]_vars => BudgetInv'
  BY NextBudget
<1>3. QED
  BY <1>1, <1>2, InitBudget, PTL DEF Spec

-----------------------------------------------------------------------------
(* The brokers implement QueueDelivery. *)

\* What the refinement mapping says of message m.
Mapped(m) ==
  /\ m \in acked => MappedStatus[m] = "acked"
  /\ m \in dropped => MappedStatus[m] = "dropped"
  /\ m \notin sent => MappedStatus[m] = "unsent"
  /\ m \in Settled \/ m \notin sent => MappedAt[m] = NoQueue
  /\ \A q \in Queues : m \in Held(q) => MappedStatus[m] = "waiting" /\ MappedAt[m] = q
  /\ \A f \in FlushIds :
       m \in Taken(f) =>
         /\ MappedAt[m] = flushes[f].queue
         /\ flushes[f].stage = "threw" => MappedStatus[m] = "lost"
         /\ flushes[f].stage # "threw" /\ m \in flushes[f].dead => MappedStatus[m] = "dead"
         /\ flushes[f].stage = "dispatch" /\ m \in flushes[f].batch =>
              MappedStatus[m] = "dispatched"
         /\ flushes[f].stage = "retry" /\ m \in flushes[f].batch =>
              MappedStatus[m] = "rejected"

MappingSound ==
  /\ \A m \in Ids : Mapped(m)
  /\ MappedStatus = [m \in Ids |-> MappedStatus[m]]
  /\ MappedAt = [m \in Ids |-> MappedAt[m]]

\* The cases of the mapping exclude one another, so it says where a message is.
LEMMA MappingIsSound == PlacesInv => MappingSound
<1> SUFFICES ASSUME PlacesInv PROVE MappingSound
  OBVIOUS
<1>1. /\ MappedStatus = [m \in Ids |-> MappedStatus[m]]
      /\ MappedAt = [m \in Ids |-> MappedAt[m]]
  <2>1. MappedStatus = [m \in Ids |-> MappedStatus[m]]
    BY DEF MappedStatus
  <2>2. MappedAt = [m \in Ids |-> MappedAt[m]]
    BY DEF MappedAt
  <2>3. QED BY <2>1, <2>2
<1>2. ASSUME NEW m \in Ids PROVE Mapped(m)
  <2>1. /\ OnePlace(m) /\ (m \in sent <=> SomePlace(m))
        /\ TypeOK /\ FlushesHaveQueue /\ BatchesEnd
    BY DEF PlacesInv, TypeInv
  <2>2. /\ IsQueued(m) <=> \E q \in Queues : m \in Held(q)
        /\ \A st : InFlush(m, st) <=>
             \E f \in FlushIds : flushes[f].stage = st /\ m \in flushes[f].batch
        /\ IsLost(m) <=> \E f \in FlushIds : flushes[f].stage = "threw" /\ m \in Taken(f)
        /\ IsDead(m) <=> ~IsLost(m) /\ \E f \in FlushIds : m \in flushes[f].dead
    BY DEF IsQueued, InFlush, IsLost, IsDead, Held, Taken
  <2>3. MappedStatus[m] =
          CASE m \notin sent -> "unsent"
            [] m \in acked -> "acked"
            [] m \in dropped -> "dropped"
            [] IsQueued(m) -> "waiting"
            [] InFlush(m, "dispatch") -> "dispatched"
            [] InFlush(m, "retry") -> "rejected"
            [] IsLost(m) -> "lost"
            [] IsDead(m) -> "dead"
    BY DEF MappedStatus, StatusOf
  <2>4. MappedAt[m] = IF \E q \in Queues : Holds(q, m)
                      THEN CHOOSE q \in Queues : Holds(q, m)
                      ELSE NoQueue
    BY DEF MappedAt
  <2>5. \A q \in Queues : Holds(q, m) <=>
          m \in Held(q) \/ \E f \in FlushIds : flushes[f].queue = q /\ m \in Taken(f)
    BY DEF Holds, Held, Taken
  <2>6. ASSUME m \in Settled
        PROVE  /\ m \in acked => MappedStatus[m] = "acked"
               /\ m \in dropped => MappedStatus[m] = "dropped"
               /\ MappedAt[m] = NoQueue
               /\ \A q \in Queues : m \notin Held(q)
               /\ \A f \in FlushIds : m \notin Taken(f)
               /\ m \in sent
    <3>1. /\ \A q \in Queues : m \notin Held(q)
          /\ \A f \in FlushIds : m \notin Taken(f)
          /\ m \in sent /\ ~(m \in acked /\ m \in dropped)
      BY <2>1, <2>6 DEF OnePlace, SomePlace
    <3>2. ~IsLost(m) /\ (\A st : ~InFlush(m, st)) /\ ~IsDead(m) /\ ~IsQueued(m)
      BY <2>2, <3>1 DEF Taken
    <3>3. /\ m \in acked => MappedStatus[m] = "acked"
          /\ m \in dropped => MappedStatus[m] = "dropped"
      BY <2>3, <3>1, <3>2
    <3>4. QED BY <2>4, <2>5, <3>1, <3>3
  <2>7. ASSUME m \notin sent
        PROVE  /\ MappedStatus[m] = "unsent" /\ MappedAt[m] = NoQueue
               /\ \A q \in Queues : m \notin Held(q)
               /\ \A f \in FlushIds : m \notin Taken(f)
               /\ m \notin Settled
    <3>1. /\ \A q \in Queues : m \notin Held(q)
          /\ \A f \in FlushIds : m \notin Taken(f)
          /\ m \notin Settled
      BY <2>1, <2>7 DEF SomePlace
    <3>2. ~IsLost(m) /\ (\A st : ~InFlush(m, st)) /\ ~IsDead(m) /\ ~IsQueued(m)
      BY <2>2, <3>1 DEF Taken
    <3>3. MappedStatus[m] = "unsent"
      BY <2>3, <2>7, <3>1, <3>2 DEF Settled
    <3>4. QED BY <2>4, <2>5, <3>1, <3>3
  <2>8. ASSUME NEW q \in Queues, m \in Held(q)
        PROVE  MappedStatus[m] = "waiting" /\ MappedAt[m] = q
    <3>1. /\ \A p \in Queues : m \in Held(p) => p = q
          /\ \A f \in FlushIds : m \notin Taken(f)
          /\ m \in sent /\ m \notin acked /\ m \notin dropped
      BY <2>1, <2>8 DEF OnePlace, SomePlace, Settled
    <3>2. ~IsLost(m) /\ (\A st : ~InFlush(m, st)) /\ ~IsDead(m) /\ IsQueued(m)
      BY <2>2, <2>8, <3>1 DEF Taken
    <3>3. MappedStatus[m] = "waiting"
      BY <2>3, <3>1, <3>2
    <3>4. \A p \in Queues : Holds(p, m) <=> p = q
      BY <2>5, <2>8, <3>1
    <3>5. QED BY <2>4, <3>3, <3>4
  <2>9. ASSUME NEW f \in FlushIds, m \in Taken(f)
        PROVE  /\ MappedAt[m] = flushes[f].queue
               /\ flushes[f].stage = "threw" => MappedStatus[m] = "lost"
               /\ flushes[f].stage # "threw" /\ m \in flushes[f].dead =>
                    MappedStatus[m] = "dead"
               /\ flushes[f].stage = "dispatch" /\ m \in flushes[f].batch =>
                    MappedStatus[m] = "dispatched"
               /\ flushes[f].stage = "retry" /\ m \in flushes[f].batch =>
                    MappedStatus[m] = "rejected"
    <3>1. /\ \A g \in FlushIds : m \in Taken(g) => g = f
          /\ \A q \in Queues : m \notin Held(q)
          /\ m \in sent /\ m \notin acked /\ m \notin dropped
          /\ ~(m \in flushes[f].batch /\ m \in flushes[f].dead)
      BY <2>1, <2>9 DEF OnePlace, SomePlace, Settled
    <3>2. flushes[f].queue \in Queues
      BY <2>1, <2>9 DEF FlushesHaveQueue, BatchesEnd, Taken
    <3>3. \A p \in Queues : Holds(p, m) <=> p = flushes[f].queue
      BY <2>5, <2>9, <3>1
    <3>4. MappedAt[m] = flushes[f].queue
      BY <2>4, <3>2, <3>3
    <3>5. /\ ~IsQueued(m)
          /\ IsLost(m) <=> flushes[f].stage = "threw"
          /\ \A st : InFlush(m, st) <=> flushes[f].stage = st /\ m \in flushes[f].batch
          /\ IsDead(m) <=> flushes[f].stage # "threw" /\ m \in flushes[f].dead
      BY <2>2, <2>9, <3>1 DEF Taken
    <3>6. QED BY <2>3, <3>1, <3>4, <3>5
  <2>10. QED BY <2>6, <2>7, <2>8, <2>9 DEF Mapped, Settled
<1>3. QED BY <1>1, <1>2 DEF MappingSound

\* The same holds of the next state.
LEMMA MappingIsSoundNext == PlacesInv' => MappingSound'
BY MappingIsSound, PTL

\* A message that the step leaves where it is keeps its place in the mapping.
LEMMA StaysPut ==
  ASSUME NEW m \in Ids, BatchesEnd, TypeOK, m \in sent <=> SomePlace(m),
         Mapped(m), Mapped(m)',
         \A q \in Queues : m \in Held(q) => m \in Held(q)',
         \A f \in FlushIds :
           /\ m \in flushes[f].batch => /\ m \in flushes'[f].batch
                                        /\ flushes'[f].stage = flushes[f].stage
                                        /\ flushes'[f].queue = flushes[f].queue
           /\ m \in flushes[f].dead =>
                /\ m \in flushes'[f].dead
                /\ flushes'[f].stage = "threw" <=> flushes[f].stage = "threw"
                /\ flushes'[f].queue = flushes[f].queue,
         m \in acked => m \in acked', m \in dropped => m \in dropped',
         m \notin sent => m \notin sent'
  PROVE  MappedStatus'[m] = MappedStatus[m] /\ MappedAt'[m] = MappedAt[m]
<1>1. CASE m \notin sent
  BY <1>1 DEF Mapped
<1>2. CASE m \in Settled
  BY <1>2 DEF Mapped, Settled
<1>3. ASSUME NEW q \in Queues, m \in Held(q)
      PROVE  MappedStatus'[m] = MappedStatus[m] /\ MappedAt'[m] = MappedAt[m]
  <2>1. m \in Held(q)'
    BY <1>3
  <2>2. QED BY <1>3, <2>1 DEF Mapped
<1>4. ASSUME NEW f \in FlushIds, m \in flushes[f].batch
      PROVE  MappedStatus'[m] = MappedStatus[m] /\ MappedAt'[m] = MappedAt[m]
  <2>1. flushes[f].stage \in {"dispatch", "retry", "threw"}
    BY <1>4 DEF BatchesEnd, TypeOK, Flushes, Stages
  <2>2. m \in Taken(f) /\ m \in Taken(f)'
    BY <1>4 DEF Taken
  <2>3. QED BY <1>4, <2>1, <2>2 DEF Mapped
<1>5. ASSUME NEW f \in FlushIds, m \in flushes[f].dead
      PROVE  MappedStatus'[m] = MappedStatus[m] /\ MappedAt'[m] = MappedAt[m]
  <2>1. m \in Taken(f) /\ m \in Taken(f)'
    BY <1>5 DEF Taken
  <2>2. QED BY <1>5, <2>1 DEF Mapped
<1>6. QED BY <1>1, <1>2, <1>3, <1>4, <1>5 DEF SomePlace, Taken

\* Messages that change from one status to another make an abstract move.
LEMMA MovesAre ==
  ASSUME MappingSound, MappingSound', NEW ms \in SUBSET Ids, NEW from, NEW to, NEW q,
         \A m \in ms : MappedStatus[m] = from,
         \A m \in ms : MappedStatus'[m] = to /\ MappedAt'[m] = q,
         \A m \in Ids \ ms : MappedStatus'[m] = MappedStatus[m] /\ MappedAt'[m] = MappedAt[m]
  PROVE  Delivery!Move(ms, from, to, q)
<1>1. /\ MappedStatus' = [m \in Ids |-> MappedStatus'[m]]
      /\ MappedAt' = [m \in Ids |-> MappedAt'[m]]
  BY DEF MappingSound
<1>2. MappedStatus' = [m \in Ids |-> IF m \in ms THEN to ELSE MappedStatus[m]]
  BY <1>1
<1>3. MappedAt' = [m \in Ids |-> IF m \in ms THEN q ELSE MappedAt[m]]
  BY <1>1
<1>4. QED BY <1>2, <1>3 DEF Delivery!Move

\* A step that moves no message changes nothing a user can see.
LEMMA StuttersAre ==
  ASSUME MappingSound, MappingSound', UNCHANGED failed,
         \A m \in Ids : MappedStatus'[m] = MappedStatus[m] /\ MappedAt'[m] = MappedAt[m]
  PROVE  UNCHANGED Delivery!vars
<1>1. /\ MappedStatus' = [m \in Ids |-> MappedStatus'[m]]
      /\ MappedAt' = [m \in Ids |-> MappedAt'[m]]
      /\ MappedStatus = [m \in Ids |-> MappedStatus[m]]
      /\ MappedAt = [m \in Ids |-> MappedAt[m]]
  BY DEF MappingSound
<1>2. MappedStatus' = MappedStatus
  BY <1>1
<1>3. MappedAt' = MappedAt
  BY <1>1
<1>4. QED BY <1>2, <1>3 DEF Delivery!vars

\* splice(0, batchSize) returns at most batchSize messages.
LEMMA BatchIsBounded ==
  ASSUME NEW q \in Queues, TypeOK
  PROVE  Cardinality(Spliced(q)) <= BatchSize[q]
<1> DEFINE k == Smaller(BatchSize[q], Len(messages[q]))
           t == SubSeq(messages[q], 1, k)
<1>1. messages[q] \in Seq(Ids) /\ BatchSize[q] \in Nat
  BY BrokerAssumption DEF TypeOK
<1>2. k \in Nat /\ k <= Len(messages[q]) /\ k <= BatchSize[q]
  BY <1>1 DEF Smaller
<1>3. Len(t) = k
  BY <1>1, <1>2
<1>4. Spliced(q) = {t[i] : i \in 1..k}
  BY <1>3 DEF Spliced, Elements
<1> HIDE DEF k, t
<1>5. IsFiniteSet(1..k) /\ Cardinality(1..k) = k
  <2>1. 0 \in Int /\ 1 \in Int /\ k \in Int
    BY <1>2
  <2>2. /\ IsFiniteSet(1..k)
        /\ Cardinality(1..k) = IF 1 > k THEN 0 ELSE k - 1 + 1
    BY <2>1, FS_Interval
  <2>3. QED BY <1>2, <2>2
<1>6. IsFiniteSet(Spliced(q)) /\ Cardinality(Spliced(q)) <= Cardinality(1..k)
  <2>1. [i \in 1..k |-> t[i]] \in Surjection(1..k, Spliced(q))
    BY <1>4 DEF Surjection
  <2>2. QED BY <1>5, <2>1, FS_Surjection
<1>7. Cardinality(Spliced(q)) \in Nat
  BY <1>6, FS_CardinalityType
<1>8. QED BY <1>1, <1>2, <1>5, <1>6, <1>7

(* A step of the brokers is a step of QueueDelivery or changes nothing a user
   can see: deliveries to #messages and ends of #flush move no message. *)
LEMMA NextDelivers ==
  ASSUME BudgetInv, [Next]_vars
  PROVE  Delivery!Next \/ UNCHANGED Delivery!vars
<1>0. /\ TypeOK /\ FlushesHaveQueue /\ BatchesEnd
      /\ MappingSound /\ MappingSound' /\ TypeOK'
  <2>1. PlacesInv /\ PlacesInv'
    BY NextPlaces DEF BudgetInv
  <2>2. MappingSound /\ MappingSound'
    BY <2>1, MappingIsSound, MappingIsSoundNext
  <2>3. QED BY <2>1, <2>2 DEF PlacesInv, TypeInv
<1>1. \A m \in Ids : /\ m \in sent <=> SomePlace(m)
                     /\ OnePlace(m) /\ WithinBudget(m) /\ Mapped(m) /\ Mapped(m)'
  BY <1>0 DEF BudgetInv, PlacesInv, MappingSound
<1>2. ASSUME NEW q \in Queues, NEW ms \in SUBSET Ids, ms \cap sent = {}, Send(q, ms)
      PROVE  Delivery!Next
  <2>1. UNCHANGED <<messages, flushes, acked>> /\ sent' = sent \cup ms
    BY <1>2 DEF Send
  <2>2. \A m \in ms : MappedStatus[m] = "unsent"
    BY <1>1, <1>2 DEF Mapped
  <2>3. ASSUME NEW m \in Ids \ ms, \A p \in Queues : m \in delayed[p] => m \in delayed'[p],
               m \in dropped => m \in dropped'
        PROVE  MappedStatus'[m] = MappedStatus[m] /\ MappedAt'[m] = MappedAt[m]
    <3>1. \A p \in Queues : m \in Held(p) => m \in Held(p)'
      BY <2>1, <2>3 DEF Held
    <3>2. QED BY <1>0, <1>1, <2>1, <2>3, <3>1, StaysPut
  <2>4. Delivery!Send(q, ms)
    <3>1. CASE q \in Consumers
      <4>1. /\ dropped' = dropped /\ delayed'[q] = delayed[q] \cup ms
            /\ \A p \in Queues \ {q} : delayed'[p] = delayed[p]
            /\ failed' = [m \in Ids |-> IF m \in ms THEN 0 ELSE failed[m]]
        BY <1>0, <1>2, <3>1 DEF Send, Enqueue, TypeOK
      <4>2. \A m \in Ids \ ms : MappedStatus'[m] = MappedStatus[m] /\ MappedAt'[m] = MappedAt[m]
        BY <2>3, <4>1
      <4>3. \A m \in ms : MappedStatus'[m] = "waiting" /\ MappedAt'[m] = q
        <5>1. \A m \in ms : m \in Held(q)'
          BY <4>1 DEF Held
        <5>2. QED BY <1>1, <5>1 DEF Mapped
      <4>4. Delivery!Move(ms, "unsent", "waiting", q)
        BY <1>0, <2>2, <4>2, <4>3, MovesAre
      <4>5. QED BY <3>1, <4>1, <4>4 DEF Delivery!Send, Delivery!Join
    <3>2. CASE q \notin Consumers
      <4>1. dropped' = dropped \cup ms /\ delayed' = delayed /\ failed' = failed
        BY <1>2, <3>2 DEF Send
      <4>2. \A m \in Ids \ ms : MappedStatus'[m] = MappedStatus[m] /\ MappedAt'[m] = MappedAt[m]
        BY <2>3, <4>1
      <4>3. \A m \in ms : MappedStatus'[m] = "dropped" /\ MappedAt'[m] = NoQueue
        BY <1>1, <4>1 DEF Mapped, Settled
      <4>4. Delivery!Move(ms, "unsent", "dropped", NoQueue)
        BY <1>0, <2>2, <4>2, <4>3, MovesAre
      <4>5. QED BY <3>2, <4>1, <4>4 DEF Delivery!Send, Delivery!Join
    <3>3. QED BY <3>1, <3>2
  <2>5. ms \in SUBSET Delivery!With("unsent")
    BY <2>2 DEF Delivery!With
  <2>6. QED BY <2>4, <2>5 DEF Delivery!Next
<1>3. ASSUME NEW q \in Queues, NEW d \in Ids, Deliver(q, d)
      PROVE  UNCHANGED Delivery!vars
  <2>1. /\ delayed'[q] = delayed[q] \ {d}
        /\ \A p \in Queues \ {q} : delayed'[p] = delayed[p] /\ messages'[p] = messages[p]
        /\ messages'[q] = Append(messages[q], d) /\ messages[q] \in Seq(Ids)
        /\ UNCHANGED <<flushes, acked, dropped, sent, failed>>
    BY <1>0, <1>3 DEF Deliver, TypeOK
  <2>2. Elements(messages'[q]) = Elements(messages[q]) \cup {d}
    BY <2>1, AppendElements
  <2>3. \A p \in Queues : delayed[p] \cup Elements(messages[p])
                             \subseteq delayed'[p] \cup Elements(messages'[p])
    BY <2>1, <2>2
  <2>4. ASSUME NEW m \in Ids
        PROVE  MappedStatus'[m] = MappedStatus[m] /\ MappedAt'[m] = MappedAt[m]
    <3>1. \A p \in Queues : m \in Held(p) => m \in Held(p)'
      BY <2>3 DEF Held, Elements
    <3>2. QED BY <1>0, <1>1, <2>1, <3>1, StaysPut
  <2>5. QED BY <1>0, <2>1, <2>4, StuttersAre
<1>4. ASSUME NEW q \in Queues, NEW f \in FlushIds, StartFlush(q, f)
      PROVE  Delivery!Next
  <2>1. /\ messages'[q] = Remaining(q)
        /\ \A p \in Queues \ {q} : messages'[p] = messages[p]
        /\ UNCHANGED <<delayed, sent, acked, dropped, failed>>
    BY <1>0, <1>4 DEF StartFlush, TypeOK
  <2>2. /\ flushes[f].batch = {} /\ flushes[f].dead = {}
        /\ flushes'[f].batch = Spliced(q) /\ flushes'[f].queue = q
        /\ flushes'[f].stage = "dispatch"
        /\ \A g \in FlushIds \ {f} : flushes'[g] = flushes[g]
    BY <1>0, <1>4 DEF StartFlush, TypeOK, Idle
  <2>3. PICK ms \in SUBSET Ids : ms = Spliced(q)
    BY <1>0, SpliceType DEF TypeOK
  <2>4. Elements(messages[q]) = ms \cup Elements(Remaining(q))
    BY <1>0, <2>3, SpliceElements DEF TypeOK
  <2>5. ASSUME NEW m \in ms
        PROVE  /\ MappedStatus[m] = "waiting" /\ MappedAt[m] = q
               /\ failed[m] <= MaxRetries[q]
               /\ MappedStatus'[m] = "dispatched" /\ MappedAt'[m] = q
    <3>1. m \in Ids /\ m \in Held(q)
      BY <2>4 DEF Held
    <3>2. m \in Taken(f)' /\ m \in flushes'[f].batch
      BY <2>2, <2>3 DEF Taken
    <3>3. failed[m] < MaxRetries[q] + 1 /\ failed[m] \in Nat /\ MaxRetries[q] \in Nat
      BY <1>0, <1>1, <3>1, BrokerAssumption DEF WithinBudget, MaxAttempts, TypeOK
    <3>4. failed[m] <= MaxRetries[q]
      BY <3>3
    <3>5. QED BY <1>1, <2>2, <3>1, <3>2, <3>4 DEF Mapped
  <2>6. ASSUME NEW m \in Ids \ ms
        PROVE  MappedStatus'[m] = MappedStatus[m] /\ MappedAt'[m] = MappedAt[m]
    <3>1. \A p \in Queues : m \in delayed[p] \cup Elements(messages[p]) =>
                              m \in delayed'[p] \cup Elements(messages'[p])
      BY <2>1, <2>4, <2>6
    <3>2. \A p \in Queues : m \in Held(p) => m \in Held(p)'
      BY <3>1 DEF Held, Elements
    <3>3. QED BY <1>0, <1>1, <2>1, <2>2, <3>2, StaysPut
  <2>7. Delivery!Move(ms, "waiting", "dispatched", q)
    BY <1>0, <2>5, <2>6, MovesAre
  <2>8. Cardinality(ms) <= BatchSize[q]
    BY <1>0, <2>3, BatchIsBounded
  <2>9. Delivery!Dispatch(q, ms)
    <3>1. \A m \in ms : MappedAt[m] = q /\ failed[m] <= MaxRetries[q]
      BY <2>5
    <3>2. UNCHANGED failed
      BY <2>1
    <3>3. Delivery!Cardinality(ms) = Cardinality(ms)
      BY DEF Delivery!Cardinality, Cardinality
    <3>4. QED BY <2>7, <2>8, <3>1, <3>2, <3>3 DEF Delivery!Dispatch
  <2>10. ms \in SUBSET Delivery!With("waiting")
    BY <2>5 DEF Delivery!With
  <2>11. QED BY <2>9, <2>10 DEF Delivery!Next
<1>5. ASSUME NEW f \in FlushIds, NEW rs \in SUBSET Ids, Respond(f, rs)
      PROVE  Delivery!Next
  <2>1. PICK q \in Queues : q = flushes[f].queue
    BY <1>0, <1>5 DEF Respond, FlushesHaveQueue
  <2>2. PICK ms \in SUBSET Ids : ms = flushes[f].batch \ rs
    BY <1>0 DEF TypeOK, Flushes
  <2>3. /\ rs \subseteq flushes[f].batch /\ flushes[f].stage = "dispatch"
        /\ flushes'[f].batch = rs /\ flushes'[f].dead = flushes[f].dead
        /\ flushes'[f].stage = "retry" /\ flushes'[f].queue = q
        /\ \A g \in FlushIds \ {f} : flushes'[g] = flushes[g]
    BY <1>0, <1>5, <2>1 DEF Respond, TypeOK, Flushes
  <2>4. acked' = acked \cup ms /\ UNCHANGED <<delayed, messages, sent, dropped, failed>>
    BY <1>5, <2>2 DEF Respond
  <2>5. \A m \in ms \cup rs : MappedStatus[m] = "dispatched" /\ MappedAt[m] = q
    <3>1. \A m \in ms \cup rs : m \in Ids /\ m \in Taken(f) /\ m \in flushes[f].batch
      BY <2>2, <2>3 DEF Taken
    <3>2. QED BY <1>1, <2>1, <2>3, <3>1 DEF Mapped
  <2>6. \A m \in ms : MappedStatus'[m] = "acked" /\ MappedAt'[m] = NoQueue
    BY <1>1, <2>4 DEF Mapped, Settled
  <2>7. \A m \in rs : MappedStatus'[m] = "rejected" /\ MappedAt'[m] = q
    <3>1. \A m \in rs : m \in Taken(f)' /\ m \in flushes'[f].batch
      BY <2>3 DEF Taken
    <3>2. QED BY <1>1, <2>3, <3>1 DEF Mapped
  <2>8. ASSUME NEW m \in Ids, m \notin ms, m \notin rs
        PROVE  MappedStatus'[m] = MappedStatus[m] /\ MappedAt'[m] = MappedAt[m]
    <3>1. \A p \in Queues : m \in Held(p) => m \in Held(p)'
      BY <2>4 DEF Held
    <3>2. m \notin flushes[f].batch
      BY <2>2, <2>8
    <3>3. QED BY <1>0, <1>1, <2>1, <2>3, <2>4, <3>1, <3>2, StaysPut
  <2>9. /\ MappedStatus' = [m \in Ids |-> MappedStatus'[m]]
        /\ MappedAt' = [m \in Ids |-> MappedAt'[m]]
    BY <1>0 DEF MappingSound
  <2>10. MappedStatus' = [m \in Ids |-> IF m \in ms THEN "acked"
                                        ELSE IF m \in rs THEN "rejected"
                                        ELSE MappedStatus[m]]
    BY <2>6, <2>7, <2>8, <2>9
  <2>11. MappedAt' = [m \in Ids |-> IF m \in ms THEN NoQueue ELSE MappedAt[m]]
    BY <2>5, <2>6, <2>7, <2>8, <2>9
  <2>12. Delivery!Answer(q, ms, rs)
    <3>1. UNCHANGED failed
      BY <2>4
    <3>2. QED BY <2>5, <2>10, <2>11, <3>1 DEF Delivery!Answer
  <2>13. /\ ms \in SUBSET Delivery!With("dispatched")
         /\ rs \in SUBSET (Delivery!With("dispatched") \ ms)
    BY <2>2, <2>5 DEF Delivery!With
  <2>14. QED BY <2>12, <2>13 DEF Delivery!Next
<1>6. ASSUME NEW f \in FlushIds, NEW r \in Ids, RetryMessage(f, r)
      PROVE  Delivery!Next
  <2>1. PICK q \in Queues : q = flushes[f].queue
    BY <1>0, <1>6 DEF RetryMessage, FlushesHaveQueue
  <2>2. /\ r \in flushes[f].batch /\ flushes[f].stage = "retry"
        /\ flushes'[f].batch = flushes[f].batch \ {r} /\ flushes'[f].stage = "retry"
        /\ flushes'[f].queue = q
        /\ \A g \in FlushIds \ {f} : flushes'[g] = flushes[g]
        /\ failed' = [failed EXCEPT ![r] = failed[r] + 1]
        /\ UNCHANGED <<messages, sent, acked>>
    BY <1>0, <1>6, <2>1 DEF RetryMessage, TypeOK, Flushes
  <2>3. \/ /\ failed[r] + 1 < MaxAttempts(q)
           /\ delayed' = [delayed EXCEPT ![q] = @ \cup {r}]
           /\ flushes'[f].dead = flushes[f].dead /\ dropped' = dropped
        \/ /\ ~(failed[r] + 1 < MaxAttempts(q)) /\ DeadLetterQueue[q] # NoQueue
           /\ delayed' = delayed
           /\ flushes'[f].dead = flushes[f].dead \cup {r} /\ dropped' = dropped
        \/ /\ ~(failed[r] + 1 < MaxAttempts(q)) /\ DeadLetterQueue[q] = NoQueue
           /\ delayed' = delayed
           /\ flushes'[f].dead = flushes[f].dead /\ dropped' = dropped \cup {r}
    BY <1>0, <1>6, <2>1 DEF RetryMessage, Retryable, TypeOK, Flushes
  <2>4. MappedStatus[r] = "rejected" /\ MappedAt[r] = q
    <3>1. r \in Taken(f)
      BY <2>2 DEF Taken
    <3>2. QED BY <1>1, <2>1, <2>2, <3>1 DEF Mapped
  <2>5. /\ failed[r] \in Nat /\ MaxRetries[q] \in Nat /\ failed[r] < MaxRetries[q] + 1
        /\ MaxAttempts(q) = MaxRetries[q] + 1
    BY <1>0, <1>1, <2>1, <2>2, BrokerAssumption DEF WithinBudget, MaxAttempts, TypeOK
  <2>6. ASSUME NEW m \in Ids \ {r}
        PROVE  MappedStatus'[m] = MappedStatus[m] /\ MappedAt'[m] = MappedAt[m]
    <3>1. \A p \in Queues : m \in delayed[p] => m \in delayed'[p]
      BY <1>0, <2>3 DEF TypeOK
    <3>2. \A p \in Queues : m \in Held(p) => m \in Held(p)'
      BY <2>2, <3>1 DEF Held
    <3>3. /\ m \in flushes[f].dead => m \in flushes'[f].dead
          /\ m \in dropped => m \in dropped'
      BY <2>3
    <3>4. QED BY <1>0, <1>1, <2>1, <2>2, <3>2, <3>3, StaysPut
  <2>7. ASSUME NEW to, NEW p, MappedStatus'[r] = to, MappedAt'[r] = p
        PROVE  Delivery!Move({r}, "rejected", to, p)
    <3>1. /\ {r} \in SUBSET Ids
          /\ \A m \in {r} : MappedStatus[m] = "rejected"
          /\ \A m \in {r} : MappedStatus'[m] = to /\ MappedAt'[m] = p
      BY <2>4, <2>7
    <3>2. QED BY <1>0, <2>6, <3>1, MovesAre
  <2>8. failed' = [failed EXCEPT ![r] = @ + 1]
    BY <2>2
  <2>9. r \in Delivery!With("rejected")
    BY <2>4 DEF Delivery!With
  <2>10. CASE failed[r] + 1 < MaxAttempts(q) /\ delayed' = [delayed EXCEPT ![q] = @ \cup {r}]
    <3>1. r \in delayed'[q]
      BY <1>0, <2>10 DEF TypeOK
    <3>2. r \in Held(q)'
      BY <3>1 DEF Held
    <3>3. MappedStatus'[r] = "waiting" /\ MappedAt'[r] = q
      BY <1>1, <3>2 DEF Mapped
    <3>4. failed[r] < MaxRetries[q]
      BY <2>5, <2>10
    <3>5. Delivery!Retry(r)
      BY <2>4, <2>7, <2>8, <3>3, <3>4 DEF Delivery!Retry
    <3>6. QED BY <2>9, <3>5 DEF Delivery!Next
  <2>11. CASE ~(failed[r] + 1 < MaxAttempts(q))
    <3>1. failed[r] = MaxRetries[q]
      BY <2>5, <2>11
    <3>2. CASE DeadLetterQueue[q] # NoQueue
      <4>1. r \in flushes'[f].dead
        BY <2>3, <2>11, <3>2
      <4>2. r \in Taken(f)'
        BY <4>1 DEF Taken
      <4>3. MappedStatus'[r] = "dead" /\ MappedAt'[r] = q
        BY <1>1, <2>2, <4>1, <4>2 DEF Mapped
      <4>4. Delivery!Move({r}, "rejected", "dead", q)
        BY <2>7, <4>3
      <4>5. Delivery!GiveUp(r)
        BY <2>4, <2>8, <3>1, <3>2, <4>4 DEF Delivery!GiveUp
      <4>6. QED BY <2>9, <4>5 DEF Delivery!Next
    <3>3. CASE DeadLetterQueue[q] = NoQueue
      <4>1. r \in dropped'
        BY <2>3, <2>11, <3>3
      <4>2. MappedStatus'[r] = "dropped" /\ MappedAt'[r] = NoQueue
        BY <1>1, <4>1 DEF Mapped, Settled
      <4>3. Delivery!Move({r}, "rejected", "dropped", NoQueue)
        BY <2>7, <4>2
      <4>4. Delivery!GiveUp(r)
        BY <2>4, <2>8, <3>1, <3>3, <4>3 DEF Delivery!GiveUp
      <4>5. QED BY <2>9, <4>4 DEF Delivery!Next
    <3>4. QED BY <3>2, <3>3
  <2>12. QED BY <2>3, <2>10, <2>11
<1>7. ASSUME NEW f \in FlushIds, EndFlush(f)
      PROVE  UNCHANGED Delivery!vars
  <2>1. /\ flushes[f].batch = {} /\ flushes[f].stage = "retry"
        /\ flushes[f].dead # {} =>
             /\ flushes'[f].dead = flushes[f].dead /\ flushes'[f].queue = flushes[f].queue
             /\ flushes'[f].stage = "deadletter"
        /\ \A g \in FlushIds \ {f} : flushes'[g] = flushes[g]
    BY <1>0, <1>7 DEF EndFlush, TypeOK, Flushes
  <2>2. UNCHANGED <<delayed, messages, sent, acked, dropped, failed>>
    BY <1>7 DEF EndFlush
  <2>3. ASSUME NEW m \in Ids
        PROVE  MappedStatus'[m] = MappedStatus[m] /\ MappedAt'[m] = MappedAt[m]
    <3>1. \A p \in Queues : m \in Held(p) => m \in Held(p)'
      BY <2>2 DEF Held
    <3>2. QED BY <1>0, <1>1, <2>1, <2>2, <3>1, StaysPut
  <2>4. QED BY <1>0, <2>2, <2>3, StuttersAre
<1>8. ASSUME NEW f \in FlushIds, MoveToDeadLetterQueue(f)
      PROVE  Delivery!Next
  <2>1. PICK q \in Queues : q = flushes[f].queue
    BY <1>0, <1>8 DEF MoveToDeadLetterQueue, FlushesHaveQueue
  <2>2. PICK ms \in SUBSET Ids : ms = flushes[f].dead
    BY <1>0 DEF TypeOK, Flushes
  <2>3. /\ flushes[f].batch = {} /\ flushes[f].stage = "deadletter"
        /\ \A g \in FlushIds \ {f} : flushes'[g] = flushes[g]
        /\ UNCHANGED <<messages, sent, acked>>
    BY <1>0, <1>8 DEF MoveToDeadLetterQueue, TypeOK, BatchesEnd
  <2>4. \A m \in ms : MappedStatus[m] = "dead" /\ MappedAt[m] = q
    <3>1. \A m \in ms : m \in Taken(f)
      BY <2>2 DEF Taken
    <3>2. QED BY <1>1, <2>1, <2>2, <2>3, <3>1 DEF Mapped
  <2>5. ASSUME NEW m \in Ids \ ms, \A p \in Queues : m \in delayed[p] => m \in delayed'[p],
               m \in dropped => m \in dropped'
        PROVE  MappedStatus'[m] = MappedStatus[m] /\ MappedAt'[m] = MappedAt[m]
    <3>1. \A p \in Queues : m \in Held(p) => m \in Held(p)'
      BY <2>3, <2>5 DEF Held
    <3>2. QED BY <1>0, <1>1, <2>2, <2>3, <2>5, <3>1, StaysPut
  <2>6. Delivery!Join(ms, "dead", DeadLetterQueue[q])
    <3>1. CASE DeadLetterQueue[q] \in Consumers
      <4>1. PICK d \in Queues : d = DeadLetterQueue[q]
        BY <3>1, BrokerAssumption
      <4>2. /\ dropped' = dropped /\ delayed'[d] = delayed[d] \cup ms
            /\ \A p \in Queues \ {d} : delayed'[p] = delayed[p]
            /\ failed' = [m \in Ids |-> IF m \in ms THEN 0 ELSE failed[m]]
        BY <1>0, <1>8, <2>1, <2>2, <3>1, <4>1 DEF MoveToDeadLetterQueue, Enqueue, TypeOK
      <4>3. \A m \in Ids \ ms : MappedStatus'[m] = MappedStatus[m] /\ MappedAt'[m] = MappedAt[m]
        BY <2>5, <4>2
      <4>4. \A m \in ms : MappedStatus'[m] = "waiting" /\ MappedAt'[m] = d
        <5>1. \A m \in ms : m \in Held(d)'
          BY <4>2 DEF Held
        <5>2. QED BY <1>1, <5>1 DEF Mapped
      <4>5. Delivery!Move(ms, "dead", "waiting", d)
        BY <1>0, <2>4, <4>3, <4>4, MovesAre
      <4>6. QED BY <3>1, <4>1, <4>2, <4>5 DEF Delivery!Join
    <3>2. CASE DeadLetterQueue[q] \notin Consumers
      <4>1. dropped' = dropped \cup ms /\ delayed' = delayed /\ failed' = failed
        BY <1>8, <2>1, <2>2, <3>2 DEF MoveToDeadLetterQueue
      <4>2. \A m \in Ids \ ms : MappedStatus'[m] = MappedStatus[m] /\ MappedAt'[m] = MappedAt[m]
        BY <2>5, <4>1
      <4>3. \A m \in ms : MappedStatus'[m] = "dropped" /\ MappedAt'[m] = NoQueue
        BY <1>1, <4>1 DEF Mapped, Settled
      <4>4. Delivery!Move(ms, "dead", "dropped", NoQueue)
        BY <1>0, <2>4, <4>2, <4>3, MovesAre
      <4>5. QED BY <3>2, <4>1, <4>4 DEF Delivery!Join
    <3>3. QED BY <3>1, <3>2
  <2>7. Delivery!DeadLetter(q, ms)
    BY <2>4, <2>6 DEF Delivery!DeadLetter
  <2>8. ms \in SUBSET Delivery!With("dead")
    BY <2>4 DEF Delivery!With
  <2>9. QED BY <2>7, <2>8 DEF Delivery!Next
<1>9. ASSUME NEW f \in FlushIds, FlushThrows(f)
      PROVE  Delivery!Next
  <2>1. PICK ms \in SUBSET Ids : ms = Taken(f)
    BY <1>0 DEF TypeOK, Flushes, Taken
  <2>2. /\ flushes'[f].batch = flushes[f].batch /\ flushes'[f].dead = flushes[f].dead
        /\ flushes'[f].queue = flushes[f].queue
        /\ flushes[f].stage \in {"dispatch", "retry", "deadletter"}
        /\ flushes'[f].stage = "threw"
        /\ flushes[f].stage = "deadletter" => flushes[f].batch = {}
        /\ \A g \in FlushIds \ {f} : flushes'[g] = flushes[g]
    BY <1>0, <1>9 DEF FlushThrows, TypeOK, Flushes, BatchesEnd
  <2>3. FlushCanThrow /\ UNCHANGED <<delayed, messages, sent, acked, dropped, failed>>
    BY <1>9 DEF FlushThrows
  <2>4. ASSUME NEW m \in ms
        PROVE  /\ MappedStatus[m] \in {"dispatched", "rejected", "dead"}
               /\ MappedStatus'[m] = "lost" /\ MappedAt'[m] = MappedAt[m]
    <3>1. m \in Taken(f) /\ m \in Taken(f)' /\ (m \in flushes[f].batch \/ m \in flushes[f].dead)
      BY <2>1, <2>2 DEF Taken
    <3>2. QED BY <1>1, <2>2, <3>1 DEF Mapped
  <2>5. ASSUME NEW m \in Ids \ ms
        PROVE  MappedStatus'[m] = MappedStatus[m] /\ MappedAt'[m] = MappedAt[m]
    <3>1. \A p \in Queues : m \in Held(p) => m \in Held(p)'
      BY <2>3 DEF Held
    <3>2. m \notin flushes[f].batch /\ m \notin flushes[f].dead
      BY <2>1, <2>5 DEF Taken
    <3>3. QED BY <1>0, <1>1, <2>2, <2>3, <3>1, <3>2, StaysPut
  <2>6. /\ MappedStatus' = [m \in Ids |-> MappedStatus'[m]]
        /\ MappedAt' = [m \in Ids |-> MappedAt'[m]] /\ MappedAt = [m \in Ids |-> MappedAt[m]]
    BY <1>0 DEF MappingSound
  <2>7. MappedStatus' = [m \in Ids |-> IF m \in ms THEN "lost" ELSE MappedStatus[m]]
    BY <2>4, <2>5, <2>6
  <2>8. MappedAt' = MappedAt
    BY <2>4, <2>5, <2>6
  <2>9. Delivery!Lose(ms)
    BY <2>3, <2>4, <2>7, <2>8 DEF Delivery!Lose
  <2>10. ms \in SUBSET (UNION {Delivery!With(s) : s \in {"dispatched", "rejected", "dead"}})
    BY <2>4 DEF Delivery!With
  <2>11. QED BY <2>9, <2>10 DEF Delivery!Next
<1>10. CASE UNCHANGED vars
  <2>1. UNCHANGED <<delayed, messages, flushes, sent, acked, dropped, failed>>
    BY <1>10 DEF vars
  <2>2. ASSUME NEW m \in Ids
        PROVE  MappedStatus'[m] = MappedStatus[m] /\ MappedAt'[m] = MappedAt[m]
    <3>1. \A p \in Queues : m \in Held(p) => m \in Held(p)'
      BY <2>1 DEF Held
    <3>2. QED BY <1>0, <1>1, <2>1, <3>1, StaysPut
  <2>3. QED BY <1>0, <2>1, <2>2, StuttersAre
<1>11. CASE Produce
  <2>1. \A m \in Ids : m \notin sent => {m} \in SUBSET Ids /\ {m} \cap sent = {}
    OBVIOUS
  <2>2. QED BY <1>2, <1>11, <2>1 DEF Produce, SendMessage, SendBatch
<1>12. ASSUME NEW q \in Queues, Timer(q) PROVE Delivery!Next \/ UNCHANGED Delivery!vars
  BY <1>3, <1>4, <1>12 DEF Timer, FirePending, FireStray
<1>13. ASSUME NEW f \in FlushIds, Continue(f) PROVE Delivery!Next \/ UNCHANGED Delivery!vars
  BY <1>5, <1>6, <1>7, <1>8, <1>13 DEF Continue
<1>14. QED BY <1>9, <1>10, <1>11, <1>12, <1>13 DEF Next

\* Nothing has been sent at first, in either specification.
LEMMA InitDelivers == Init => Delivery!Init
<1> SUFFICES ASSUME Init PROVE Delivery!Init
  OBVIOUS
<1>1. MappingSound
  BY InitPlaces, MappingIsSound
<1>2. \A m \in Ids : MappedStatus[m] = "unsent" /\ MappedAt[m] = NoQueue
  BY <1>1 DEF MappingSound, Mapped, Init
<1>3. MappedStatus = [m \in Ids |-> "unsent"]
  BY <1>1, <1>2 DEF MappingSound
<1>4. MappedAt = [m \in Ids |-> NoQueue]
  BY <1>1, <1>2 DEF MappingSound
<1>5. QED BY <1>3, <1>4 DEF Delivery!Init, Init

(* The brokers implement QueueDelivery, whatever the timers, the overlapping
   flushes and the consumers do: a message is handed out in batches within the
   limit, fails at most maxRetries + 1 times at each queue, and never comes back
   once it is settled. *)
THEOREM DeliveryIsImplemented == Spec => ImplementsDelivery
<1>1. BudgetInv /\ [Next]_vars => BudgetInv'
  BY NextBudget
<1>2. BudgetInv /\ [Next]_vars => [Delivery!Next]_(Delivery!vars)
  BY NextDelivers
<1>3. QED
  BY <1>1, <1>2, InitBudget, InitDelivers, PTL DEF Spec, ImplementsDelivery, Delivery!Spec

=============================================================================
