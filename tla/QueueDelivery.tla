--------------------------- MODULE QueueDelivery ---------------------------
(***************************************************************************)
(* What the queue brokers promise their users, without timers, batches in  *)
(* memory or flushes: the life of each message.  A message is handed to a  *)
(* consumer a bounded number of times per queue, in batches of at most     *)
(* BatchSize; it is then accepted, moved to the dead letter queue or given *)
(* up, and a settled message never comes back.                             *)
(***************************************************************************)
EXTENDS Naturals, FiniteSets

CONSTANTS Queues, Ids, NoQueue, Consumers, BatchSize, MaxRetries,
          DeadLetterQueue, FlushCanThrow

VARIABLES
  status,   \* status[m]: where message m is in its life
  at,       \* at[m]: the queue responsible for m, while there is one
  attempts  \* attempts[m]: failed attempts to deliver m at that queue

vars == <<status, at, attempts>>

Statuses == {"unsent", "waiting", "dispatched", "rejected", "dead", "acked",
             "dropped", "lost"}

Init ==
  /\ status = [m \in Ids |-> "unsent"]
  /\ at = [m \in Ids |-> NoQueue]
  /\ attempts = [m \in Ids |-> 0]

\* Messages of ms, all with status from, get status to at queue q.
Move(ms, from, to, q) ==
  /\ \A m \in ms : status[m] = from
  /\ status' = [m \in Ids |-> IF m \in ms THEN to ELSE status[m]]
  /\ at' = [m \in Ids |-> IF m \in ms THEN q ELSE at[m]]

\* Messages join queue q with a fresh retry budget, or vanish in a queue that
\* nobody consumes.
Join(ms, from, q) ==
  IF q \in Consumers
  THEN /\ Move(ms, from, "waiting", q)
       /\ attempts' = [m \in Ids |-> IF m \in ms THEN 0 ELSE attempts[m]]
  ELSE Move(ms, from, "dropped", NoQueue) /\ UNCHANGED attempts

Send(q, ms) == Join(ms, "unsent", q)

Dispatch(q, ms) ==
  /\ Cardinality(ms) <= BatchSize[q]
  /\ \A m \in ms : at[m] = q /\ attempts[m] <= MaxRetries[q]
  /\ Move(ms, "waiting", "dispatched", q)
  /\ UNCHANGED attempts

\* The consumer of q accepts the messages ms of a batch and rejects rs.
Answer(q, ms, rs) ==
  /\ \A m \in ms \cup rs : status[m] = "dispatched" /\ at[m] = q
  /\ status' = [m \in Ids |-> IF m \in ms THEN "acked"
                              ELSE IF m \in rs THEN "rejected" ELSE status[m]]
  /\ at' = [m \in Ids |-> IF m \in ms THEN NoQueue ELSE at[m]]
  /\ UNCHANGED attempts

Retry(m) ==
  /\ attempts[m] < MaxRetries[at[m]]
  /\ Move({m}, "rejected", "waiting", at[m])
  /\ attempts' = [attempts EXCEPT ![m] = @ + 1]

GiveUp(m) ==
  /\ attempts[m] = MaxRetries[at[m]]
  /\ IF DeadLetterQueue[at[m]] = NoQueue
     THEN Move({m}, "rejected", "dropped", NoQueue)
     ELSE Move({m}, "rejected", "dead", at[m])
  /\ attempts' = [attempts EXCEPT ![m] = @ + 1]

DeadLetter(q, ms) ==
  /\ \A m \in ms : at[m] = q
  /\ Join(ms, "dead", DeadLetterQueue[q])

\* The broker forgets messages when it cannot log what became of them, or
\* cannot reach the dead letter queue.
Lose(ms) ==
  /\ FlushCanThrow
  /\ \A m \in ms : status[m] \in {"dispatched", "rejected", "dead"}
  /\ status' = [m \in Ids |-> IF m \in ms THEN "lost" ELSE status[m]]
  /\ UNCHANGED <<at, attempts>>

\* The messages with status s, of which a step moves some.
With(s) == {m \in Ids : status[m] = s}

Next ==
  \/ \E m \in With("rejected") : Retry(m) \/ GiveUp(m)
  \/ \E ms \in SUBSET UNION {With(s) : s \in {"dispatched", "rejected", "dead"}} :
       Lose(ms)
  \/ \E q \in Queues : \/ \E ms \in SUBSET With("unsent") : Send(q, ms)
                       \/ \E ms \in SUBSET With("waiting") : Dispatch(q, ms)
                       \/ \E ms \in SUBSET With("dead") : DeadLetter(q, ms)
  \/ \E q \in Queues, ms \in SUBSET With("dispatched") :
       \E rs \in SUBSET (With("dispatched") \ ms) : Answer(q, ms, rs)

Spec == Init /\ [][Next]_vars

=============================================================================
