--------------------------- MODULE MCQueueBroker ---------------------------
(***************************************************************************)
(* QueueBroker for TLC: a queue with batches of two and one retry, whose   *)
(* dead letter queue takes one message at a time and retries none.  That   *)
(* one's dead letter queue, Last, has no consumer; Last may be NoQueue.    *)
(***************************************************************************)
EXTENDS QueueBroker

CONSTANTS Main, Dlq, Last

MCConsumers == {Main, Dlq}
MCQueues == MCConsumers \cup ({Last} \ {NoQueue})
MCBatchSize == [q \in MCQueues |-> IF q = Main THEN 2 ELSE 1]
MCBatchTimeout == [q \in MCQueues |-> IF q = Main THEN 1 ELSE 0]
MCMaxRetries == [q \in MCQueues |-> IF q = Main THEN 1 ELSE 0]
MCDeadLetterQueue == [q \in MCQueues |-> CASE q = Main -> Dlq
                                           [] q = Dlq -> Last
                                           [] OTHER -> NoQueue]

=============================================================================
