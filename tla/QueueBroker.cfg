SPECIFICATION FairSpec
CONSTANTS
  Main = main
  Dlq = dlq
  Last = last
  NoQueue = noQueue
  Queues <- MCQueues
  Consumers <- MCConsumers
  BatchSize <- MCBatchSize
  BatchTimeout <- MCBatchTimeout
  MaxRetries <- MCMaxRetries
  DeadLetterQueue <- MCDeadLetterQueue
  FlushCanThrow = TRUE
  Ids = {m1, m2, m3}
  FlushIds = {f1, f2}
CHECK_DEADLOCK FALSE
INVARIANTS
  TypeOK
  FlushesAreScheduled
  Conservation
  AttemptsBounded
PROPERTIES
  ImplementsDelivery
  EverySentSettles
  EventuallyAtRest
