SPECIFICATION Spec
CONSTANTS
  Requests = {r1, r2}
  GetOrHead = {r1}
  RootRequests = {r1}
  ProxyData <- MCProxyData
  UserWorkerUrl <- MCUrls
  Undefined = Undefined
  MaxBundles = 2
  MaxStarts = 1
  Retries = 1
  RemoteModes = {TRUE, FALSE}
  HasEntrypoints = TRUE
  MessagesCanFail = TRUE
CHECK_DEADLOCK FALSE
INVARIANTS NeverPlaysFailed OnePlace NothingHeldWhilePlaying OnlyReadsAreResent
PROPERTY UpdatesInOrder
