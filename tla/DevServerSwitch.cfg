SPECIFICATION Spec
CONSTANTS
  Requests = {r1}
  GetOrHead = {r1}
  RootRequests = {}
  ProxyData <- MCProxyData
  UserWorkerUrl <- MCUrls
  Undefined = Undefined
  MaxBundles = 2
  MaxStarts = 1
  Retries = 1
  RemoteModes = {TRUE, FALSE}
  HasEntrypoints = FALSE
  MessagesCanFail = FALSE
CHECK_DEADLOCK FALSE
INVARIANT RestsOnLatest
