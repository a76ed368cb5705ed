SPECIFICATION FairSpec
CONSTANTS
  Requests = {r1}
  GetOrHead = {r1}
  RootRequests = {}
  ProxyData <- MCProxyData
  UserWorkerUrl <- MCUrls
  Undefined = Undefined
  MaxBundles = 3
  MaxStarts = 2
  Retries = 1
  RemoteModes = {FALSE}
  HasEntrypoints = FALSE
  MessagesCanFail = FALSE
CHECK_DEADLOCK FALSE
INVARIANTS NeverPlaysSuperseded RestsOnLatest FollowsController OnePlace
PROPERTIES EventuallyPlaysLatest HeldRequestsAreSent
