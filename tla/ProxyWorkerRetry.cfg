SPECIFICATION ProxySpec
CONSTANTS
  r1 = r1
  r2 = r2
  r3 = r3
  r4 = r4
  Requests = {r1, r2, r3, r4}
  GetOrHead = {r1, r2}
  RootRequests = {r1, r3}
  d1 = d1
  d2 = d2
  d3 = d3
  ProxyData = {d1, d2, d3}
  UserWorkerUrl <- MCUrls
  Undefined = Undefined
INVARIANT RetriesAwaitPlay
