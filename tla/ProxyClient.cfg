SPECIFICATION Spec
CONSTANTS
  Calls = {c1, c2}
  MaxOptions = 2
  UpdatesCanFail = TRUE
  ReusesPort = TRUE
  MaxAddress = 2
  Overlapping = FALSE
SYMMETRY Symmetry
CHECK_DEADLOCK FALSE
INVARIANTS
  RestsOnLatestOptions
  RequestsSeeTheirOptions
  NothingLeftAfterDispose
  DrainIsSignalled
  StubsNameTheirObjects
