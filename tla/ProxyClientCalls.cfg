SPECIFICATION Spec
CONSTANTS
  Calls = {c1, c2}
  MaxOptions = 1
  UpdatesCanFail = FALSE
  ReusesPort = TRUE
  MaxAddress = 2
  Overlapping = TRUE
CHECK_DEADLOCK FALSE
INVARIANTS
  CallsReachTheirObjects
