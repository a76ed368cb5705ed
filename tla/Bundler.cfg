SPECIFICATION Spec
CONSTANTS
  MaxInputs = 3
  MaxChanges = 1
CHECK_DEADLOCK FALSE
INVARIANTS
  OnlyUnstoppableBuildsLeak
  RestsOnLatestConfig
PROPERTIES
  OnlyNewestCustomBuildCompletes
