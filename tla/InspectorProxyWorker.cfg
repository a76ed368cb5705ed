SPECIFICATION FairSpec
CONSTANTS
  Clients = {d1, d2}
  Hosted = {d2}
  None = none
  MaxReloads = 3
  MaxMessages = 3
  MaxCommands = 1
CHECK_DEADLOCK FALSE
INVARIANTS
  OneDevTools
  RuntimeIsNewest
  MessagesReachDevTools
PROPERTIES
  WaitersAreAnswered
