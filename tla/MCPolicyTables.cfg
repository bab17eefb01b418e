SPECIFICATION TablesFairSpec
CONSTANTS
  MaxKeys = 4
  MaxVersion = 3
  Empty = {2}
  Live = TRUE
  Content <- MCContent
INVARIANTS
  OnScreenLoads
  Refreshed
  BridgeHonest
PROPERTIES
  TableFills
\* the user may stop, and then nothing is left in flight
CHECK_DEADLOCK FALSE
