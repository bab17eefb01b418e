SPECIFICATION MissionSpec
CONSTANTS
  MaxKeys = 0
  MaxVersion = 3
  Empty = {2}
  Live = TRUE
  LastPhase = 9
  Ship <- MCShip
INVARIANT NominalMeansOK
CHECK_DEADLOCK FALSE
