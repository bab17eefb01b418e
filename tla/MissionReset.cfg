SPECIFICATION MissionFairSpec
CONSTANTS
  MaxKeys = 2
  MaxVersion = 1
  Empty = {}
  Live = FALSE
  LastPhase = 3
  Ship <- MCEmbedded
PROPERTY PhaseKept
CHECK_DEADLOCK FALSE
