SPECIFICATION SamplingFairSpec
CONSTANTS
  MaxKeys = 4
  MaxVersion = 3
  Empty = {2}
  Live = TRUE
  MaxRounds = 3
INVARIANTS
  RoundsDrawnFromHeld
  NoStall
  NoExtraChains
PROPERTIES
  CompletesOnScreen
\* the user may stop, and then nothing is left in flight
CHECK_DEADLOCK FALSE
