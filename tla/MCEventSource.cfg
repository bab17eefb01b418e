SPECIFICATION FairSpec
CONSTANTS
  Sub = {1, 2}
  Capacity = 1
  PendingLimit = 2
  MaxEvents = 3
INVARIANTS
  Backpressure
  PanicOnlyInRace
PROPERTIES
  StreamsKept
  CancelEnds
\* everything offered has been read, or a panic
CHECK_DEADLOCK FALSE
