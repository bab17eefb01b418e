SPECIFICATION LogFairSpec
CONSTANTS
  MaxKeys = 3
  Sources = {"nats"}
  MaxEvents = 2
INVARIANT ShownOnce
CHECK_DEADLOCK FALSE
