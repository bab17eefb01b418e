SPECIFICATION LogFairSpec
CONSTANTS
  MaxKeys = 3
  Sources = {"nats"}
  MaxEvents = 2
PROPERTY Reconnects
CHECK_DEADLOCK FALSE
