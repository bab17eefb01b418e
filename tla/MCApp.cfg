SPECIFICATION Spec
CONSTANTS
  MaxKeys = 2
  MaxVersion = 2
  Empty = {}
  Live = TRUE
  LastPhase = 1
  MaxRounds = 1
  FleetSize = 1
  Sources = {"nats"}
  MaxEvents = 1
INVARIANTS
  TypeOK
PROPERTIES
  LoadingViewsSpec
  AgentsSpec
  LogSpec
\* the program ends
CHECK_DEADLOCK FALSE
