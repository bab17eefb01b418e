SPECIFICATION LogFairSpec
CONSTANTS
  MaxKeys = 3
  Sources = {"nats", "simulator", "none"}
  MaxEvents = 2
INVARIANTS
  Listening
  OncePerSubscription
  InOrderOnce
  StatusHonest
PROPERTIES
  EventShown
\* the user may stop, and then nothing is left in flight
CHECK_DEADLOCK FALSE
