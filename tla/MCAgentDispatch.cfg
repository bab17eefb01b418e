SPECIFICATION AgentsFairSpec
CONSTANTS
  MaxKeys = 5
  FleetSize = 6
INVARIANTS
  AnimationGoesOn
  CompletionHonest
  OnTime
PROPERTIES
  StagesInOrder
  FinishesOnScreen
\* the user may stop, and then nothing is left in flight
CHECK_DEADLOCK FALSE
