SPECIFICATION Spec
CONSTANTS
  Length = {0, 1, 3, 4, 5, 9}
  MaxSections = 4
INVARIANTS
  VerdictHolds
CHECK_DEADLOCK FALSE
