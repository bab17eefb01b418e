SPECIFICATION Spec
CONSTANTS
  MaxSaves = 3
INVARIANT ExistsMeansAll
