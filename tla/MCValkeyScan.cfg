SPECIFICATION Spec
CONSTANTS
  Key = {k1, k2}
  MaxWrites = 3
  Garbage = {2}
  MaxPages = 3
SYMMETRY KeySymmetry
INVARIANTS
  FreshPolicies
  NothingSkipped
