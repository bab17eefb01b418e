SPECIFICATION Spec
CONSTANTS
  MaxSaves = 3
INVARIANTS
  SavedIsLoaded
  NeverRollsBack
  FirstSaveWhole
  ExistsReliable
