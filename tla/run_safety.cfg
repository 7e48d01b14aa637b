\* Three publishers of one layer over three cycles, one killed or cut off at any step.
SPECIFICATION RunSpec
CONSTANTS
  Layers = {la}
  Pubs = {p1, p2, p3}
  MaxCycle = 3
  Stamps = {s1, s2}
  NoStamp = NoStamp
  Attempts = 2
  Lossy = TRUE
  NTiles = 2
  Sample = 1
  Regional = FALSE
SYMMETRY Symmetry
INVARIANTS RefIntegrity CompleteIsWhole StatusBehind
PROPERTY OnlySupersededDeleted
CHECK_DEADLOCK FALSE
