\* The seven root layers publish once each with the code's six attempts.
SPECIFICATION Spec
CONSTANTS
  Layers = {1, 2, 3, 4, 5, 6, 7}
  Pubs = {1, 2, 3, 4, 5, 6, 7}
  MaxCycle = 1
  Stamps = {s1}
  NoStamp = NoStamp
  Attempts = 6
  Lossy = FALSE
  Burst = TRUE
CONSTRAINT BurstBound
INVARIANT NoConflict
CHECK_DEADLOCK FALSE
