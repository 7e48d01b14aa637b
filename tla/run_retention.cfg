\* Three publishers of one layer, none killed and no answer lost: retention and termination.
SPECIFICATION RunFairSpec
CONSTANTS
  Layers = {la}
  Pubs = {p1, p2, p3}
  MaxCycle = 3
  Stamps = {s1, s2}
  NoStamp = NoStamp
  Attempts = 3
  Lossy = FALSE
  NTiles = 1
  Sample = 1
  Regional = FALSE
INVARIANT NoLeak
PROPERTY EveryRunEnds
CHECK_DEADLOCK FALSE
