\* Three publishers on two layers, three cycles, answers lost and publishers killed.
SPECIFICATION Spec
CONSTANTS
  Layers = {la, lb}
  Pubs = {p1, p2, p3}
  MaxCycle = 3
  Stamps = {s1, s2}
  NoStamp = NoStamp
  Attempts = 2
  Lossy = TRUE
  Burst = FALSE
CONSTRAINT NoGaps
SYMMETRY Symmetry
INVARIANTS NoLostCommit FloorBehind
PROPERTY ImplementsRegister
CHECK_DEADLOCK FALSE
