\* A rollback while publishers may be anywhere, or a disable with them stopped, on a
\* catalogue of two layers.
SPECIFICATION CtlSpec
CONSTANTS
  Layers = {la, lb}
  Home = la
  Pubs = {p1, p2, p3}
  MaxCycle = 3
  Stamps = {s1, o1}
  NoStamp = NoStamp
  Attempts = 2
  Lossy = TRUE
  NTiles = 1
  Sample = 1
  Regional = TRUE
  Ops = {c1}
  OpStamps = {o1}
  Restores = {TRUE, FALSE}
  Quiesced = {FALSE}
CONSTRAINTS DistinctRuns OneElsewhere FewFaults
SYMMETRY Symmetry
INVARIANT RestoredRunStays
PROPERTY UndoesOnlyExpected
CHECK_DEADLOCK FALSE
