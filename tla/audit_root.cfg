\* The same for a root layer, whose jobs resume what another one stored.
SPECIFICATION AuditFairSpec
CONSTANTS
  Layers = {la}
  Pubs = {1, 2, 3}
  MaxCycle = 2
  Stamps = {s1}
  NoStamp = NoStamp
  Attempts = 1
  Lossy = TRUE
  NTiles = 2
  Sample = 1
  Interrupted = FALSE
  Regional = FALSE
CONSTRAINT InOrder
PROPERTY NamedRunsStay
CHECK_DEADLOCK FALSE
