\* A second process of a root run that the first has published.
SPECIFICATION UploadFairSpec
CONSTANTS
  Absent = Absent
  NoManifest = NoManifest
  Procs = {1, 2}
  UpTiles = 2
  Data = {d1, d2}
  Seconds = {s1, s2}
  Tries = 2
  UpSample = 1
  UpLossy = FALSE
  Mortal = FALSE
CONSTRAINT FirstOfEach
PROPERTY ForceRepublishes
CHECK_DEADLOCK FALSE
