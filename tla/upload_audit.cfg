\* Two processes of one run, root or regional: two versions of its data, lost answers, deaths;
\* and regional publishers, killed anywhere, with audits that delete what they abandon.
SPECIFICATION BothFairSpec
CONSTANTS
  Absent = Absent
  NoManifest = NoManifest
  Procs = {1, 2}
  UpTiles = 2
  Data = {d1, d2}
  Seconds = {s1, s2}
  Tries = 2
  UpSample = 1
  UpLossy = TRUE
  Mortal = TRUE
  Layers = {la}
  Pubs = {1, 2, 3}
  MaxCycle = 3
  Stamps = {s1}
  NoStamp = NoStamp
  Attempts = 1
  Lossy = TRUE
  NTiles = 1
  Sample = 1
  Interrupted = FALSE
  Regional = TRUE
CONSTRAINTS FewFaults FirstOfEach InOrder
INVARIANTS ManifestMatches VerifiedIsStored OneVersion RegionalOnce
PROPERTIES Resumable NamedRunsStay AbandonedGo
CHECK_DEADLOCK FALSE
