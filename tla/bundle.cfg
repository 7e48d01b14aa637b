\* The ledger of bytes, the land index, its rasters, the byte guards, the dispatcher, an
\* ingest job, the operator's reports, the rolling stores, the tiles and the local store.
SPECIFICATION BundleSpec
CONSTANTS
  root = root
  land_ = land_
  shared = shared
  w1 = w1
  w2 = w2
  Jobs = {1, 2, 3}
  Managed = {root, land_}
  Shared = shared
  Owner <- TheOwner
  Works = {w1, w2}
  Work <- TheWork
  Size <- TheSize
  Plan <- ThePlan
  Ceiling <- TheCeiling
  Initial <- TheInitial
  Limit = 9
  Headroom = 2
  Control = 0
  Attempts = 2
  MaxEpoch = 1
  Lossy = TRUE
  home = home
  other = other
  Domains = {home, other}
  Builders = {1, 2, 3}
  LastHour = 3
  LandTiles = 2
  LandSample = 1
  LandAttempts = 2
  LandLossy = TRUE
  Side = 3
  Unit = 4
  SourcePer = 2
  LonBuffer = 1
  LatBuffer = 1
  ByteBits = 2
  TilesOf <- TheTiles
  Soundings <- TheSoundings
  Coasts <- TheCoasts
  RootLayers = {"gfs"}
  AllocatedLayers = {"ukv", "arome"}
  Measured <- TheMeasured
  RunCap <- TheRunCap
  Elsewhere = 1
  HeadroomBytes = 3
  BucketLimit = 70
  PeakUnit = 1
  LastRun = 4
  Deaths = 1
  Days = 1
  Delays = {0, 4, 5, 10}
  RegionalModels = {"arome", "icon-eu", "ukv"}
  FileCount = 2
  FileVersions = 2
  PollEvery = 2
  WaitFor = 3
  MissingGrace = 1
  MissingRetry = 1
  HttpTries = 2
  SlowStep = 1
  IngHorizon = 6
  DayLength = 2
  CycleHours = {0, 1}
  CanarySet = {0}
  SourceLag = 1
  LagOf = 1
  WaitOf = 1
  Allowance = 1
  WatchStart = 1
  WatchLength = 4
  WatchHorizon = 6
  Reports = 4
  Instants = {1, 2}
  BulletinDay = 2
  LastBulletin = 2
  AuthTries = 2
  StoreHorizon = 5
  Pole = 3
  DateLine = 6
  LeadSteps <- TheLeads
  Weathers <- TheWeathers
  Scale = 4
  VarSpecs <- TheVarSpecs
  VarSpec <- TheVarSpec
  MaxMissing = 40
  MissingSteps <- TheMissingSteps
  Clients = {1, 2}
  Swapped = {"latest.json"}
  Statuses = {"status"}
  Objects = {"tile"}
  Contents = {"one", "two"}
  MaxInode = 2
CONSTRAINTS FewFaults TwoOfThree LandBound IngBound WatchBound RasterBound DirBound
INVARIANTS
  BytesHold WorkOnce StopsAfterPause
  LandIntegrity  CapacityHolds
  StartsItsSlot
  OneSnapshot ReportTruth WaitsItsTime VerdictsTrue
  OneBulletin ReadBack PointersAreSwapped
PROPERTIES NoCredit LandImplementsRegister
CHECK_DEADLOCK FALSE
