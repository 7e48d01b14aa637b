\* The buffer is cut at the edge of a tile.
SPECIFICATION RasterSpec
CONSTANTS
  Side = 3
  Unit = 4
  SourcePer = 2
  LonBuffer = 1
  LatBuffer = 1
  ByteBits = 2
  TilesOf <- TheTiles
  Soundings <- TheSoundings
  Coasts <- TheCoasts
CONSTRAINT RasterBound
INVARIANT BufferedEverywhere
CHECK_DEADLOCK FALSE
