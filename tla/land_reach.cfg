\* A polygon that crosses a tile without a point in it is not drawn there.
SPECIFICATION RasterSpec
CONSTANTS
  Side = 3
  Unit = 4
  SourcePer = 2
  LonBuffer = 1
  LatBuffer = 1
  ByteBits = 2
  TilesOf <- TheTiles
  Soundings <- TheSoundings
  Coasts <- TheCoasts
CONSTRAINT RasterBound
INVARIANT TouchedIsBlocked
CHECK_DEADLOCK FALSE
