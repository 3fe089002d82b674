SPECIFICATION Spec
CONSTANTS
  Tables <- MCOddTables
  GlobalRanges = {3, 11}
  DirectThreshold = 12
  Edge = 2
  WordSize = 4096
  IntSize = 256
  CoordBits = 4
  PatchLimit = 2
  Along <- MCAlong
INVARIANTS
  RoundTrips
CHECK_DEADLOCK FALSE
