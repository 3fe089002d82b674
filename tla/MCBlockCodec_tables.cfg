SPECIFICATION Spec
CONSTANTS
  Tables <- MCTables
  GlobalRanges = {3, 11}
  DirectThreshold = 4
  Edge = 2
  WordSize = 4096
  IntSize = 256
  CoordBits = 4
  PatchLimit = 2
  Along <- MCAlong
INVARIANTS
  TypeOK
  RoundTrips
  QuadsAscend
CHECK_DEADLOCK FALSE
