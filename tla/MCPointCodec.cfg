SPECIFICATION Spec
CONSTANTS
  Clouds <- MCClouds
  PointBytes = 2
  Jobs <- MCJobs
  Quantizer = "cube"
  Pitch = 2
  Edge = 2
  WordSize = 4096
  IntSize = 256
  CoordBits = 4
  PatchLimit = 2
  Along <- MCAlong
INVARIANTS
  TypeOK
  Permuted
  LinesUp
  EveryPointOnce
  RunsToTheEnd
CHECK_DEADLOCK FALSE
