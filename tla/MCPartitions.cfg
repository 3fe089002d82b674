SPECIFICATION Spec
CONSTANTS
  NRanks = 3
  NumBlocks = 4
  SamplesPerRank = 2
  MaxInt = 3
  CoordBits = 5
  FloatMax = 1000
  Pitch = 4
INVARIANTS
  OneOwner
  CompleteWhenDone
  PartsWithinBound
  PartsFollowCurve
PROPERTIES
  PublishesCensus
CHECK_DEADLOCK FALSE
