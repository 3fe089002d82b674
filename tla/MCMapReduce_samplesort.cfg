SPECIFICATION Spec
CONSTANTS
  NRanks = 3
  NumBlocks = 2
  Input <- MCSpread
  Mode = "samplesort"
  SamplesPerRank = 2
  MaxInt = 2
  CoordBits = 5
  FloatMax = 1000
  IntOverflow <- MCX86
  Quantizer = "to"
  Pitch = 4
INVARIANTS
  TypeOK
  CollectivesMatch
  OneOwner
  CompleteWhenDone
  PartsWithinBound
  PartsFollowCurve
PROPERTIES
  PublishesCensus
CHECK_DEADLOCK FALSE
