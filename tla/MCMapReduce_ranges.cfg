SPECIFICATION FairSpec
CONSTANTS
  NRanks = 3
  NumBlocks = 2
  Input <- MCRanges
  Mode = "morton-range"
  SamplesPerRank = 2
  MaxInt = 3
  CoordBits = 5
  FloatMax = 1000
  IntOverflow <- MCX86
  Quantizer = "cube"
  Pitch = 4
INVARIANTS
  OneOwner
  PartsFollowCurve
PROPERTIES
  Terminates
CHECK_DEADLOCK FALSE
