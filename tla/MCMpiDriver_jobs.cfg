SPECIFICATION FairSpec
CONSTANTS
  NRanks = 2
  PointBytes = 2
  ArgChoices <- MCArgs
  InputSizes <- MCInputs
  ChunkSizes = {1, 2}
  DiskMayFail = FALSE
INVARIANTS
  TypeOK
  CollectivesMatch
  SummaryMatchesDisk
  OneCodebook
PROPERTIES
  PublishesAll
  Terminates
CHECK_DEADLOCK FALSE
