SPECIFICATION Spec
CONSTANTS
  NRanks = 2
  PointBytes = 2
  ArgChoices <- MCPlainArgs
  InputSizes <- MCPlainInputs
  ChunkSizes = {1}
  DiskMayFail = TRUE
INVARIANTS
  ManifestLocates
CHECK_DEADLOCK FALSE
