\* A job on more ranks, one on fewer, then the reader.
CONSTANTS
  MaxRanks = 2
  Censuses <- MCTwoJobs
SPECIFICATION Spec
INVARIANTS ReadsTheIndexed
CHECK_DEADLOCK FALSE
