\* Two jobs, any of which may die, and one reader.
CONSTANTS
  MaxRanks = 3
  Censuses <- MCTwoJobs
SPECIFICATION Spec
INVARIANTS TypeOK RecoversLastJob InRankOrder NoTornSuccess
\* The directory is at rest when the reader has ended.
CHECK_DEADLOCK FALSE
