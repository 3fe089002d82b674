SPECIFICATION Spec
CONSTANTS
  Streams <- MCStreams
  CodeBits = 2
  ByteBits = 4
  MaxRiceK = 6
  MaxExpK = 4
  AlphabetMax = 3
  EntropyLimit = 2
  MetaHead = 1
  MetaEntry = 1
INVARIANTS
  TypeOK
  RoundTrips
  EveryoneHasACode
  LongCodesNeedMany
  ShortestCode
  RiceIsShort
CHECK_DEADLOCK FALSE
