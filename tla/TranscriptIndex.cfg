CONSTANTS
  p1 = p1
  p2 = p2
  Pollers <- TwoPollers
  Lengths <- LineLengths
  TARGET = 5
  MAX = 8
  MaxSegments = 4
  MaxFailures = 1
  MaxCrashes = 1
SPECIFICATION FairSpec
INVARIANT TypeOK
INVARIANT Gapless
INVARIANT StoredFromStart
INVARIANT ChunksPartition
PROPERTY EveryChunkIndexed
CHECK_DEADLOCK FALSE
