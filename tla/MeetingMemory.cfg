CONSTANTS
  b1 = b1
  b2 = b2
  Builders <- TwoBuilders
  NoRow = NoRow
  MIN_CHARS = 2
  MIN_GROWTH = 3
  Utterances <- UtteranceLengths
  MaxChars = 8
  MaxFailures = 2
  MaxCrashes = 1
SPECIFICATION FairSpec
INVARIANT TypeOK
PROPERTY RebuildBuysGrowth
PROPERTY Converges
CHECK_DEADLOCK FALSE
