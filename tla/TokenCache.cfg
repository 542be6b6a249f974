CONSTANTS
  c1 = c1
  c2 = c2
  c3 = c3
  Callers <- ThreeCallers
  LIFE = 6
  SKEW = 3
  LATENCY = 2
  RETRIES = 2
  MaxTime = 10
SPECIFICATION FairSpec
INVARIANT TypeOK
INVARIANT RefreshesSpaced
PROPERTY ReturnedIsFresh
PROPERTY NobodyStarves
