CONSTANTS
  p1 = p1
  p2 = p2
  Pollers <- TwoPollers
  Kind <- EveryKind
  Retries = 1
  MaxCrashes = 1
SPECIFICATION FairSpec
INVARIANT TypeOK
INVARIANT OneAnswer
INVARIANT PendingIsHandled
PROPERTY ImplementsDesk
PROPERTY MentionsCaptured
CHECK_DEADLOCK FALSE
