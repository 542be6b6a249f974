CONSTANTS
  t1 = t1
  w1 = w1
  s1 = s1
  a1 = a1
  NoOne = NoOne
  Ticks <- OneTick
  Webhooks <- OneWebhook
  Senders <- OneSender
  Analyzers <- OneAnalyzer
  MaxAttempts = 2
  Retries = 1
  MaxCrashes = 1
SPECIFICATION FairSpec
INVARIANT TypeOK
INVARIANT ClaimExclusive
INVARIANT PipelineCompletesEmailed
INVARIANT AttemptsCountFailures
PROPERTY NoSendAfterAck
PROPERTY ImplementsOutbox
PROPERTY Settles
CHECK_DEADLOCK FALSE
