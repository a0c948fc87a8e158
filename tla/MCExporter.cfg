SPECIFICATION Spec
CONSTANTS
  s1 = s1 s2 = s2 s3 = s3 w1 = w1 c1 = c1 c2 = c2
  Span = {s1, s2, s3}
  Worker = {w1}
  Sender = {c1, c2}
  Fatal = {s3}
  NoConfig = NoConfig
  NoRequest = NoRequest
  NoAnswer = NoAnswer
  MaxBatch = 2
  RetryQueueSize = 1
  MaxVersion = 2
  MaxFailures = 1
  MayTimeOut = TRUE
INVARIANTS OneCopy DeliveredOnce EncodersNeedClient
PROPERTY LedgerSafety
CHECK_DEADLOCK FALSE
