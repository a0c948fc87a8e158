SPECIFICATION Spec
CONSTANTS
  s1 = s1 s2 = s2 s3 = s3 s4 = s4 c1 = c1 c2 = c2 w1 = w1 w2 = w2 shA = shA shB = shB
  one = one split = split bad = bad
  Span = {s1, s2, s3, s4}
  Shard = {shA}
  Caller = {c1, c2}
  SpansOf <- MCSpansOf
  Worker = {w1}
  Config = {one, bad}
  Valid = {one}
  ShardsOf <- MCShardsOf
  ShardOf <- MCShardOf
  NoShard = NoShard
  NoConfig = NoConfig
  Unencodable = {s3}
  MayTimeOut = TRUE
  MaxBatch = 2
  MaxConfigs = 2
INVARIANTS SpanAccounting WgCountsBatches OldGenerationsStopped NoLostWakeup
PROPERTY LedgerSafety
CHECK_DEADLOCK FALSE
