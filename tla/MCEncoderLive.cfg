SPECIFICATION LiveSpec
CONSTANTS
  s1 = s1 s2 = s2 s3 = s3 s4 = s4 c1 = c1 c2 = c2 w1 = w1 w2 = w2 shA = shA shB = shB
  one = one split = split bad = bad
  Span = {s1}
  Shard = {shA, shB}
  Caller = {c1, c2}
  SpansOf <- MCSpansOf
  Worker = {w1}
  Config = {one, split, bad}
  Valid = {one, split}
  ShardsOf <- MCShardsOf
  ShardOf <- MCShardOf
  NoShard = NoShard
  NoConfig = NoConfig
  Unencodable = {s3}
  MayTimeOut = FALSE
  MaxBatch = 2
  MaxConfigs = 2
PROPERTIES AcceptedSpansSettle StopReturns CallersReturn LastConfigApplied
CHECK_DEADLOCK FALSE
