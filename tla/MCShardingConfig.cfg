SPECIFICATION Spec
CONSTANTS
  ShardId = {a, b}
  HashKey = {0, 1, 2, 3}
  MaxShards = 3
INVARIANTS RefusedIffRangesMeet RoutesUnique
CHECK_DEADLOCK FALSE
