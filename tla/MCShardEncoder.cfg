SPECIFICATION FairSpec
CONSTANTS
  small = small full = full xl = xl huge = huge
  w1 = w1 w2 = w2
  Span = {small, xl}
  Worker = {w1, w2}
  Drainer = {drainer}
  Stopper = {k1, k2}
  Flusher = flusher
  NoProc = nobody
  MaxRecordSize = 2
  MaxAllowedSizePerSpan = 2
  Size <- MCSize
  CutSize <- MCCutSize
  Unmarshalable = {}
INVARIANTS TypeOK SpanAccounting NothingStranded RecordSizeBound CloseOnce SizeMatchesBatch
PROPERTIES LedgerSafety LedgerSettles
CHECK_DEADLOCK FALSE
