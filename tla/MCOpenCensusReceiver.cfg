SPECIFICATION MCSpec
CONSTANTS
  Call = {c1, c2}
  n1 = n1
  n2 = n2
  r1 = r1
  r2 = r2
  p1 = p1
  NoNode = NoNode
  NoResource = NoResource
  Node = {n1, n2}
  Resource = {r1, r2}
  Message <- MCMessage
  Limit <- MCLimit
  MaxMessages = 2
  Starter = {p1, p2}
  Config <- MCConfig
  HalfInt64 = 4
INVARIANTS
  RegisteredBeforeServing
  StreamsCounted
  LimitHolds
  LabelsCarried
  LossReported
PROPERTIES
  StartReturns
  ServingEnds
CHECK_DEADLOCK FALSE
