SPECIFICATION OrderSpec
CONSTANTS
  a1 = a1
  a2 = a2
  b1 = b1
  b2 = b2
  x = x
  y = y
  none = none
  l1 = l1
  l2 = l2
  Actions <- FourActions
  AggregateOf <- FourAggregateOf
  Rank <- FourRank
  Blocker <- FourBlocker
  NoAction = none
  Loops <- OneLoop
  Answers <- OnlyOk
  PullLimit = 1
  MaxFailures = 1
  Budget <- NoFaults
  MaxKinds = 1
CHECK_DEADLOCK FALSE
INVARIANT AggregateOrder
