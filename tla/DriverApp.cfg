SPECIFICATION PhoneSpec
CONSTANTS
  s1 = s1
  s2 = s2
  b1 = b1
  b2 = b2
  b3 = b3
  x = x
  y = y
  none = none
  loop = loop
  None = None
  TripStops <- TwoStops
  MaxUploads = 2
  MaxFaults = 1
  Actions <- ThreeActions
  AggregateOf <- ThreeAggregateOf
  Rank <- ThreeRank
  Blocker <- ThreeBlocker
  NoAction = none
  Loops <- OneLoop
  Answers <- OnlyOk
  PullLimit = 2
  MaxFailures = 2
  Budget <- LossyBudget
  MaxKinds = 3
INVARIANTS
  DoneIsReceived
PROPERTIES
  WalkArrives
  PhotographedEnds
  EventuallySettled
CHECK_DEADLOCK FALSE
