SPECIFICATION FeedSpec
CONSTANTS
  r1 = r1
  r2 = r2
  w1 = w1
  w2 = w2
  o1 = o1
  o2 = o2
  Runs <- MCRuns
  Writers <- MCWriters
  NextStates <- MCNextStates
  DeviceDeltas <- MCDeltas
  MaxSeq = 3
  PollBatchSize = 2
  PullLimit = 2
  MaxRebuilds = 1
  Orders <- TwoOrders
  NoOrder = NoOrder
  Planned <- OneDate
  Terms <- TwoTerms
  PageSize = 1
  LastPage = 2
  MaxForms = 2
  MaxQueue = 2
CHECK_DEADLOCK FALSE
INVARIANTS BoardIsTrue RebuildIsSound KnownOnce
PROPERTIES PerRunCommitOrder BoardNeverRegresses EventuallyFolded
