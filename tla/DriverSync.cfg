SPECIFICATION PairSpec
CONSTANTS
  b1 = b1
  b2 = b2
  a1 = a1
  a2 = a2
  x = x
  y = y
  none = none
  l1 = l1
  l2 = l2
  Actions <- FourActions
  AggregateOf <- FourAggregateOf
  Rank <- FourRank
  Blocker <- FourBlocker
  NoAction = none
  Loops <- TwoLoops
  Answers <- AllAnswers
  PullLimit = 1
  MaxFailures = 1
  Budget <- OneOfEach
  MaxKinds = 2
SYMMETRY Symmetry
CHECK_DEADLOCK FALSE
INVARIANTS
  FeedIsTrue
  OvertakenIsHeldBack
