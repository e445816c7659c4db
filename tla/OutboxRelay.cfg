SPECIFICATION FairSpec
CONSTANTS
  p1 = p1
  p2 = p2
  Rows <- MCRows
  Relays <- MCRelays
  Payloads <- MCPayloads
  PollBatchSize = 2
  MaxAttempts = 5
  MaxCrashes = 1
  JobsExpire = FALSE
CHECK_DEADLOCK FALSE
INVARIANT DeliveryIsEarned
PROPERTIES ImplementsEventDelivery EventuallySettled
