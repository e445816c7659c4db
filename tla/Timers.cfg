SPECIFICATION TimersSpec
CONSTANTS
  d1 = d1
  android = android
  p1 = p1
  l1 = l1
  l2 = l2
  a1 = a1
  a2 = a2
  Rows <- TwoRows
  Relays <- OneRelay
  Payloads <- AlertPayloads
  PollBatchSize = 2
  MaxAttempts = 2
  MaxCrashes = 1
  JobsExpire = FALSE
  Drivers <- OneDriver
  Platforms <- OnePlatform
  DriverOf <- AllHers
  Logins <- TwoLogins
  BreakGlass <- OneBreakGlass
  Pollers <- TwoPollers
  MaxTime = 2
  MaxFailures = 1
INVARIANTS
  SecondPageHasCause
  PagedIsBehindCursor
PROPERTIES
  MissIsKnown
  LoginIsPaged
CHECK_DEADLOCK FALSE
