SPECIFICATION SessionsSpec
CONSTANTS
  r1 = r1
  r2 = r2
  c1 = c1
  c2 = c2
  t1 = t1
  t2 = t2
  w1 = w1
  w2 = w2
  None = None
  Tokens <- FiveTokens
  NoToken = 0
  Requests <- TwoRequests
  NoRequest = none
  Callers <- TwoCallers
  Budget <- Rich
  Tabs <- TwoTabs
  Slots <- TwoSlots
  Rotates = TRUE
  MaxLogins = 2
  MaxTokens = 3
SYMMETRY Symmetry
INVARIANTS
  OneLiveToken
  ReuseIsDisturbed
  LoggedOutStaysOut
  SignedOutForCause
PROPERTIES
  DisabledIsSignedOut
CHECK_DEADLOCK FALSE
