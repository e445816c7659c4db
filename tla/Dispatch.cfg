SPECIFICATION DispatchSpec
CONSTANTS
  t1 = t1
  t2 = t2
  s1 = s1
  s2 = s2
  m1 = m1
  m2 = m2
  m3 = m3
  changed = changed
  mistaken = mistaken
  Txns <- TwoTxns
  Stops <- TwoStops
  Photos <- ThreePhotos
  Reasons <- TwoReasons
  c1 = c1
  c2 = c2
  d1 = d1
  d2 = d2
  o1 = o1
  o2 = o2
  Commands <- MCCommands
  Devices <- MCDevices
  Target <- MCTarget
  Owner <- MCOwner
  MaxAttempts = 3
  MaxPush = 3
  MaxRestarts = 1
INVARIANTS
  CompletedIsDelivered
  DeliveredOnce
PROPERTIES
  OnlyStaleDrivesRevive
  EventuallyClosed
  SettledOnce
  UnconnectedIsSettled
CHECK_DEADLOCK FALSE
