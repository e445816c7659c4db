SPECIFICATION FairCommandSpec
CONSTANTS
  c1 = c1
  c2 = c2
  d1 = d1
  d2 = d2
  o1 = o1
  o2 = o2
  Commands <- OneCommand
  Devices <- MCDevices
  Target <- MCTarget
  Owner <- MCOwner
  MaxAttempts = 3
  MaxPush = 3
  MaxRestarts = 0
CHECK_DEADLOCK FALSE
PROPERTY FlushedAfterDrop
