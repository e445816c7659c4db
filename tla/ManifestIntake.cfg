SPECIFICATION PhotoSpec
CONSTANTS
  s1 = s1
  s2 = s2
  m1 = m1
  p1 = p1
  p2 = p2
  stop1 = stop1
  d1 = d1
  None = None
  Sessions <- MCSessions
  Manifests <- MCManifests
  ManifestOf <- MCManifestOf
  MaxAttempts = 2
  MaxLosses = 1
  MaxManual = 1
  MaxRestarts = 1
  Photos <- TwoPhotos
  StopOf <- OneStop
  Slips <- MCSlips
  Entries = {0, 7}
  Dispatchers = {d1}
  MinKg = 2
  MaxKg = 9
  MaxFaults = 1
INVARIANTS
  WeightIsRead
PROPERTIES
  ImplementsPhotoOutcome
  VerdictOrReport
  ManualHolds
  ProcessingEnds
CHECK_DEADLOCK FALSE
