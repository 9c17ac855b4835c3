SPECIFICATION FairSpec
CONSTANTS
  b1 = b1
  b2 = b2
  p1 = p1
  Builds = {b1, b2}
  Reconcilers = {p1}
  None = None
  MaxResources = 1
  MaxDeaths = 0
  MaxFaults = 1
  LongGrace = FALSE
PROPERTIES
  EveryLeaseEnds
  OrphansReclaimed
CHECK_DEADLOCK FALSE
