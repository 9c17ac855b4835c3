SPECIFICATION FairSpec
CONSTANTS
  None = None
  Earlier = None
  Runs = {r1, r2}
  Workers = {w1, w2}
  MaxRepairs = 0
  MaxStalls = 1
  MaxAttempts = 2
  MaxRollbacks = 1
  MaxCrashes = 1
  FaultyAt = {"release"}
  LiveStalls = FALSE
  SlowHeartbeats = FALSE
PROPERTIES
  GenerationTerminates
CHECK_DEADLOCK FALSE
