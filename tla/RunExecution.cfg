SPECIFICATION Spec
CONSTANTS
  None = None
  Earlier = s0
  Runs = {r1, r2}
  Workers = {w1, w2}
  MaxRepairs = 1
  MaxStalls = 1
  MaxAttempts = 2
  MaxRollbacks = 1
  MaxCrashes = 1
  FaultyAt = {"load", "acquire", "rebaseRead", "rebase", "requeue", "read", "findSnapshot", "orphan", "begin", "assertHeld", "persist", "snapshot", "commit", "commitRead", "settle", "mirror", "dropCandidate", "emitCompleted", "storeCandidate", "fail", "emitFailed"}
  LiveStalls = FALSE
  SlowHeartbeats = FALSE
INVARIANTS
  CancelledLeavesNoTrace
  AdvancesAtMostOnce
  ExclusiveExecution
  GenerationEventsAgree
PROPERTIES
  CommitsOnBaseline
  RetryCommitsOnSource
SYMMETRY Symmetry
CHECK_DEADLOCK FALSE
