SPECIFICATION FairSpec
CONSTANTS
  v1 = v1
  v2 = v2
  f1 = f1
  Validations = {v1, v2}
  Fingerprints = {f1}
  FingerprintOf <- MCFingerprintOf
  FlawSets <- MCFlawSets
  None = None
  MaxRetries = 1
  MaxScans = 1
  MaxFaults = 2
INVARIANTS
  VerdictIsFair
  OneInstallsAtATime
  NothingIsLeftBehind
PROPERTIES
  ValidationsEnd
CHECK_DEADLOCK FALSE
