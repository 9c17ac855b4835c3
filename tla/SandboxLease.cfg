SPECIFICATION Spec
CONSTANTS
  b1 = b1
  b2 = b2
  p1 = p1
  Builds = {b1, b2}
  Reconcilers = {p1}
  None = None
  MaxResources = 2
  MaxDeaths = 1
  MaxFaults = 1
  LongGrace = FALSE
SYMMETRY Symmetry
INVARIANTS
  ExclusiveBuild
  LostMeansGone
PROPERTIES
  NoPreemptFresh
  TerminatedOnlyWhenGone
CHECK_DEADLOCK FALSE
