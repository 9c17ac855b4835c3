SPECIFICATION Spec
CONSTANTS
  Kinds = {"local", "daytona", "fake"}
  c1 = c1
  c2 = c2
  k1 = k1
  Callers = {c1, c2}
  Destroyers = {d1}
  Keys = {k1}
  KeyOf <- OneKey
  Specs = {s1, s2}
  MaxBoxes = 2
  None = None
  MaxFaults = 2
INVARIANTS
  ReportedIsGone
  NotCreatedIsTrue
  NoCommandOutlivesDestroy
PROPERTIES
  ReuseAgrees
SYMMETRY Symmetry
CHECK_DEADLOCK FALSE
