SPECIFICATION FairSpec
CONSTANTS
  w1 = w1
  w2 = w2
  leased = leased
  cand = cand
  a1 = a1
  a2 = a2
  None = None
  Writers = {w1, w2}
  Keys = {cand, leased}
  KeySets <- MCKeySets
  KindOf <- MCKindOf
  ContentOf <- SameContent
  Ids = {a1, a2}
  MaxFaults = 1
INVARIANTS
  ReferencedIsReadable
  PublishedIsDurable
  CollectedIsGone
PROPERTIES
  ArtifactsSettle
CHECK_DEADLOCK FALSE
