SPECIFICATION GenerationSpec
CONSTANTS
  NoProject = NoProject
  manifest = manifest
  main = main
  main2 = main2
  app = app
  t1 = t1
  t2 = t2
  react = react
  lib = lib
  Spellings <- MCSpellings
  normalizeProjectPath <- MCNormalize
  Manifest = manifest
  requiredTemplateFiles <- MCRequiredFiles
  Texts = {t1, t2}
  template <- MCTemplate
  Names = {react, lib}
  Versions = {1, 2}
  required <- MCRequired
  Diagnostics = {d1, d2}
  maxRepairAttempts = 2
  MaxOperations = 2
  MaxRuns = 2
INVARIANTS
  AlwaysBuildable
  OnlyVerifiedIsStored
CHECK_DEADLOCK FALSE
