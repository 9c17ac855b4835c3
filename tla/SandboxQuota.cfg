SPECIFICATION QuotaSpec
CONSTANTS
  r1 = r1
  r2 = r2
  r3 = r3
  k1 = k1
  k2 = k2
  b1 = b1
  b2 = b2
  p1 = p1
  Requests = {r1, r2, r3}
  LeaseKeys = {k1, k2}
  Branches = {b1, b2}
  Projects = {p1}
  LeaseKey <- MCKeyOf
  BranchOf <- MCBranchOf
  ProjectOf <- MCProjectOf
  PurposeOf <- MCPurposeOf
  ProjectLimit <- OneEach
  WorkspaceLimit <- TwoEach
  CpuOf <- MCCpuOf
  MaxCpu = 3
  NoToken = NoToken
  MaxQuotaFaults = 2
PROPERTIES
  CountedUnderLock
CHECK_DEADLOCK FALSE
