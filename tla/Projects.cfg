SPECIFICATION FairSpec
CONSTANTS
  u1 = u1
  u2 = u2
  p1 = p1
  p2 = p2
  c1 = c1
  c2 = c2
  r1 = r1
  Users = {u1, u2}
  Projects = {p1, p2}
  Chats = {c1, c2}
  Runs = {r1}
  Names = {"dev"}
  None = None
  LegacyUsers <- MCLegacyUsers
  LegacyProject = p1
  LegacyChat = c1
  LegacyRevision = 1
  LegacyRuns <- MCLegacyRuns
  Requests = {1, 2}
  MaxRequests = 4
  MaxRollbacks = 2
  MaxMigrations = 1
  MaxFaults = 1
INVARIANTS
  ChatsOnBranches
  ListsAgree
  MirrorNeverAhead
PROPERTIES
  MigrationCompletes
CHECK_DEADLOCK FALSE
