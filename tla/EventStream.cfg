SPECIFICATION FairSpec
CONSTANTS
  MaxAttempts = 2
  Route = route
  MaxEvents = 3
  MaxFaults = 2
  MaxReconnects = 1
  MaxPolls = 2
INVARIANTS
  GapsComeFromPublishers
PROPERTIES
  FeedSpec
  TerminalEventEndsMonitor
CHECK_DEADLOCK FALSE
