SPECIFICATION FairSpec
CONSTANTS
  c1 = c1
  c2 = c2
  c3 = c3
  None = None
  Chats <- MCChats
  FirstChats <- MCFirstChats
  FirstRuns <- MCFirstRuns
  MaxRuns = 3
  PageSize = 1
  MaxClicks = 3
  MaxFaults = 1
  MaxCalls = 4
CHECK_DEADLOCK FALSE
INVARIANTS
  ShownIsOfOpenChat
  HistorySettles
  PanelAgreesWithTimeline
PROPERTIES
  ComesToRest
