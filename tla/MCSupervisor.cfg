SPECIFICATION FairSpec
CONSTANTS
  Profiles = {a, b}
  NoId = NoId
  UiTasks = {}
  MaxCrashes = 2
  MaxCalls = 2
INVARIANTS DownHasReason PortMatches RestartsDontPileUp
PROPERTIES  WaitingIsServed
CHECK_DEADLOCK FALSE
