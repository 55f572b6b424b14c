SPECIFICATION FairSpec
CONSTANTS
  StartCalls = {s1}
  StopCalls = {p1, p2}
  EnableCalls = {}
  DisableCalls = {}
  ExtraCalls = {}
  Nil = Nil
  Profiles = {a}
  NoId = NoId
  UiTasks = {"stopFirst", "unlock", "crashed"}
  MaxCrashes = 2
  MaxCalls = 0
  MaxEvents = 2
  MaxTimeouts = 1
  MaxDeaths = 0
  PacketFilter = FALSE
PROPERTIES UiComesBack LocksReleased
CHECK_DEADLOCK FALSE
