SPECIFICATION Spec
CONSTANTS
  StartCalls = {s1, s2}
  StopCalls = {p1, p2}
  EnableCalls = {}
  DisableCalls = {}
  ExtraCalls = {}
  Nil = Nil
  Profiles = {a}
  NoId = NoId
  UiTasks = {"stopFirst", "unlock", "crashed"}
  MaxCrashes = 1
  MaxCalls = 0
  MaxEvents = 2
  MaxTimeouts = 0
  MaxDeaths = 1
  PacketFilter = TRUE
SYMMETRY CallSymmetry
INVARIANTS MutexesHeld ShownIsReal  NoHiddenInstance NoOrphan StopHasProfile
CHECK_DEADLOCK FALSE
