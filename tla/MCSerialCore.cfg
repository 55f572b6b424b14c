SPECIFICATION FairSpec
CONSTANTS
  StartCalls = {s1, s2}
  StopCalls = {p1, p2}
  EnableCalls = {e1}
  DisableCalls = {d1}
  ExtraCalls = {s1}
  Nil = Nil
INVARIANTS ClientTypeOK Agreement NoOrphanBox LeakOnlyFromFailedStart
PROPERTIES KeepsPromise StopSurvives 
CHECK_DEADLOCK FALSE
