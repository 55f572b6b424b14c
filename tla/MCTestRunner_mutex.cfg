SPECIFICATION Spec
CONSTANTS
  Profiles = {"a", "b", "c", "d", "e"}
  FullConfigs = {"b"}
  Skipped = {"e"}
  Broken = {"d"}
  Runs = {r1, r2}
  Selections <- Failing
  Kinds = {"url", "speed", "current"}
  BatchSize = 2
  MaxStops = 0
  MaxFailures = 1
  MaxPolls = 0
INVARIANTS OneRunAtATime LeakOnlyAfterStop
CHECK_DEADLOCK FALSE
SYMMETRY RunSymmetry
