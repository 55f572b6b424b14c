SPECIFICATION FairSpec
CONSTANTS
  Profiles = {"a", "b", "c", "d", "e"}
  FullConfigs = {"b"}
  Skipped = {"e"}
  Broken = {"d"}
  Runs = {r1}
  Selections <- BatchAndRest
  Kinds = {"url"}
  BatchSize = 2
  MaxStops = 1
  MaxFailures = 0
  MaxPolls = 1
INVARIANT LatencyIsOwn
CHECK_DEADLOCK FALSE
 
