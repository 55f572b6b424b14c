SPECIFICATION FairSpec
CONSTANTS
  Profiles = {"a", "b", "c", "d", "e"}
  FullConfigs = {"b"}
  Skipped = {"e"}
  Broken = {"d"}
  Runs = {r1}
  Selections <- BatchAndRest
  Kinds = {"speed"}
  BatchSize = 2
  MaxStops = 0
  MaxFailures = 1
  MaxPolls = 0
PROPERTIES SpeedTestEnds
CHECK_DEADLOCK FALSE
