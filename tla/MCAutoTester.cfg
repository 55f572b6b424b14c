SPECIFICATION FairSpec
CONSTANTS
  N = 3
  Chains = {2}
  PerCycle = 1
  PoolSize = 2
  RetryCount = 2
  Cycles = {c1, c2}
  Checks = {h1}
  MaxTicks = 4
  MaxEvents = 1
INVARIANTS PoolSound FailoverElsewhere RotationCovers
PROPERTIES FailoverDeserved  ProgressReturns
CHECK_DEADLOCK FALSE
