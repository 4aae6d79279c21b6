SPECIFICATION FairSpec
CONSTANTS
  Size <- Sizes
  Cap = 2
  KeepCap = 3
  MaxUsage = 2
  Callers = {"pi", "claude", "suite"}
  Said <- Talk
  TailLimit = 3
  MaxSteps = 3
  MaxFaults = 1
INVARIANTS StreamIsOfLines TailIsWholeLines NothingIsLost UsageIsHonest
PROPERTIES PromiseKept SessionEnds
CHECK_DEADLOCK FALSE
