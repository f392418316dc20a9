CONSTANTS
  p1 = p1
  zero = zero
  five = five
  Pats <- BrokenPats
  Invalid <- Broken
  Low <- Reserved
  Filters = 3
  Schemes <- OnlyPrograms
  Tps = 2
  Scans = 1
  Refuses = TRUE
  LateHits = TRUE
  StopPreempted = TRUE
SPECIFICATION Spec
INVARIANT EngineForSearch

CHECK_DEADLOCK FALSE
