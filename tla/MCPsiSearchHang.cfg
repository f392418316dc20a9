CONSTANTS
  p1 = p1
  zero = zero
  five = five
  Pats <- BrokenPats
  Invalid <- Broken
  Low <- Reserved
  Filters = 5
  Schemes <- OnlyPrograms
  Tps = 1
  Scans = 1
  Refuses = FALSE
  LateHits = FALSE
  StopPreempted = FALSE
SPECIFICATION Spec

PROPERTY SearchEnds
CHECK_DEADLOCK FALSE
