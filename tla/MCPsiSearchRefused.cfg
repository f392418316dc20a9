CONSTANTS
  p1 = p1
  zero = zero
  five = five
  Pats <- MixedPats
  Invalid <- Broken
  Low <- Reserved
  Filters = 3
  Schemes <- AllSchemes
  Tps = 2
  Scans = 1
  Refuses = TRUE
  LateHits = TRUE
  StopPreempted = FALSE
SPECIFICATION Spec

PROPERTY StopReturns
CHECK_DEADLOCK FALSE
