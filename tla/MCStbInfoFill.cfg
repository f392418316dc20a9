CONSTANTS
  S = 12
  L = 4
  MaxSaves = 4
  MaxCrashes = 0
SPECIFICATION SpecRefused
INVARIANT LoadsLast
CHECK_DEADLOCK FALSE
