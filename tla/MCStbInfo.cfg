CONSTANTS
  S = 21
  L = 4
  MaxSaves = 8
  MaxCrashes = 2
SPECIFICATION Spec
INVARIANTS TypeOK NeverRefused LoadsLast
PROPERTIES SavedSurvives
CHECK_DEADLOCK FALSE
