CONSTANTS
  Scripts <- AllScripts
  SectorLen = 2
  NSectors = 3
  Offset <- Headers
  KeyHeads <- KeyThird
  HostSees = TRUE
  LineLen = 3
  MaxFaults = 0
  MaxAborts = 2
  MaxCrashes = 0
SPECIFICATION Spec
INVARIANTS ImageExact
CHECK_DEADLOCK FALSE
