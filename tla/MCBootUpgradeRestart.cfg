CONSTANTS
  Scripts <- AllScripts
  SectorLen = 2
  NSectors = 3
  Offset <- Headers
  KeyHeads <- KeyThird
  HostSees = FALSE
  LineLen = 2
  MaxFaults = 1
  MaxAborts = 0
  MaxCrashes = 1
SPECIFICATION Spec
INVARIANTS FlashOurs
CHECK_DEADLOCK FALSE
