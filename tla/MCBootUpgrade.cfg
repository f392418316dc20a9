CONSTANTS
  Scripts <- AllScripts
  SectorLen = 2
  NSectors = 3
  Offset <- Headers
  KeyHeads <- KeyThird
  HostSees = TRUE
  LineLen = 2
  MaxFaults = 2
  MaxAborts = 1
  MaxCrashes = 1
SPECIFICATION Spec
INVARIANTS TypeOK ImageExact FlashOurs BurnedWhole
PROPERTIES HostEnds
CHECK_DEADLOCK FALSE
