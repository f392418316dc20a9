CONSTANTS
  Scripts <- HalfOnly
  SectorLen = 2
  NSectors = 3
  Offset <- HeadersFirst
  KeyHeads <- KeyFirst
  HostSees = TRUE
  LineLen = 2
  MaxFaults = 0
  MaxAborts = 0
  MaxCrashes = 0
SPECIFICATION Spec
INVARIANTS FlashOurs
CHECK_DEADLOCK FALSE
