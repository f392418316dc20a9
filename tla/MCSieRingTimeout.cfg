CONSTANTS
  BufLen = 36
  MaxSec = 8
  SectionLens = {1, 8}
  Timeouts = {TRUE}
  OnTimeout = {"started", "freed"}
  Burst = 1
  MaxSent = 6
SPECIFICATION Spec
INVARIANT RoomWhileGetting
CHECK_DEADLOCK FALSE
