CONSTANTS
  Users = {u1, u2}
  Adm = adm
  NCh = 2
  NNodes = 4
  NFlt = 1
  Kinds <- AllCalls
  Reentrant = FALSE
  Results = {TRUE, FALSE}
  Refuses = TRUE
  MaxSec = 3
  Endless = FALSE
  MaxCalls = 8
SPECIFICATION Spec
INVARIANTS TypeOK NodeOnce QueuedEnabled EnabledAllocated WorkBuffer
SYMMETRY UserSymmetry
CHECK_DEADLOCK FALSE
