CONSTANTS
  Users = {u1}
  Adm = adm
  NCh = 1
  NNodes = 3
  NFlt = 1
  Kinds <- DrainCalls
  Reentrant = FALSE
  Results = {TRUE}
  Refuses = FALSE
  MaxSec = 2
  Endless = FALSE
  MaxCalls = 5
SPECIFICATION Spec
INVARIANTS NodesKept
CHECK_DEADLOCK FALSE
