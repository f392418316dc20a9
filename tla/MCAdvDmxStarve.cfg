CONSTANTS
  Users = {u1}
  Adm = adm
  NCh = 2
  NNodes = 4
  NFlt = 1
  Kinds <- SubmitCalls
  Reentrant = FALSE
  Results = {TRUE}
  Refuses = TRUE
  MaxSec = 3
  Endless = TRUE
  MaxCalls = 9
SPECIFICATION FairSpec
PROPERTIES AlwaysServed
CHECK_DEADLOCK FALSE
