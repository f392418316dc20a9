CONSTANTS
  Users = {u1, u2}
  Openers = {u1}
  Closers = {u1}
  Sie = sie
  NReq = 2
  FilterNos = {1, 2}
  Pids = {p1}
  Masks = {m1}
  NoMask = nomask
  Timed = FALSE
  MaxCalls = 4
SPECIFICATION FairSpec
INVARIANT NoFreedTableUse
CHECK_DEADLOCK FALSE
