CONSTANTS
  Users = {u1}
  Openers = {u1}
  Closers = {u1}
  Sie = sie
  NReq = 2
  FilterNos = {1, 2}
  Pids = {p1}
  Masks = {m1}
  NoMask = nomask
  Timed = FALSE
  MaxCalls = 8
SPECIFICATION FairSpec
INVARIANTS TypeOK NoFreedTableUse NoFilterLeft BitmapExact
PROPERTIES CloseTerminates HitServed
CHECK_DEADLOCK FALSE
