CONSTANTS
  Users = {u1, u2}
  Openers = {u1, u2}
  Closers = {u1, u2}
  Sie = sie
  NReq = 2
  FilterNos = {1, 2}
  Pids = {p1}
  Masks = {m1}
  NoMask = nomask
  Timed = TRUE
  MaxCalls = 7
SPECIFICATION Spec
INVARIANTS FiltersOwned FiltersWatched
SYMMETRY UserSymmetry
CHECK_DEADLOCK FALSE
