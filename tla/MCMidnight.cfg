SPECIFICATION Spec
CONSTANTS
  u1 = u1
  u2 = u2
  Users = {u1, u2}
  Pairs <- EachOther
  Requested <- Requests
  UpdateInterval <- Intervals
  Day = 14
  Begin = 8
  Horizon = 26
  Uninitialized = {0}
INVARIANT FreshEnough
CHECK_DEADLOCK FALSE
