SPECIFICATION Spec
CONSTANTS
  u1 = u1
  u2 = u2
  Users = {u1, u2}
  Pairs <- EachOther
  Requested <- Requests
  UpdateInterval <- Intervals
  Day = 18
  Begin = 8
  Horizon = 19
  Uninitialized = {0, 1, 6, 12, 99}
INVARIANT TypeOK
PROPERTIES
  FreshUnlessAhead
  Paced
CHECK_DEADLOCK FALSE
