SPECIFICATION Spec
CONSTANTS
  u1 = u1
  u2 = u2
  u3 = u3
  h1 = h1
  h2 = h2
  h3 = h3
  Users = {u1, u2, u3}
  Workers = {w1}
  NoUser = NoUser
  HandleMaps <- Handles
  PILOT = PILOT
  CONTROLLER = CONTROLLER
  TypeOf <- Kinds
  Positions = {0, 1}
  Starts <- FromZero
  VisibilityRange <- Ranges
  DEFAULT = 2
  Intervals = {1, 3}
  MaxMoves = 1
  MaxChanges = 1
INVARIANTS
  TypeOK
  NoRepeatedNews
  IntervalsTold
  ViewsAgree
PROPERTIES
  NoNewGhosts
  EventuallySeen
  EventuallyOftenEnough
