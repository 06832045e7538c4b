SPECIFICATION Spec
CONSTANTS
  u1 = u1
  u2 = u2
  u3 = u3
  h1 = h1
  h2 = h2
  h3 = h3
  Users = {u1, u2}
  Workers = {w1, w2}
  NoUser = NoUser
  HandleMaps <- Apart
  PILOT = PILOT
  CONTROLLER = CONTROLLER
  TypeOf <- Kinds
  Positions = {0, 1}
  Starts <- FromZero
  VisibilityRange <- Ranges
  DEFAULT = 2
  Intervals = {2}
  MaxMoves = 3
  MaxChanges = 0
PROPERTY
  EventuallySeen
