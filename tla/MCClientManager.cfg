SPECIFICATION Spec
CONSTANTS
  u1 = u1
  u2 = u2
  u3 = u3
  u4 = u4
  s1 = s1
  s2 = s2
  s3 = s3
  i1 = i1
  i2 = i2
  c1 = c1
  c2 = c2
  Users = {u1, u2, u3, u4}
  Sockets = {s1, s2, s3}
  Ids = {i1, i2}
  Callsigns = {c1, c2}
  MaxClients = 2
  NoUser = NoUser
SYMMETRY Symmetry
CHECK_DEADLOCK FALSE
INVARIANTS
  TypeOK
  OneOwner
  FoundByOwnIndex
  NoStaleLookup
  LostOnlyWhenShared
