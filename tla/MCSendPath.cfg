SPECIFICATION Spec
CONSTANTS
  u1 = u1
  u2 = u2
  u3 = u3
  Users = {u1, u2, u3}
  NoUser = NoUser
  Handle <- OneHandedOutAgain
  Workers = {w1, w2}
  NoWorker = NoWorker
  Passing = {w2}
  Packets <- OneGrowsOneOverruns
  PreallocateSize <- ScaledDown
  Memory <- PingId
  Deaf = {u3}
  Leaving = {u1}
  SendBuffer = 1
  MaxWrites = 2
INVARIANTS
  TypeOK
  OwnBytesInOrder
  ClientDecodes
PROPERTIES
  JobsEnd
  PlacementsEnd
CHECK_DEADLOCK FALSE
