SPECIFICATION Spec
CONSTANTS
  Workers = {w1}
  Packets <- PoliteClient
  MaxSent = 3
CHECK_DEADLOCK FALSE
INVARIANTS
  TypeOK
  NothingLost
  OnlyIncompleteWaits
  
PROPERTIES
  
  WaitKeepsPacket
