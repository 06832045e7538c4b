SPECIFICATION Spec
CONSTANTS
  Workers = {w1,w2}
  Packets <- OverlapClient
  MaxSent = 2
CHECK_DEADLOCK FALSE
PROPERTY
  WaitKeepsPacket
