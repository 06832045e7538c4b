SPECIFICATION Spec
CONSTANTS
  Sockets = {s1, s2}
  NoSocket = NoSocket
  Workers = {w1, w2}
  MaxAccepts = 3
  MaxJobs = 2
INVARIANTS
  TypeOK
  ReadsWritten
  OpenIsListed

  
CHECK_DEADLOCK FALSE
