SPECIFICATION Spec
CONSTANTS
  Sockets = {s1}
  NoSocket = NoSocket
  Workers = {w1}
  MaxAccepts = 2
  MaxJobs = 2
INVARIANT TimerServes
CHECK_DEADLOCK FALSE
