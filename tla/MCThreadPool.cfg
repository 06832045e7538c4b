SPECIFICATION Spec
CONSTANTS
  Workers = {w1, w2, w3}
  Callers = {timer}
  Tasks = {t1, t2, t3, t4}
  NoTask = NoTask
INVARIANTS
  TypeOK
  WorkConserving
  DrainedAtExit
PROPERTIES
  ImplementsTaskQueue
  ShutdownCompletes
