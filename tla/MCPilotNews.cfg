SPECIFICATION Spec
CONSTANTS
  Viewers = {c1}
  Controllers = {c1}
  Pilot = Pilot
  NoOne = NoOne
  Fields = {"mode", "title", "frequency"}
  Cycles = {1, 2}
  MaxMoves = 2
  Budgets <- FieldsOrPlans
INVARIANTS
  TypeOK
  UpToDate
  HoldsScripts
  PlanKnown
PROPERTIES
  PlanSettles
