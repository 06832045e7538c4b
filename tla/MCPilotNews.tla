----------------------------- MODULE MCPilotNews -----------------------------
(* A behaviour changes either fields and scripts, or the flight plan: the   *)
(* two share nothing but who is around.                                     *)
EXTENDS PilotNews
FieldsOrPlans == {[news |-> 2, plans |-> 0], [news |-> 0, plans |-> 2]}
=============================================================================
