--------------------------- MODULE MCClientUpdater ---------------------------
(* Pilots whose ranges differ, and a controller: one may see another that   *)
(* does not see it.  Each has a handle of its own, or the controller comes  *)
(* on the handle of the first pilot.  The first pilot starts at 0: the      *)
(* other start is its mirror image.                                         *)
EXTENDS ClientUpdater
CONSTANTS u1, u2, u3, h1, h2, h3

Kinds     == [u \in Users |-> IF u = u3 THEN CONTROLLER ELSE PILOT]
Ranges    == [u \in Users |-> IF u = u1 THEN 1 ELSE 0]
FromZero  == {l \in [Users -> Positions] : l[u1] = 0}
Handle(u) == CASE u = u1 -> h1 [] u = u2 -> h2 [] u = u3 -> h3
Apart     == {[u \in Users |-> Handle(u)]}
Handles   == Apart \cup {[u \in Users |-> IF u = u3 THEN h1 ELSE Handle(u)]}
=============================================================================
