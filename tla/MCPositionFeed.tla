--------------------------- MODULE MCPositionFeed ---------------------------
(* Two users that show each other, one of which reports as rarely as the    *)
(* other allows, and one more often.                                        *)
EXTENDS PositionFeed
CONSTANTS u1, u2

EachOther == {<<u1, u2>>, <<u2, u1>>}
Requests  == [u \in Users |-> IF u = u1 THEN 3 ELSE 4]
Intervals == [u \in Users |-> IF u = u1 THEN 2 ELSE 3]
=============================================================================
