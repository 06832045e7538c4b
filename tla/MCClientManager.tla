--------------------------- MODULE MCClientManager ---------------------------
(* Four clients and two indexes: the queue runs empty and is refilled.      *)
EXTENDS ClientManager, TLC
CONSTANTS u1, u2, u3, u4, s1, s2, s3, i1, i2, c1, c2
Symmetry == Permutations({s1, s2, s3}) \cup Permutations({i1, i2}) \cup Permutations({c1, c2})
              \cup Permutations({u1, u2, u3, u4})
=============================================================================
