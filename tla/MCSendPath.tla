----------------------------- MODULE MCSendPath -----------------------------
(* Three users on two handles, and two packets that are made as a           *)
(* transponder's and a script's, a number, and a text with a number behind  *)
(* it.  The code makes their streams with 20 bytes; here it is 2 and 3, so  *)
(* that few bytes fill them.  The number does not fit the first, which      *)
(* grows.  The text goes over the end of the second, and is lost when the   *)
(* number makes it grow: the byte in its place is then the id of a packet   *)
(* without any payload (ping).                                              *)
EXTENDS SendPath
CONSTANTS u1, u2, u3

OneHandedOutAgain == [u \in Users |-> IF u = u3 THEN 2 ELSE 1]

ScaledDown == [id \in DOMAIN FrameSize |-> CASE id = 20 -> 2 [] id = 22 -> 3 [] OTHER -> 40]

Text(n)   == [text |-> TRUE,  size |-> n]
Number(n) == [text |-> FALSE, size |-> n]

Transponder == [id |-> 20, payload |-> <<13>>,    fields |-> <<Number(1)>>]
Script      == [id |-> 22, payload |-> <<0, 13>>, fields |-> <<Text(1), Number(1)>>]

OneGrowsOneOverruns == {Transponder, Script}
PingId              == {13}
=============================================================================
