---------------------------- MODULE MCServerLoop ----------------------------
(* Few handles, so that closed ones are handed out again.                   *)
EXTENDS ServerLoop
=============================================================================
