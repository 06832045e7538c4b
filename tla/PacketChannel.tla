---------------------------- MODULE PacketChannel ----------------------------
(***************************************************************************)
(* What a connection promises to a client, with no bytes, no chunks and no  *)
(* buffer: each packet it sends is handled once, whole, in order, and in    *)
(* the end, unless a packet that closes the connection was handled before.  *)
(*                                                                          *)
(* It promises nothing on a handle whose last connection was closed ahead   *)
(* of packets that its client had sent: those may come first, and then      *)
(* anything may be handled.  PacketProcessor.tla implements this.           *)
(***************************************************************************)
EXTENDS Naturals, Sequences

CONSTANTS Packets,   \* what a client may send
          Closing    \* the packets whose handling closes the connection

VARIABLES sent,      \* the packets sent on this connection
          delivered, \* the packets handled
          stale      \* the connection began with what another left behind

vars == <<sent, delivered, stale>>

Init == sent = <<>> /\ delivered = <<>> /\ stale = FALSE

Closed == \E n \in 1..Len(delivered) : delivered[n] \in Closing

Send(p) == sent' = Append(sent, p) /\ UNCHANGED <<delivered, stale>>

Deliver == /\ ~stale /\ Len(delivered) < Len(sent)
           /\ delivered' = Append(delivered, sent[Len(delivered) + 1])
           /\ UNCHANGED <<sent, stale>>

\* Whatever the bytes left behind make of those that follow.
Garble == stale /\ UNCHANGED <<sent, stale>>

\* The next connection on the same socket handle.
Reopen == /\ Closed \/ stale
          /\ sent' = <<>> /\ delivered' = <<>>
          /\ stale' \in {FALSE, stale \/ Len(delivered) < Len(sent)}

Next == (\E p \in Packets : Send(p)) \/ Deliver \/ Garble \/ Reopen

Spec == Init /\ [][Next]_vars /\ WF_vars(Deliver /\ ~Closed)
=============================================================================
