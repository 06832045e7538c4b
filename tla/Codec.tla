-------------------------------- MODULE Codec --------------------------------
(***************************************************************************)
(* Numbers on the wire: what BasicStream writes for a number and reads back *)
(* (basic_stream.cpp), and the packing of an aircraft's attitude into one   *)
(* number (incoming_packets.cpp, outgoing_packets.cpp).                     *)
(*                                                                          *)
(* Bytes are 0..255, the most significant first.  Numbers are those that    *)
(* the callers make of them: an int where the code casts to int.            *)
(***************************************************************************)
EXTENDS Integers, Sequences

Byte  == 0..255
Short == {n \in Nat : n < 65536}

\* n as a signed number of that many values (a power of two)
Signed(n, values) == LET m == n % values IN IF m < values \div 2 THEN m ELSE m - values

-----------------------------------------------------------------------------
write_short(n) == <<(n \div 256) % 256, n % 256>>

read_unsigned_short(s) == 256 * s[1] + s[2]

write_3byte(n) == <<(n \div 65536) % 256, (n \div 256) % 256, n % 256>>

\* A value above 8388607 is a negative one.
read3Byte(s) ==
  LET value == 65536 * s[1] + 256 * s[2] + s[3]
  IN  IF value > 8388607 THEN value - 16777216 ELSE value

write_int(n) == <<(n \div 16777216) % 256, (n \div 65536) % 256, (n \div 256) % 256, n % 256>>

\* static_cast<int>(read_unsigned_int())
read_int(s) == 16777216 * Signed(s[1], 256) + 65536 * s[2] + 256 * s[3] + s[4]

-----------------------------------------------------------------------------
(* An attitude: pitch, roll and heading in parts of a full turn, of which    *)
(* there are 1024.  The operators take the number of parts as a parameter.  *)
(* The number they are packed into is an int, of turn ^ 3 * 4 values: 2^32   *)
(* for a turn of 1024.                                                      *)

Attitudes(turn, pitches) == [pitch : pitches, roll : 0..(turn - 1), heading : 0..(turn - 1)]

\* (pitch << 22) + (roll << 12) + (heading << 2), in ints.
PackAttitude(turn, a) ==
  Signed(a.pitch * turn * turn * 4, turn * turn * turn * 4) + a.roll * turn * 4 + a.heading * 4

\* hash >> 22, hash >> 12 & 0x3ff, hash >> 2 & 0x3ff.
UnpackAttitude(turn, hash) ==
  [pitch   |-> hash \div (turn * turn * 4),
   roll    |-> (hash \div (turn * 4)) % turn,
   heading |-> (hash \div 4) % turn]
=============================================================================
