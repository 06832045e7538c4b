-------------------------- MODULE MCPacketProcessor --------------------------
(* Packets of each kind of framing, with numbers, texts and a script.  Where  *)
(* a payload may be anything it is ids of packets and sizes, so that a byte   *)
(* read in the wrong place shows.                                             *)
EXTENDS PacketProcessor

Pkt(i, bytes) == [id |-> i, payload |-> bytes]

Pong          == Pkt(4, <<>>)
Title         == Pkt(7, <<4, 9, 0>>)                 \* an index and a text, here empty
TempData      == Pkt(14, <<115, 0, 0, 0, 4, 9, 4>>)  \* "s", an empty text, the script's number
Disconnect    == Pkt(9, <<4>>)                       \* a number, and no size byte

PoliteClient  == {Pong, Title, TempData, Disconnect}
OverlapClient == {TempData}

\* What the theorems of PacketProcessorProofs ask of a client.
ASSUME Polite == \A p \in PoliteClient : WellFormed(p)

-----------------------------------------------------------------------------
(* Every packet but ClientMode can be sent as its handler wants it; a payload *)
(* that is too short, too long or without its last NUL is not.                *)

Bytes8 == <<1, 2, 3, 4, 5, 6, 7, 8>>
Word   == <<65, 0>>
Three  == Word \o Word \o Word
Pos    == Bytes8 \o Bytes8

ASSUME EachCanBeSent ==
  /\ WellFormed(Pkt(1, Pos \o Bytes8 \o <<1, 2>> \o Bytes8))
  /\ WellFormed(Pkt(2, Word)) /\ WellFormed(Pkt(3, Pos)) /\ WellFormed(Pkt(4, <<>>))
  /\ WellFormed(Pkt(5, <<0, 1, 0>> \o Bytes8))
  /\ WellFormed(Pkt(6, Word \o <<1, 2, 3>> \o Word))
  /\ WellFormed(Pkt(7, <<0, 1>> \o Word)) /\ WellFormed(Pkt(9, <<1>>))
  /\ WellFormed(Pkt(10, <<0, 1, 0, 1, 1>> \o Three \o Three \o Three))
  /\ WellFormed(Pkt(11, <<1, 2, 3, 4>>)) /\ WellFormed(Pkt(12, Word \o Word))
  /\ WellFormed(Pkt(13, <<1, 2, 3, 4, 5, 6, 7>>))
  /\ WellFormed(Pkt(14, <<108, 105, 115, 0>> \o Word \o <<1, 2, 3, 4>> \o Bytes8
                          \o <<1, 2, 3, 4>>))
  /\ LET hello(type) == <<1, 2, 3, 4>> \o Three \o Word \o Pos \o Bytes8
                           \o <<1, 2, type, 1, 2, 3, 4, 5, 6>>
     IN  /\ WellFormed(Pkt(45, hello(0) \o <<1, 2>>))
         /\ WellFormed(Pkt(45, hello(1) \o <<1>> \o Word \o Word \o <<2>> \o Bytes8))
         /\ ~WellFormed(Pkt(45, hello(1) \o <<1, 2>>))

ASSUME NoOtherCan ==
  /\ ~WellFormed(Pkt(8, <<1, 2, 3>>)) /\ ~WellFormed(Pkt(1, Pos)) /\ ~WellFormed(Pkt(3, Pos \o <<1>>))
  /\ ~WellFormed(Pkt(7, <<4, 9>>)) /\ ~WellFormed(Pkt(7, <<0, 1, 65>>)) /\ ~WellFormed(Pkt(14, <<4>>))
  /\ ~WellFormed(Pkt(12, Word \o <<65>>)) /\ ~WellFormed(Pkt(2, Word \o <<1>>))

-----------------------------------------------------------------------------
(* What is proved of Codec, on the corners of bytes and on small turns.      *)

Corners == {0, 1, 127, 128, 254, 255}

ASSUME ThreeBytes ==
  \A a, b, c \in Corners :
    LET n == read3Byte(<<a, b, c>>)
    IN  write_3byte(n) = <<a, b, c>> /\ read_int(write_int(n)) = n

ASSUME AttitudesOfSmallTurns ==
  \A turn \in {2, 4, 8} : \A a \in Attitudes(turn, -(turn \div 2)..(turn - 1)) :
    UnpackAttitude(turn, PackAttitude(turn, a)) = [a EXCEPT !.pitch = Signed(@, turn)]
=============================================================================
