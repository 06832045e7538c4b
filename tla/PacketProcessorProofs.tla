------------------------ MODULE PacketProcessorProofs ------------------------
(***************************************************************************)
(* First what the codec does: what is read is what was written, and what is *)
(* forwarded is what was read; and what FlattenSeq does, which puts the     *)
(* bytes of packets behind each other.                                      *)
(*                                                                          *)
(* Then one connection's input, for any number and any kinds of packets,    *)
(* and whatever the chunks in which their bytes arrive.                     *)
(*                                                                          *)
(* Two things are asked.  One worker at a time polls the socket: the timer  *)
(* does not see to it, and the run overlapping_polls shows what happens     *)
(* when two do.  And the client sends packets of the table, whose sizes are *)
(* true and whose fields, as their handlers read them, fill the payload.    *)
(***************************************************************************)
EXTENDS PacketProcessor, SequenceTheorems, WellFoundedInduction, TLAPS

-----------------------------------------------------------------------------
(* Digits: a number and its last byte.                                      *)

LEMMA LastByte ==
  ASSUME NEW q \in Int, NEW r \in Byte
  PROVE  (256 * q + r) \div 256 = q /\ (256 * q + r) % 256 = r
  BY SMT DEF Byte

LEMMA SplitByte ==
  ASSUME NEW n \in Int
  PROVE  n \div 256 \in Int /\ n % 256 \in Byte /\ n = 256 * (n \div 256) + (n % 256)
  BY SMT DEF Byte

LEMMA ShiftTwice ==
  ASSUME NEW n \in Int
  PROVE  /\ n \div 65536 = (n \div 256) \div 256
         /\ n \div 16777216 = ((n \div 256) \div 256) \div 256
  BY SMT

LEMMA ByteIsShort ==
  ASSUME NEW n \in Byte
  PROVE  n \in Short
<1>1. n \in Nat /\ n <= 255
  BY DEF Byte
<1> QED
  BY <1>1, SMT DEF Short

LEMMA SignedByte ==
  ASSUME NEW n \in Int, -128 <= n, n <= 127
  PROVE  Signed(n % 256, 256) = n
<1>1. CASE n >= 0
  <2>1. n % 256 = n
    BY <1>1, SMT
  <2> QED
    BY <1>1, <2>1, SMT DEF Signed
<1>2. CASE n < 0
  <2>1. n % 256 = n + 256
    BY <1>2, SMT
  <2>2. (n + 256) % 256 = n + 256
    BY <1>2, SMT
  <2> QED
    BY <1>2, <2>1, <2>2, SMT DEF Signed
<1> QED
  BY <1>1, <1>2, SMT

-----------------------------------------------------------------------------
\* A size or an index survives the wire.
THEOREM ShortRoundTrip ==
  ASSUME NEW n \in Short
  PROVE  read_unsigned_short(write_short(n)) = n
<1>0. n \in Int /\ 0 <= n /\ n <= 65535
  BY SMT DEF Short
<1>1. n \div 256 \in Byte
  BY <1>0, SMT DEF Byte
<1>2. (n \div 256) % 256 = n \div 256
  BY <1>1, SMT DEF Byte
<1> QED
  BY <1>0, <1>1, <1>2, SplitByte, SMT DEF read_unsigned_short, write_short, Byte

\* The server forwards the bytes of a frequency as it got them, those of negative ones
\* included: the subtraction of read3Byte does not reach the low 24 bits.
THEOREM ThreeByteForwarded ==
  ASSUME NEW a \in Byte, NEW b \in Byte, NEW c \in Byte
  PROVE  write_3byte(read3Byte(<<a, b, c>>)) = <<a, b, c>>
<1> DEFINE number(top) == 256 * (256 * top + b) + c
<1>1. PICK top \in {a, a - 256} : read3Byte(<<a, b, c>>) = number(top)
  BY SMT DEF read3Byte, Byte
<1>2. top \in Int /\ top % 256 = a
  BY SMT DEF Byte
<1>3. 256 * top + b \in Int /\ b \in Int
  BY <1>2, SMT DEF Byte
<1>4. number(top) % 256 = c /\ number(top) \div 256 = 256 * top + b
  BY <1>3, LastByte, SMT
<1>5. (256 * top + b) % 256 = b /\ (256 * top + b) \div 256 = top
  BY <1>2, LastByte, SMT
<1>6. number(top) \div 65536 = top
  BY <1>3, <1>4, <1>5, ShiftTwice, SMT DEF Byte
<1> QED
  BY <1>1, <1>2, <1>4, <1>5, <1>6, SMT DEF write_3byte

\* send_prim_freq writes the int that read3Byte made of a frequency in four bytes: none of
\* it is lost.
THEOREM IntRoundTrip ==
  ASSUME NEW n \in Int, -2147483648 <= n, n <= 2147483647
  PROVE  read_int(write_int(n)) = n
<1>1. PICK n1 \in Int : n1 = n \div 256
  BY SMT
<1>2. PICK n2 \in Int : n2 = n1 \div 256
  BY SMT
<1>3. PICK n3 \in Int : n3 = n2 \div 256
  BY SMT
<1>4. /\ n = 256 * n1 + (n % 256) /\ n % 256 \in Byte
      /\ n1 = 256 * n2 + (n1 % 256) /\ n1 % 256 \in Byte
      /\ n2 = 256 * n3 + (n2 % 256) /\ n2 % 256 \in Byte
  BY <1>1, <1>2, <1>3, SplitByte, SMT
<1>5. -128 <= n3 /\ n3 <= 127
  BY <1>4, SMT DEF Byte
<1>6. Signed(n3 % 256, 256) = n3
  BY <1>5, SignedByte, SMT
<1>7. write_int(n) = <<n3 % 256, n2 % 256, n1 % 256, n % 256>>
  BY <1>1, <1>2, <1>3, ShiftTwice, SMT DEF write_int
<1>8. read_int(write_int(n)) = 16777216 * n3 + 65536 * (n2 % 256) + 256 * (n1 % 256) + (n % 256)
  BY <1>6, <1>7, SMT DEF read_int
<1> QED
  BY <1>4, <1>8, SMT DEF Byte

-----------------------------------------------------------------------------
(* Attitudes: an int that does not fit wraps around once.                   *)

LEMMA WrapOnce ==
  ASSUME NEW n \in Int, -2147483648 <= n, n < 4294967296
  PROVE  Signed(n, 4294967296) = IF n < 2147483648 THEN n ELSE n - 4294967296
<1>1. n % 4294967296 = IF n < 0 THEN n + 4294967296 ELSE n
  <2>1. CASE n >= 0
    BY <2>1, SMT
  <2>2. CASE n < 0
    BY <2>2, SMT
  <2> QED
    BY <2>1, <2>2, SMT
<1> QED
  BY <1>1, SMT DEF Signed

LEMMA HalfTurn ==
  ASSUME NEW p \in Int, -512 <= p, p <= 1023
  PROVE  Signed(p, 1024) = IF p < 512 THEN p ELSE p - 1024
<1>1. p % 1024 = IF p < 0 THEN p + 1024 ELSE p
  <2>1. CASE p >= 0
    BY <2>1, SMT
  <2>2. CASE p < 0
    BY <2>2, SMT
  <2> QED
    BY <2>1, <2>2, SMT
<1> QED
  BY <1>1, SMT DEF Signed

LEMMA AttitudeParts ==
  ASSUME NEW q \in Int, NEW r \in Int, NEW h \in Int, 0 <= r, r < 1024, 0 <= h, h < 1024,
         NEW hash \in Int, hash = 4194304 * q + 4096 * r + 4 * h
  PROVE  hash \div 4194304 = q /\ (hash \div 4096) % 1024 = r /\ (hash \div 4) % 1024 = h
<1>1. hash \div 4194304 = q
  BY SMT
<1>2. hash \div 4096 = 1024 * q + r
  BY SMT
<1>3. (1024 * q + r) % 1024 = r
  BY SMT
<1>4. hash \div 4 = 1024 * (1024 * q + r) + h
  BY SMT
<1>5. (1024 * (1024 * q + r) + h) % 1024 = h
  BY SMT
<1> QED
  BY <1>1, <1>2, <1>3, <1>4, <1>5, SMT

\* The parts of an attitude do not run into each other, and the pitch is forwarded up to a
\* full turn: 512 parts and more become negative ones in the int of send_pilot_update
\* (outgoing_packets.cpp:108-110) and create_client.
THEOREM AttitudeForwarded ==
  ASSUME NEW p \in Int, -512 <= p, p <= 1023,
         NEW r \in Int, 0 <= r, r < 1024, NEW h \in Int, 0 <= h, h < 1024
  PROVE  UnpackAttitude(1024, PackAttitude(1024, [pitch |-> p, roll |-> r, heading |-> h])) =
           [pitch |-> Signed(p, 1024), roll |-> r, heading |-> h]
<1> DEFINE q    == Signed(p, 1024)
           hash == PackAttitude(1024, [pitch |-> p, roll |-> r, heading |-> h])
<1>1. q \in Int /\ 4194304 * q = IF p < 512 THEN 4194304 * p ELSE 4194304 * p - 4294967296
  BY HalfTurn, SMT
<1>2. Signed(4194304 * p, 4294967296) = 4194304 * q
  BY <1>1, WrapOnce, SMT
<1>3. p * 1024 * 1024 * 4 = 4194304 * p /\ 1024 * 1024 * 1024 * 4 = 4294967296
  BY SMT
<1>4. hash = 4194304 * q + 4096 * r + 4 * h
  BY <1>2, <1>3, SMT DEF PackAttitude
<1> HIDE DEF q, hash
<1>5. hash \in Int
  BY <1>1, <1>4, SMT
<1>6. hash \div 4194304 = q /\ (hash \div 4096) % 1024 = r /\ (hash \div 4) % 1024 = h
  BY <1>1, <1>4, <1>5, AttitudeParts, SMT
<1>7. UnpackAttitude(1024, hash) = [pitch |-> q, roll |-> r, heading |-> h]
  BY <1>6, SMT DEF UnpackAttitude
<1> QED
  BY <1>7, SMT DEF q, hash
-----------------------------------------------------------------------------
\* Induction, for a set of numbers: the order of the numbers is well-founded.
LEMMA Induction ==
  ASSUME NEW S, 0 \in S, \A n \in Nat : n \in S => n + 1 \in S
  PROVE  \A n \in Nat : n \in S
<1> SUFFICES ASSUME NEW m \in Nat, m \notin S PROVE FALSE
  OBVIOUS
<1> DEFINE T == Nat \ S
           R == OpToRel(<, Nat)
<1>1. IsWellFoundedOn(R, Nat)
  BY NatLessThanWellFounded
<1>2. T \subseteq Nat /\ T # {}
  OBVIOUS
<1>3. PICK n \in T : \A k \in T : <<k, n>> \notin R
  <2> HIDE DEF T, R
  <2> QED  BY <1>1, <1>2, WFMin
<1>4. n \in Nat /\ n # 0 /\ n - 1 \in T
  OBVIOUS
<1>5. <<n - 1, n>> \in R
  BY <1>4 DEF OpToRel
<1> QED
  BY <1>3, <1>4, <1>5

-----------------------------------------------------------------------------
(* FlattenSeq, which SequencesExt defines by a recursive function.  Such a   *)
(* function is the one chosen to satisfy its equation: that there is one,   *)
(* and only one, is shown by induction.                                     *)

\* The element i of f is the concatenation of the first i of ss.
Step(ss, f, i) == IF i = 1 THEN ss[i] ELSE f[i - 1] \o ss[i]
Joined(ss)     == CHOOSE f : f = [i \in 1..Len(ss) |-> Step(ss, f, i)]

LEMMA JoinedExist ==
  ASSUME NEW S, NEW ss \in Seq(Seq(S))
  PROVE  \A n \in Nat : n <= Len(ss) =>
           \E f \in [1..n -> Seq(S)] : \A i \in 1..n : f[i] = Step(ss, f, i)
<1> DEFINE Fits(f, n) == \A i \in 1..n : f[i] = Step(ss, f, i)
           Upto == {n \in Nat : n <= Len(ss) => \E f \in [1..n -> Seq(S)] : Fits(f, n)}
<1>1. 0 \in Upto
  <2>1. [i \in 1..0 |-> <<>>] \in [1..0 -> Seq(S)]
    OBVIOUS
  <2>2. Fits([i \in 1..0 |-> <<>>], 0)
    OBVIOUS
  <2> HIDE DEF Fits
  <2> QED
    BY <2>1, <2>2
<1>2. ASSUME NEW n \in Nat, n \in Upto, n + 1 <= Len(ss)
      PROVE  \E f \in [1..n + 1 -> Seq(S)] : Fits(f, n + 1)
  <2>1. Len(ss) \in Nat
    OBVIOUS
  <2>2. PICK g \in [1..n -> Seq(S)] : Fits(g, n)
    <3>1. n <= Len(ss)
      BY <1>2, <2>1
    <3> HIDE DEF Fits
    <3> QED
      BY <1>2, <3>1
  <2>3. PICK s : s = Step(ss, g, n + 1)
    OBVIOUS
  <2>4. s \in Seq(S)
    <3>1. ss[n + 1] \in Seq(S)
      BY <1>2, <2>1
    <3>2. CASE n = 0
      BY <2>3, <3>1, <3>2 DEF Step
    <3>3. CASE n # 0
      <4>1. g[n] \in Seq(S)
        BY <2>2, <3>3
      <4>2. n + 1 # 1 /\ (n + 1) - 1 = n
        BY <3>3
      <4>3. s = g[n] \o ss[n + 1]
        BY <2>3, <4>2 DEF Step
      <4> QED
        BY <3>1, <4>1, <4>3, ConcatProperties
    <3> QED
      BY <3>2, <3>3
  <2> DEFINE f == [i \in 1..n + 1 |-> IF i = n + 1 THEN s ELSE g[i]]
  <2>5. f \in [1..n + 1 -> Seq(S)]
    BY <2>4
  <2>6. ASSUME NEW i \in 1..n + 1
        PROVE  f[i] = Step(ss, f, i)
    <3>1. i # 1 => f[i - 1] = g[i - 1]
      OBVIOUS
    <3>2. Step(ss, f, i) = Step(ss, g, i)
      BY <3>1 DEF Step
    <3>3. i # n + 1 => i \in 1..n /\ f[i] = g[i]
      OBVIOUS
    <3>4. i = n + 1 => f[i] = s
      OBVIOUS
    <3> HIDE DEF f
    <3> QED
      BY <2>2, <2>3, <3>2, <3>3, <3>4
  <2> HIDE DEF f
  <2> QED
    BY <2>5, <2>6
<1>3. \A n \in Nat : n \in Upto => n + 1 \in Upto
  <2> HIDE DEF Fits
  <2> QED
    BY <1>2
<1>4. \A n \in Nat : n \in Upto
  <2> HIDE DEF Upto
  <2> QED
    BY <1>1, <1>3, Induction
<1> QED
  BY <1>4

LEMMA JoinedAre ==
  ASSUME NEW S, NEW ss \in Seq(Seq(S))
  PROVE  /\ \A i \in 1..Len(ss) : Joined(ss)[i] = Step(ss, Joined(ss), i)
         /\ \A i \in 1..Len(ss) : Joined(ss)[i] \in Seq(S)
<1>1. PICK f \in [1..Len(ss) -> Seq(S)] : \A i \in 1..Len(ss) : f[i] = Step(ss, f, i)
  <2>1. Len(ss) \in Nat /\ Len(ss) <= Len(ss)
    OBVIOUS
  <2> QED
    BY <2>1, JoinedExist
<1>2. f = [i \in 1..Len(ss) |-> Step(ss, f, i)]
  BY <1>1
<1>3. Joined(ss) = [i \in 1..Len(ss) |-> Step(ss, Joined(ss), i)]
  BY <1>2 DEF Joined
<1>4. \A i \in 1..Len(ss) : Joined(ss)[i] = Step(ss, Joined(ss), i)
  <2> PICK p : p = Joined(ss)
    OBVIOUS
  <2> QED
    BY <1>3
<1> DEFINE Same == {n \in Nat : n + 1 <= Len(ss) => Joined(ss)[n + 1] = f[n + 1]}
<1>5. 0 \in Same
  <2> SUFFICES ASSUME 1 \in 1..Len(ss) PROVE Joined(ss)[1] = f[1]
    OBVIOUS
  <2> QED
    BY <1>1, <1>4 DEF Step
<1>6. ASSUME NEW n \in Nat, n \in Same PROVE n + 1 \in Same
  <2> SUFFICES ASSUME n + 2 <= Len(ss) PROVE Joined(ss)[n + 2] = f[n + 2]
    OBVIOUS
  <2>1. n + 1 \in 1..Len(ss) /\ n + 2 \in 1..Len(ss) /\ n + 2 # 1 /\ (n + 2) - 1 = n + 1
    OBVIOUS
  <2>2. Joined(ss)[n + 1] = f[n + 1]
    BY <1>6, <2>1
  <2>3. Step(ss, Joined(ss), n + 2) = Step(ss, f, n + 2)
    BY <2>1, <2>2 DEF Step
  <2> QED
    BY <1>1, <1>4, <2>1, <2>3
<1>7. \A n \in Nat : n \in Same
  <2> HIDE DEF Same
  <2> QED
    BY <1>5, <1>6, Induction
<1>8. ASSUME NEW i \in 1..Len(ss) PROVE Joined(ss)[i] = f[i]
  <2>1. i - 1 \in Nat /\ (i - 1) + 1 = i /\ i <= Len(ss)
    OBVIOUS
  <2> QED
    BY <1>7, <2>1
<1> QED
  BY <1>4, <1>8

LEMMA FlattenValue ==
  ASSUME NEW S, NEW ss \in Seq(Seq(S))
  PROVE  /\ FlattenSeq(ss) = IF ss = <<>> THEN <<>> ELSE Joined(ss)[Len(ss)]
         /\ FlattenSeq(ss) \in Seq(S)
<1>1. FlattenSeq(ss) = IF Len(ss) = 0 THEN ss ELSE Joined(ss)[Len(ss)]
  BY DEF FlattenSeq, Joined, Step
<1>2. Len(ss) \in Nat /\ (Len(ss) = 0 <=> ss = <<>>)
  BY EmptySeq
<1> QED
  BY <1>1, <1>2, JoinedAre

LEMMA FlattenAppend ==
  ASSUME NEW S, NEW ss \in Seq(Seq(S)), NEW s \in Seq(S)
  PROVE  FlattenSeq(Append(ss, s)) = FlattenSeq(ss) \o s
<1>1. PICK tt \in Seq(Seq(S)) : tt = Append(ss, s)
  BY AppendProperties
<1>2. /\ Len(tt) = Len(ss) + 1 /\ tt[Len(ss) + 1] = s /\ tt # <<>> /\ Len(ss) \in Nat
      /\ \A i \in 1..Len(ss) : tt[i] = ss[i]
  BY <1>1, AppendProperties
<1>3. /\ \A i \in 1..Len(ss) : Joined(ss)[i] = Step(ss, Joined(ss), i)
      /\ \A i \in 1..Len(tt) : Joined(tt)[i] = Step(tt, Joined(tt), i)
  BY JoinedAre
<1> DEFINE Same == {n \in Nat : n + 1 <= Len(ss) => Joined(tt)[n + 1] = Joined(ss)[n + 1]}
<1>5. 0 \in Same
  BY <1>2, <1>3 DEF Step
<1>6. ASSUME NEW n \in Nat, n \in Same PROVE n + 1 \in Same
  <2> SUFFICES ASSUME n + 2 <= Len(ss) PROVE Joined(tt)[n + 2] = Joined(ss)[n + 2]
    OBVIOUS
  <2>1. /\ n + 1 \in 1..Len(ss) /\ n + 2 \in 1..Len(ss) /\ n + 2 \in 1..Len(tt)
        /\ n + 2 # 1 /\ (n + 2) - 1 = n + 1
    BY <1>2
  <2>2. Joined(tt)[n + 1] = Joined(ss)[n + 1]
    BY <1>6, <2>1
  <2>3. Step(ss, Joined(ss), n + 2) = Step(tt, Joined(tt), n + 2)
    BY <1>2, <2>1, <2>2 DEF Step
  <2> QED
    BY <1>3, <2>1, <2>3
<1>7. \A n \in Nat : n \in Same
  <2> HIDE DEF Same
  <2> QED
    BY <1>5, <1>6, Induction
<1>8. CASE ss = <<>>
  <2>1. Len(ss) = 0 /\ Len(tt) = 1
    BY <1>2, <1>8
  <2>2. Joined(tt)[1] = s
    BY <1>2, <1>3, <2>1 DEF Step
  <2>4. FlattenSeq(tt) = s
    BY <1>2, <2>1, <2>2, FlattenValue
  <2>3. FlattenSeq(ss) = <<>>
    BY <1>8, FlattenValue
  <2> QED
    BY <1>1, <2>3, <2>4, ConcatEmptySeq
<1>9. CASE ss # <<>>
  <2>1. Len(ss) \in Nat \ {0}
    BY <1>9, EmptySeq
  <2>2. Len(ss) - 1 \in Nat /\ (Len(ss) - 1) + 1 = Len(ss)
    BY <2>1
  <2>3. Joined(tt)[Len(ss)] = Joined(ss)[Len(ss)]
    <3> PICK n \in Nat : n = Len(ss) - 1
      BY <2>2
    <3>1. n + 1 = Len(ss) /\ n + 1 <= Len(ss)
      BY <2>2
    <3>2. n \in Same
      BY <1>7
    <3> QED
      BY <3>1, <3>2
  <2>4. Joined(tt)[Len(tt)] = Joined(tt)[Len(ss)] \o s
    <3>1. Len(tt) \in 1..Len(tt) /\ Len(tt) # 1 /\ Len(tt) - 1 = Len(ss) /\ tt[Len(tt)] = s
      BY <1>2, <2>1
    <3> QED
      BY <1>3, <3>1 DEF Step
  <2> QED
    BY <1>1, <1>2, <1>9, <2>3, <2>4, FlattenValue
<1> QED
  BY <1>8, <1>9

LEMMA FlattenConcat ==
  ASSUME NEW S, NEW ss \in Seq(Seq(S)), NEW tt \in Seq(Seq(S))
  PROVE  FlattenSeq(ss \o tt) = FlattenSeq(ss) \o FlattenSeq(tt)
<1> DEFINE Concats(u) == FlattenSeq(ss \o u) = FlattenSeq(ss) \o FlattenSeq(u)
           Upto == {n \in Nat : \A u \in Seq(Seq(S)) : Len(u) = n => Concats(u)}
<1>1. 0 \in Upto
  <2> SUFFICES ASSUME NEW u \in Seq(Seq(S)), Len(u) = 0 PROVE Concats(u)
    OBVIOUS
  <2>1. u = <<>> /\ FlattenSeq(u) = <<>> /\ FlattenSeq(ss) \in Seq(S)
    BY EmptySeq, FlattenValue
  <2> QED
    BY <2>1, ConcatEmptySeq
<1>2. ASSUME NEW n \in Nat, n \in Upto, NEW u \in Seq(Seq(S)), Len(u) = n + 1
      PROVE  Concats(u)
  <2>1. PICK v \in Seq(Seq(S)), s \in Seq(S) : u = Append(v, s)
    <3>1. u # <<>>
      BY <1>2, EmptySeq
    <3> QED
      BY <3>1, SequenceEmptyOrAppend
  <2>2. Len(v) = n
    BY <1>2, <2>1
  <2>3. FlattenSeq(ss \o v) = FlattenSeq(ss) \o FlattenSeq(v)
    BY <1>2, <2>2
  <2>4. ss \o v \in Seq(Seq(S)) /\ ss \o u = Append(ss \o v, s)
    BY <2>1
  <2>5. FlattenSeq(ss \o u) = (FlattenSeq(ss) \o FlattenSeq(v)) \o s
    BY <2>3, <2>4, FlattenAppend
  <2>6. FlattenSeq(u) = FlattenSeq(v) \o s
    BY <2>1, FlattenAppend
  <2>7. FlattenSeq(ss) \in Seq(S) /\ FlattenSeq(v) \in Seq(S)
    BY FlattenValue
  <2>8. (FlattenSeq(ss) \o FlattenSeq(v)) \o s = FlattenSeq(ss) \o (FlattenSeq(v) \o s)
    BY <2>1, <2>7, ConcatAssociative
  <2> QED
    BY <2>5, <2>6, <2>8
<1>3. ASSUME NEW n \in Nat, n \in Upto PROVE n + 1 \in Upto
  <2>1. \A u \in Seq(Seq(S)) : Len(u) = n + 1 => Concats(u)
    <3> HIDE DEF Upto, Concats
    <3> QED
      BY <1>2, <1>3
  <2> HIDE DEF Concats
  <2> QED
    BY <2>1
<1>4. Len(tt) \in Nat
  OBVIOUS
<1>5. Len(tt) \in Upto
  <2> HIDE DEF Upto
  <2> QED
    BY <1>1, <1>3, <1>4, Induction
<1> QED
  BY <1>5

-----------------------------------------------------------------------------
(* Connections.                                                             *)

OneAtATime == \A w, x \in Workers : w = x
AllWellFormed == \A p \in Packets : WellFormed(p)

-----------------------------------------------------------------------------
(* What a handler reads.  It reads the same whatever follows, if it stays   *)
(* within the payload when a byte follows that ends no text.                *)

\* The ends of the fields: AfterFields unfolds to the last of them.
NextEnd(bs, from, fields, f, n) ==
  IF n = 0 THEN from ELSE AfterField(bs, f[n - 1], fields[n])
FieldEnds(bs, from, fields) ==
  CHOOSE f : f = [n \in 0..Len(fields) |-> NextEnd(bs, from, fields, f, n)]

LEMMA Least ==
  ASSUME NEW T, T \subseteq Nat, T # {}
  PROVE  \E k \in T : \A l \in T : k <= l
<1> DEFINE R == OpToRel(<, Nat)
<1>1. IsWellFoundedOn(R, Nat)
  BY NatLessThanWellFounded
<1>2. PICK k \in T : \A l \in T : <<l, k>> \notin R
  <2> HIDE DEF R
  <2> QED  BY <1>1, WFMin
<1>3. \A l \in T : k <= l
  <2> SUFFICES ASSUME NEW l \in T, ~(k <= l) PROVE FALSE
    OBVIOUS
  <2>1. l < k /\ l \in Nat /\ k \in Nat
    OBVIOUS
  <2>2. <<l, k>> \in R
    BY <2>1 DEF OpToRel
  <2> QED
    BY <1>2, <2>2
<1> QED
  BY <1>3

\* A text ends at the first NUL, or with the stream.
LEMMA TextEnds ==
  ASSUME NEW bs \in Seq(Byte), NEW x \in Nat, x < Len(bs)
  PROVE  /\ AfterText(bs, x) \in (x + 1)..Len(bs)
         /\ \/ AfterText(bs, x) = Len(bs) /\ \A k \in (x + 1)..Len(bs) : bs[k] # 0
            \/ /\ bs[AfterText(bs, x)] = 0
               /\ \A k \in (x + 1)..Len(bs) : bs[k] = 0 => AfterText(bs, x) <= k
<1> DEFINE nuls == {k \in (x + 1)..Len(bs) : bs[k] = 0}
<1>0. Len(bs) \in Nat
  OBVIOUS
<1>1. CASE nuls = {}
  <2>1. AfterText(bs, x) = Len(bs)
    BY <1>1 DEF AfterText
  <2>2. \A k \in (x + 1)..Len(bs) : bs[k] # 0
    BY <1>1
  <2> QED
    BY <1>0, <2>1, <2>2
<1>2. CASE nuls # {}
  <2>1. AfterText(bs, x) = CHOOSE k \in nuls : \A l \in nuls : k <= l
    BY <1>2 DEF AfterText
  <2>2. \E k \in nuls : \A l \in nuls : k <= l
    <3>1. nuls \subseteq Nat
      BY <1>0
    <3> HIDE DEF nuls
    <3> QED
      BY <1>2, <3>1, Least
  <2>3. AfterText(bs, x) \in nuls /\ \A l \in nuls : AfterText(bs, x) <= l
    <3> HIDE DEF nuls
    <3> QED
      BY <2>1, <2>2
  <2> QED
    BY <2>3
<1> QED
  BY <1>1, <1>2

\* A field takes a byte at least.
LEMMA FieldGrows ==
  ASSUME NEW bs \in Seq(Byte), NEW x \in Nat, NEW f \in Nat
  PROVE  AfterField(bs, x, f) \in Nat /\ AfterField(bs, x, f) > x
<1>0. Len(bs) \in Nat
  OBVIOUS
<1>1. CASE f # Text
  <2>1. f \in Nat /\ f # 0
    BY <1>1 DEF Text
  <2>2. AfterField(bs, x, f) = x + f
    BY <1>1 DEF AfterField
  <2> QED
    BY <2>1, <2>2
<1>2. CASE f = Text /\ x < Len(bs)
  <2>1. AfterField(bs, x, f) = AfterText(bs, x)
    BY <1>2 DEF AfterField
  <2>2. AfterText(bs, x) \in (x + 1)..Len(bs)
    BY <1>2, TextEnds
  <2> QED
    BY <1>0, <2>1, <2>2
<1>3. CASE f = Text /\ ~(x < Len(bs))
  BY <1>3 DEF AfterField
<1> QED
  BY <1>1, <1>2, <1>3

LEMMA FieldEndsExist ==
  ASSUME NEW bs \in Seq(Byte), NEW x \in Nat, NEW fs \in Seq(Nat)
  PROVE  \A n \in Nat : n <= Len(fs) =>
           \E f \in [0..n -> Nat] : \A i \in 0..n : f[i] = NextEnd(bs, x, fs, f, i)
<1> DEFINE Fits(f, n) == \A i \in 0..n : f[i] = NextEnd(bs, x, fs, f, i)
           Upto == {n \in Nat : n <= Len(fs) => \E f \in [0..n -> Nat] : Fits(f, n)}
<1>1. 0 \in Upto
  <2> DEFINE f == [i \in 0..0 |-> x]
  <2>1. f \in [0..0 -> Nat] /\ \A i \in 0..0 : i = 0 /\ f[i] = x
    OBVIOUS
  <2>2. Fits(f, 0)
    BY <2>1 DEF NextEnd
  <2> HIDE DEF Fits, f
  <2> QED
    BY <2>1, <2>2
<1>2. ASSUME NEW n \in Nat, n \in Upto, n + 1 <= Len(fs)
      PROVE  \E f \in [0..n + 1 -> Nat] : Fits(f, n + 1)
  <2>1. Len(fs) \in Nat /\ n <= Len(fs) /\ n + 1 \in 1..Len(fs)
    BY <1>2
  <2>2. PICK g \in [0..n -> Nat] : Fits(g, n)
    <3> HIDE DEF Fits
    <3> QED
      BY <1>2, <2>1
  <2>3. PICK s : s = NextEnd(bs, x, fs, g, n + 1)
    OBVIOUS
  <2>4. s \in Nat
    <3>1. g[n] \in Nat /\ fs[n + 1] \in Nat
      BY <2>1, <2>2
    <3>2. s = AfterField(bs, g[n], fs[n + 1])
      <4>1. n + 1 # 0 /\ (n + 1) - 1 = n
        OBVIOUS
      <4> QED
        BY <2>3, <4>1 DEF NextEnd
    <3> QED
      BY <3>1, <3>2, FieldGrows
  <2> DEFINE f == [i \in 0..n + 1 |-> IF i = n + 1 THEN s ELSE g[i]]
  <2>5. f \in [0..n + 1 -> Nat]
    BY <2>4
  <2>6. ASSUME NEW i \in 0..n + 1
        PROVE  f[i] = NextEnd(bs, x, fs, f, i)
    <3>1. i # 0 => f[i - 1] = g[i - 1]
      OBVIOUS
    <3>2. NextEnd(bs, x, fs, f, i) = NextEnd(bs, x, fs, g, i)
      BY <3>1 DEF NextEnd
    <3>3. i # n + 1 => i \in 0..n /\ f[i] = g[i]
      OBVIOUS
    <3>4. i = n + 1 => f[i] = s
      OBVIOUS
    <3> HIDE DEF f
    <3> QED
      BY <2>2, <2>3, <3>2, <3>3, <3>4
  <2> HIDE DEF f
  <2> QED
    BY <2>5, <2>6
<1>3. ASSUME NEW n \in Nat, n \in Upto PROVE n + 1 \in Upto
  <2>1. n + 1 <= Len(fs) => \E f \in [0..n + 1 -> Nat] : Fits(f, n + 1)
    <3> HIDE DEF Fits, Upto
    <3> QED
      BY <1>2, <1>3
  <2> HIDE DEF Fits
  <2> QED
    BY <2>1
<1>4. \A n \in Nat : n \in Upto
  <2> HIDE DEF Upto
  <2> QED
    BY <1>1, <1>3, Induction
<1> QED
  BY <1>4

LEMMA FieldEndsAre ==
  ASSUME NEW bs \in Seq(Byte), NEW x \in Nat, NEW fs \in Seq(Nat)
  PROVE  /\ AfterFields(bs, x, fs) = FieldEnds(bs, x, fs)[Len(fs)]
         /\ FieldEnds(bs, x, fs)[0] = x
         /\ \A n \in 1..Len(fs) :
              FieldEnds(bs, x, fs)[n] = AfterField(bs, FieldEnds(bs, x, fs)[n - 1], fs[n])
         /\ \A n \in 0..Len(fs) :
              FieldEnds(bs, x, fs)[n] \in Nat /\ FieldEnds(bs, x, fs)[n] >= x + n
<1>0. Len(fs) \in Nat
  OBVIOUS
<1> PICK e : e = FieldEnds(bs, x, fs)
  OBVIOUS
<1>1. PICK f \in [0..Len(fs) -> Nat] : \A i \in 0..Len(fs) : f[i] = NextEnd(bs, x, fs, f, i)
  <2>1. Len(fs) <= Len(fs)
    BY <1>0
  <2> QED
    BY <1>0, <2>1, FieldEndsExist
<1>2. f = [i \in 0..Len(fs) |-> NextEnd(bs, x, fs, f, i)]
  BY <1>1
<1>3. e = [i \in 0..Len(fs) |-> NextEnd(bs, x, fs, e, i)]
  <2>1. FieldEnds(bs, x, fs) = [i \in 0..Len(fs) |-> NextEnd(bs, x, fs, FieldEnds(bs, x, fs), i)]
    BY <1>2 DEF FieldEnds
  <2> QED
    BY <2>1
<1>4. \A i \in 0..Len(fs) : e[i] = NextEnd(bs, x, fs, e, i)
  BY <1>3
<1>5. AfterFields(bs, x, fs) = e[Len(fs)]
  BY DEF AfterFields, FieldEnds, NextEnd
<1>6. e[0] = x
  <2>1. 0 \in 0..Len(fs)
    BY <1>0
  <2> QED
    BY <1>4, <2>1 DEF NextEnd
<1>7. ASSUME NEW n \in 1..Len(fs) PROVE e[n] = AfterField(bs, e[n - 1], fs[n])
  <2>1. n \in 0..Len(fs) /\ n # 0
    OBVIOUS
  <2> QED
    BY <1>4, <2>1 DEF NextEnd
<1> DEFINE Grown == {n \in Nat : n <= Len(fs) => e[n] \in Nat /\ e[n] >= x + n}
<1>8. 0 \in Grown
  BY <1>6
<1>9. ASSUME NEW n \in Nat, n \in Grown PROVE n + 1 \in Grown
  <2> SUFFICES ASSUME n + 1 <= Len(fs) PROVE e[n + 1] \in Nat /\ e[n + 1] >= x + (n + 1)
    OBVIOUS
  <2>1. n + 1 \in 1..Len(fs) /\ n <= Len(fs) /\ (n + 1) - 1 = n /\ fs[n + 1] \in Nat
    BY <1>0
  <2>2. e[n] \in Nat /\ e[n] >= x + n
    BY <1>9, <2>1
  <2>3. e[n + 1] = AfterField(bs, e[n], fs[n + 1])
    BY <1>7, <2>1
  <2>4. e[n + 1] \in Nat /\ e[n + 1] > e[n]
    BY <2>1, <2>2, <2>3, FieldGrows
  <2> QED
    BY <2>2, <2>4
<1>10. \A n \in Nat : n \in Grown
  <2> HIDE DEF Grown
  <2> QED
    BY <1>8, <1>9, Induction
<1> QED
  BY <1>5, <1>6, <1>7, <1>10

\* What is read after all of them.
LEMMA FieldsGrow ==
  ASSUME NEW bs \in Seq(Byte), NEW x \in Nat, NEW fs \in Seq(Nat)
  PROVE  AfterFields(bs, x, fs) \in Nat /\ AfterFields(bs, x, fs) >= x + Len(fs)
<1> PICK n : n = Len(fs)
  OBVIOUS
<1>1. n \in 0..Len(fs)
  OBVIOUS
<1>2. FieldEnds(bs, x, fs)[n] \in Nat /\ FieldEnds(bs, x, fs)[n] >= x + n
  BY <1>1, FieldEndsAre
<1> QED
  BY <1>2, FieldEndsAre

\* Bytes of what was sent, whatever follows.
LEMMA Prefix ==
  ASSUME NEW s \in Seq(Byte), NEW r \in Seq(Byte)
  PROVE  /\ s \o r \in Seq(Byte) /\ Len(s \o r) = Len(s) + Len(r)
         /\ \A i \in 1..Len(s) : (s \o r)[i] = s[i]
  BY ConcatProperties

LEMMA OneMore ==
  ASSUME NEW s \in Seq(Byte)
  PROVE  /\ s \o <<1>> \in Seq(Byte) /\ Len(s \o <<1>>) = Len(s) + 1
         /\ \A i \in 1..Len(s) : (s \o <<1>>)[i] = s[i]
         /\ (s \o <<1>>)[Len(s) + 1] = 1
<1>1. 1 \in Byte
  BY SMT DEF Byte
<1>2. <<1>> \in Seq(Byte) /\ Len(<<1>>) = 1 /\ <<1>>[1] = 1
  BY <1>1
<1>3. /\ s \o <<1>> \in Seq(Byte) /\ Len(s \o <<1>>) = Len(s) + 1 /\ Len(s) \in Nat
      /\ \A i \in 1..Len(s) + 1 :
           (s \o <<1>>)[i] = IF i <= Len(s) THEN s[i] ELSE <<1>>[i - Len(s)]
  BY <1>2, ConcatProperties
<1>4. \A i \in 1..Len(s) : (s \o <<1>>)[i] = s[i]
  BY <1>3
<1>5. (s \o <<1>>)[Len(s) + 1] = 1
  <2> PICK k \in Nat : k = Len(s) + 1
    BY <1>3
  <2>1. k \in 1..Len(s) + 1 /\ ~(k <= Len(s)) /\ k - Len(s) = 1
    BY <1>3
  <2> QED
    BY <1>2, <1>3, <2>1
<1> QED
  BY <1>3, <1>4, <1>5

LEMMA FieldSame ==
  ASSUME NEW s \in Seq(Byte), NEW r \in Seq(Byte), NEW x \in Nat, NEW f \in Nat,
         AfterField(s \o << 1 >>, x, f) <= Len(s)
  PROVE  AfterField(s \o r, x, f) = AfterField(s \o << 1 >>, x, f)
<1> PICK a \in Seq(Byte), b \in Seq(Byte) : a = s \o <<1>> /\ b = s \o r
  BY OneMore, Prefix
<1> PICK m \in Nat : m = Len(s)
  OBVIOUS
<1>1. /\ Len(a) = m + 1 /\ a[m + 1] = 1 /\ Len(b) \in Nat /\ Len(b) >= m
      /\ \A i \in 1..m : a[i] = s[i] /\ b[i] = s[i]
  BY OneMore, Prefix
<1>2. AfterField(a, x, f) <= m /\ AfterField(a, x, f) > x /\ AfterField(a, x, f) \in Nat
  BY FieldGrows
<1>3. x < m
  BY <1>2
<1>4. CASE f # Text
  BY <1>4 DEF AfterField
<1>5. CASE f = Text
  <2>1. AfterField(a, x, f) = AfterText(a, x) /\ AfterField(b, x, f) = AfterText(b, x)
    BY <1>1, <1>3, <1>5 DEF AfterField
  <2> PICK i, j : i = AfterText(a, x) /\ j = AfterText(b, x)
    OBVIOUS
  <2>2. /\ i \in (x + 1)..(m + 1)
        /\ \/ i = m + 1 /\ \A k \in (x + 1)..(m + 1) : a[k] # 0
           \/ a[i] = 0 /\ \A k \in (x + 1)..(m + 1) : a[k] = 0 => i <= k
    <3>1. x < Len(a) /\ Len(a) = m + 1
      BY <1>1, <1>3
    <3>2. /\ AfterText(a, x) \in (x + 1)..Len(a)
          /\ \/ AfterText(a, x) = Len(a) /\ \A k \in (x + 1)..Len(a) : a[k] # 0
             \/ /\ a[AfterText(a, x)] = 0
                /\ \A k \in (x + 1)..Len(a) : a[k] = 0 => AfterText(a, x) <= k
      BY <3>1, TextEnds
    <3> QED
      BY <3>1, <3>2
  <2>3. i \in (x + 1)..m /\ a[i] = 0 /\ \A k \in (x + 1)..m : a[k] = 0 => i <= k
    BY <1>2, <2>1, <2>2
  <2>4. /\ j \in (x + 1)..Len(b)
        /\ \/ j = Len(b) /\ \A k \in (x + 1)..Len(b) : b[k] # 0
           \/ b[j] = 0 /\ \A k \in (x + 1)..Len(b) : b[k] = 0 => j <= k
    <3>1. x < Len(b)
      BY <1>1, <1>3
    <3>2. /\ AfterText(b, x) \in (x + 1)..Len(b)
          /\ \/ AfterText(b, x) = Len(b) /\ \A k \in (x + 1)..Len(b) : b[k] # 0
             \/ /\ b[AfterText(b, x)] = 0
                /\ \A k \in (x + 1)..Len(b) : b[k] = 0 => AfterText(b, x) <= k
      BY <3>1, TextEnds
    <3> QED
      BY <3>2
  <2>5. b[i] = 0 /\ i \in (x + 1)..Len(b)
    BY <1>1, <2>3
  <2>6. b[j] = 0 /\ j <= i
    BY <2>4, <2>5
  <2>7. a[j] = 0 /\ j \in (x + 1)..m
    BY <1>1, <2>3, <2>4, <2>6
  <2>8. i <= j
    BY <2>3, <2>7
  <2>9. i = j
    BY <2>3, <2>6, <2>7, <2>8
  <2> QED
    BY <2>1, <2>9
<1> QED
  BY <1>4, <1>5

LEMMA FieldsSame ==
  ASSUME NEW s \in Seq(Byte), NEW r \in Seq(Byte), NEW x \in Nat, NEW fs \in Seq(Nat),
         AfterFields(s \o << 1 >>, x, fs) <= Len(s)
  PROVE  AfterFields(s \o r, x, fs) = AfterFields(s \o << 1 >>, x, fs)
<1> PICK a \in Seq(Byte), b \in Seq(Byte) : a = s \o <<1>> /\ b = s \o r
  BY OneMore, Prefix
<1> PICK m \in Nat : m = Len(s)
  OBVIOUS
<1> PICK l \in Nat : l = Len(fs)
  OBVIOUS
<1> PICK e : e = FieldEnds(a, x, fs)
  OBVIOUS
<1> PICK g : g = FieldEnds(b, x, fs)
  OBVIOUS
<1>1. /\ AfterFields(a, x, fs) = e[l] /\ e[0] = x
      /\ \A n \in 1..l : e[n] = AfterField(a, e[n - 1], fs[n])
      /\ \A n \in 0..l : e[n] \in Nat /\ e[n] >= x + n
  <2>1. /\ AfterFields(a, x, fs) = FieldEnds(a, x, fs)[Len(fs)]
        /\ FieldEnds(a, x, fs)[0] = x
        /\ \A n \in 1..Len(fs) :
             FieldEnds(a, x, fs)[n] = AfterField(a, FieldEnds(a, x, fs)[n - 1], fs[n])
        /\ \A n \in 0..Len(fs) : FieldEnds(a, x, fs)[n] \in Nat /\ FieldEnds(a, x, fs)[n] >= x + n
    BY FieldEndsAre
  <2> QED
    BY <2>1
<1>2. /\ AfterFields(b, x, fs) = g[l] /\ g[0] = x
      /\ \A n \in 1..l : g[n] = AfterField(b, g[n - 1], fs[n])
  <2>1. /\ AfterFields(b, x, fs) = FieldEnds(b, x, fs)[Len(fs)]
        /\ FieldEnds(b, x, fs)[0] = x
        /\ \A n \in 1..Len(fs) :
             FieldEnds(b, x, fs)[n] = AfterField(b, FieldEnds(b, x, fs)[n - 1], fs[n])
    BY FieldEndsAre
  <2> QED
    BY <2>1
<1> DEFINE Same == {n \in Nat : n <= l /\ e[n] <= m => g[n] = e[n]}
<1>3. 0 \in Same
  BY <1>1, <1>2
<1>4. ASSUME NEW n \in Nat, n \in Same PROVE n + 1 \in Same
  <2> SUFFICES ASSUME n + 1 <= l, e[n + 1] <= m PROVE g[n + 1] = e[n + 1]
    OBVIOUS
  <2>1. n + 1 \in 1..l /\ n \in 0..l /\ n <= l /\ (n + 1) - 1 = n /\ fs[n + 1] \in Nat
    OBVIOUS
  <2>2. e[n] \in Nat /\ e[n + 1] = AfterField(a, e[n], fs[n + 1])
    BY <1>1, <2>1
  <2>3. g[n + 1] = AfterField(b, g[n], fs[n + 1])
    BY <1>2, <2>1
  <2>4. e[n + 1] > e[n] /\ e[n + 1] \in Nat
    <3> PICK y \in Nat, f \in Nat : y = e[n] /\ f = fs[n + 1]
      BY <2>1, <2>2
    <3>1. AfterField(a, y, f) > y /\ AfterField(a, y, f) \in Nat
      BY FieldGrows
    <3> QED
      BY <2>2, <3>1
  <2>5. g[n] = e[n]
    BY <1>4, <2>1, <2>2, <2>4
  <2>6. AfterField(b, e[n], fs[n + 1]) = AfterField(a, e[n], fs[n + 1])
    BY <2>1, <2>2, FieldSame
  <2> QED
    BY <2>2, <2>3, <2>5, <2>6
<1>5. \A n \in Nat : n \in Same
  <2> HIDE DEF Same
  <2> QED
    BY <1>3, <1>4, Induction
<1>6. l <= l /\ e[l] <= m
  BY <1>1
<1>7. g[l] = e[l]
  BY <1>5, <1>6
<1> QED
  BY <1>1, <1>2, <1>7

LEMMA FieldsType ==
  ASSUME NEW id \in Registered
  PROVE  Fields(id) \in Seq(Nat) /\ (id = 45 => Len(Fields(id)) = 12)
         /\ (id = 14 => Len(Fields(id)) = 1)
<1>1. Text \in Nat
  BY DEF Text
<1>2. ASSUME NEW i \in {1, 3, 5, 8, 9, 11, 13}, id = i
      PROVE  Fields(id) \in Seq(Nat)
  BY <1>2 DEF Fields
<1>3. Fields(4) \in Seq(Nat)
  <2>1. Fields(4) = <<>>
    BY DEF Fields
  <2>2. <<>> \in Seq(Nat)
    OBVIOUS
  <2> QED
    BY <2>1, <2>2
<1>4. Fields(45) \in Seq(Nat) /\ Len(Fields(45)) = 12
  <2>1. Fields(45) = <<4, Text, Text, Text, Text, 8, 8, 8, 2, 1, 3, 3>>
    BY DEF Fields
  <2> DEFINE t == <<4, Text, Text, Text, Text, 8, 8, 8, 2, 1, 3, 3>>
  <2>2. t \in Seq(Nat) /\ Len(t) = 12
    BY <1>1
  <2>3. Fields(45) = t
    BY <2>1
  <2> HIDE DEF t
  <2> QED
    BY <2>2, <2>3
<1>5. Fields(14) \in Seq(Nat) /\ Len(Fields(14)) = 1
  <2>1. Fields(14) = <<Text>>
    BY DEF Fields
  <2>2. <<Text>> \in Seq(Nat) /\ Len(<<Text>>) = 1
    BY <1>1
  <2> QED
    BY <2>1, <2>2
<1>6. /\ Fields(2) \in Seq(Nat) /\ Fields(6) \in Seq(Nat) /\ Fields(7) \in Seq(Nat)
      /\ Fields(10) \in Seq(Nat) /\ Fields(12) \in Seq(Nat)
  <2>1. /\ Fields(2) = <<Text>> /\ Fields(6) = <<Text, 3, Text>> /\ Fields(7) = <<2, Text>>
        /\ Fields(10) = <<2, 2, 1, Text, Text, Text, Text, Text, Text, Text, Text, Text>>
        /\ Fields(12) = <<Text, Text>>
    BY DEF Fields
  <2>2. /\ <<Text>> \in Seq(Nat) /\ <<Text, 3, Text>> \in Seq(Nat) /\ <<2, Text>> \in Seq(Nat)
        /\ <<2, 2, 1, Text, Text, Text, Text, Text, Text, Text, Text, Text>> \in Seq(Nat)
        /\ <<Text, Text>> \in Seq(Nat)
    BY <1>1
  <2> QED
    BY <2>1, <2>2
<1>7. id \in {1, 3, 5, 8, 9, 11, 13} \cup {4, 45, 14} \cup {2, 6, 7, 10, 12}
  BY DEF Registered
<1>8. Fields(id) \in Seq(Nat)
  BY <1>2, <1>3, <1>4, <1>5, <1>6, <1>7
<1> QED
  BY <1>4, <1>5, <1>8

LEMMA FurtherType ==
  ASSUME NEW id \in Byte, NEW bs \in Seq(Byte), NEW n \in Nat, n >= 1
  PROVE  FurtherFields(id, bs, n) \in Seq(Nat)
<1>1. Text \in Nat
  BY DEF Text
<1>2. CASE id = 14
  <2> DEFINE t == [k \in 1..(n - 1) |-> LetterField(bs[n - k])]
  <2>1. t \in Seq(Nat)
    <3>1. n - 1 \in Nat
      OBVIOUS
    <3>2. ASSUME NEW k \in 1..(n - 1) PROVE t[k] \in Nat
      BY <1>1 DEF LetterField
    <3> QED
      BY <3>1, <3>2, SeqDef
  <2>2. <<4>> \in Seq(Nat)
    OBVIOUS
  <2>3. FurtherFields(id, bs, n) = t \o <<4>>
    BY <1>2 DEF FurtherFields
  <2> HIDE DEF t
  <2> QED
    BY <2>1, <2>2, <2>3, ConcatProperties
<1>3. CASE id = 45
  <2>1. /\ <<1, 1>> \in Seq(Nat) /\ <<1, Text, Text, 1, 8>> \in Seq(Nat)
        /\ <<>> \in Seq(Nat)
    BY <1>1
  <2>2. FurtherFields(id, bs, n) = TypeFields(bs[n - 6])
    BY <1>3 DEF FurtherFields
  <2> QED
    BY <2>1, <2>2 DEF TypeFields
<1>4. CASE id # 14 /\ id # 45
  BY <1>4 DEF FurtherFields
<1> QED
  BY <1>2, <1>3, <1>4

\* The handler of a packet that WellFormed admits takes its payload, whatever follows it.
LEMMA HandlerTakes ==
  ASSUME NEW p \in Packets, WellFormed(p), NEW r \in Seq(Byte)
  PROVE  HandlerReads(p.id, p.payload \o r) = Len(p.payload)
<1> PICK s \in Seq(Byte), id \in Byte : s = p.payload /\ id = p.id
  BY PacketProcessorAssumption
<1> PICK a \in Seq(Byte), b \in Seq(Byte) : a = s \o <<1>> /\ b = s \o r
  BY OneMore, Prefix
<1> PICK m \in Nat : m = Len(s)
  OBVIOUS
<1>0. id \in Registered /\ HandlerReads(id, a) = m
  BY DEF WellFormed
<1>1. /\ Len(a) = m + 1 /\ Len(b) \in Nat /\ Len(b) >= m
      /\ \A i \in 1..m : a[i] = s[i] /\ b[i] = s[i]
  BY OneMore, Prefix
<1> PICK fs \in Seq(Nat) : /\ fs = Fields(id) /\ (id = 45 => Len(fs) = 12)
                           /\ (id = 14 => Len(fs) = 1)
  BY <1>0, FieldsType
<1> PICK n \in Nat : n = AfterFields(a, 0, fs) /\ n >= Len(fs)
  <2>1. AfterFields(a, 0, fs) \in Nat /\ AfterFields(a, 0, fs) >= 0 + Len(fs)
    BY FieldsGrow
  <2> QED
    BY <2>1
<1>2. HandlerReads(id, a) = IF n > m + 1 THEN n
                            ELSE AfterFields(a, n, FurtherFields(id, a, n))
  BY <1>1 DEF HandlerReads
<1>3. n <= m + 1 /\ AfterFields(a, n, FurtherFields(id, a, n)) = m
  BY <1>0, <1>2
<1>4. FurtherFields(id, a, n) \in Seq(Nat)
  <2>1. CASE n >= 1
    BY <2>1, FurtherType
  <2>2. CASE ~(n >= 1)
    <3>1. id # 14 /\ id # 45
      <4>1. Len(fs) \in Nat /\ Len(fs) # 1 /\ Len(fs) # 12
        <5> PICK l \in Nat : l = Len(fs) /\ n >= l
          OBVIOUS
        <5>1. n = 0
          BY <2>2, SMT
        <5>2. l = 0
          BY <5>1, SMT
        <5> QED
          BY <5>2
      <4> QED
        BY <4>1
    <3> QED
      BY <3>1 DEF FurtherFields
  <2> QED
    BY <2>1, <2>2
<1>5. n <= m
  <2> PICK gs \in Seq(Nat) : gs = FurtherFields(id, a, n)
    BY <1>4
  <2>1. AfterFields(a, n, gs) >= n + Len(gs) /\ Len(gs) \in Nat
    <3>1. Len(gs) \in Nat
      OBVIOUS
    <3>2. AfterFields(a, n, gs) >= n + Len(gs)
      BY FieldsGrow
    <3> QED
      BY <3>1, <3>2
  <2> QED
    BY <1>3, <2>1
<1>6. AfterFields(b, 0, fs) = n
  BY <1>5, FieldsSame
<1>7. FurtherFields(id, b, n) = FurtherFields(id, a, n)
  <2>1. CASE id = 14
    <3>1. \A k \in 1..(n - 1) : n - k \in 1..m
      BY <1>5
    <3>2. \A k \in 1..(n - 1) : a[n - k] = b[n - k]
      BY <1>1, <3>1
    <3>3. [k \in 1..(n - 1) |-> LetterField(a[n - k])]
            = [k \in 1..(n - 1) |-> LetterField(b[n - k])]
      BY <3>2
    <3> QED
      BY <2>1, <3>3 DEF FurtherFields
  <2>2. CASE id = 45
    <3>1. n - 6 \in 1..m
      <4>1. n >= 12
        BY <2>2
      <4> QED
        BY <1>5, <4>1
    <3>2. a[n - 6] = b[n - 6]
      BY <1>1, <3>1
    <3>3. FurtherFields(id, a, n) = TypeFields(a[n - 6])
      BY <2>2 DEF FurtherFields
    <3>4. FurtherFields(id, b, n) = TypeFields(b[n - 6])
      BY <2>2 DEF FurtherFields
    <3> QED
      BY <3>2, <3>3, <3>4
  <2>3. CASE id # 14 /\ id # 45
    BY <2>3 DEF FurtherFields
  <2> QED
    BY <2>1, <2>2, <2>3
<1>8. AfterFields(b, n, FurtherFields(id, a, n)) = m
  <2> PICK gs \in Seq(Nat) : gs = FurtherFields(id, a, n)
    BY <1>4
  <2>1. AfterFields(a, n, gs) <= Len(s)
    BY <1>3
  <2> QED
    BY <1>3, <2>1, FieldsSame
<1>9. ~(n > Len(b))
  BY <1>1, <1>5
<1> QED
  BY <1>6, <1>7, <1>8, <1>9 DEF HandlerReads

-----------------------------------------------------------------------------
(* Packets as bytes.                                                        *)

\* Tuples of up to three.
LEMMA Tuples ==
  ASSUME NEW S, NEW a \in S, NEW b \in S, NEW c \in S
  PROVE  /\ <<a>> \in Seq(S) /\ Len(<<a>>) = 1 /\ <<a>>[1] = a
         /\ <<a, b>> \in Seq(S) /\ Len(<<a, b>>) = 2 /\ <<a, b>>[1] = a /\ <<a, b>>[2] = b
         /\ <<a, b, c>> \in Seq(S) /\ Len(<<a, b, c>>) = 3
         /\ <<a, b, c>>[1] = a /\ <<a, b, c>>[2] = b /\ <<a, b, c>>[3] = c
         /\ <<a>> \o <<b, c>> = <<a, b, c>>
<1>1. <<a>> \in Seq(S) /\ Len(<<a>>) = 1 /\ <<a>>[1] = a
  OBVIOUS
<1>2. <<a, b>> \in Seq(S) /\ Len(<<a, b>>) = 2 /\ <<a, b>>[1] = a /\ <<a, b>>[2] = b
  OBVIOUS
<1>3. /\ <<a, b, c>> \in Seq(S) /\ Len(<<a, b, c>>) = 3
      /\ <<a, b, c>>[1] = a /\ <<a, b, c>>[2] = b /\ <<a, b, c>>[3] = c
  OBVIOUS
<1>4. <<a>> \o <<b, c>> = <<a, b, c>>
  <2>1. <<b, c>> \in Seq(S) /\ Len(<<b, c>>) = 2
    OBVIOUS
  <2>2. <<a>> \o <<b, c>> \in Seq(S) /\ Len(<<a>> \o <<b, c>>) = 3
    BY <1>1, <2>1, ConcatProperties
  <2>3. \A i \in 1..3 : (<<a>> \o <<b, c>>)[i] = <<a, b, c>>[i]
    BY <1>1, <2>1, ConcatProperties
  <2> QED
    BY <1>3, <2>2, <2>3, SeqEqual
<1> QED
  BY <1>1, <1>2, <1>3, <1>4

LEMMA SizeType ==
  ASSUME NEW id \in Registered
  PROVE  PacketSize(id) \in -2..11 /\ id \in Byte
  BY DEF Registered, PacketSize, Byte

LEMMA PacketType ==
  ASSUME NEW p \in Packets
  PROVE  /\ p.id \in Byte /\ p.payload \in Seq(Byte) /\ Len(p.payload) \in Nat
         /\ p = [id |-> p.id, payload |-> p.payload]
  BY PacketProcessorAssumption

\* The header of a packet of each framing, as the reads of processStream find it.
LEMMA Headers ==
  ASSUME NEW p \in Packets, WellFormed(p)
  PROVE  /\ PacketSize(p.id) \in -2..11
         /\ PacketSize(p.id) = -1 => /\ Header(p) = <<p.id, Len(p.payload)>>
                                     /\ Len(p.payload) \in Byte
         /\ PacketSize(p.id) = -2 =>
              /\ Len(p.payload) \in Short
              /\ \E a, b \in Byte : /\ Header(p) = <<p.id, a, b>>
                                    /\ read_unsigned_short(<<a, b>>) = Len(p.payload)
         /\ PacketSize(p.id) >= 0 => Header(p) = <<p.id>> /\ Len(p.payload) = PacketSize(p.id)
<1>1. p.id \in Byte /\ Len(p.payload) \in Nat /\ PacketSize(p.id) \in -2..11
  BY PacketType, SizeType DEF WellFormed
<1>2. ASSUME PacketSize(p.id) = -1
      PROVE  Header(p) = <<p.id, Len(p.payload)>> /\ Len(p.payload) \in Byte
  BY <1>1, <1>2 DEF Header, WellFormed
<1>3. ASSUME PacketSize(p.id) = -2
      PROVE  /\ Len(p.payload) \in Short
             /\ \E a, b \in Byte : /\ Header(p) = <<p.id, a, b>>
                                   /\ read_unsigned_short(<<a, b>>) = Len(p.payload)
  <2>1. Header(p) = <<p.id>> \o write_short(Len(p.payload))
    BY <1>3 DEF Header
  <2>2. Len(p.payload) \in Short
    BY <1>3 DEF WellFormed
  <2>3. PICK a, b : a = (Len(p.payload) \div 256) % 256 /\ b = Len(p.payload) % 256
    OBVIOUS
  <2>7. a \in Byte /\ b \in Byte
    <3> PICK n \in Int : n = Len(p.payload)
      BY <1>1
    <3>1. n \div 256 \in Int /\ n % 256 \in Byte
      BY SplitByte
    <3>2. (n \div 256) % 256 \in Byte
      BY <3>1, SplitByte
    <3> QED
      BY <2>3, <3>1, <3>2
  <2>4. write_short(Len(p.payload)) = <<a, b>>
    BY <2>3 DEF write_short
  <2>5. <<p.id>> \o <<a, b>> = <<p.id, a, b>>
    BY <1>1, <2>7, Tuples
  <2>6. read_unsigned_short(<<a, b>>) = Len(p.payload)
    BY <2>2, <2>4, ShortRoundTrip
  <2> QED
    BY <2>1, <2>2, <2>4, <2>5, <2>6, <2>7
<1>4. ASSUME PacketSize(p.id) >= 0
      PROVE  Header(p) = <<p.id>> /\ Len(p.payload) = PacketSize(p.id)
  <2>1. Len(p.payload) = PacketSize(p.id)
    BY <1>4 DEF WellFormed
  <2>2. PacketSize(p.id) # -1 /\ PacketSize(p.id) # -2
    BY <1>1, <1>4
  <2> QED
    BY <2>1, <2>2 DEF Header
<1> QED
  BY <1>1, <1>2, <1>3, <1>4

LEMMA HeaderTypes ==
  ASSUME NEW p \in Packets, WellFormed(p)
  PROVE  /\ Header(p) \in Seq(Byte) /\ Header(p)[1] = p.id
         /\ Len(Header(p)) = IF PacketSize(p.id) < 0 THEN 1 - PacketSize(p.id) ELSE 1
         /\ Len(Header(p)) \in 1..3 /\ Len(p.payload) \in Short
<1>1. p.id \in Byte /\ Len(p.payload) \in Nat
  BY PacketType
<1>2. PacketSize(p.id) \in -2..11
  BY Headers
<1>3. CASE PacketSize(p.id) = -1
  <2>1. Header(p) = <<p.id, Len(p.payload)>> /\ Len(p.payload) \in Byte
    BY <1>3, Headers
  <2>2. Header(p) \in Seq(Byte) /\ Header(p)[1] = p.id /\ Len(Header(p)) = 2
    BY <1>1, <2>1, Tuples
  <2>3. Len(p.payload) \in Short
    BY <2>1, ByteIsShort
  <2>4. PacketSize(p.id) < 0 /\ 1 - PacketSize(p.id) = 2
    BY <1>3
  <2> QED
    BY <2>2, <2>3, <2>4
<1>4. CASE PacketSize(p.id) = -2
  <2>1. PICK a \in Byte, b \in Byte : Header(p) = <<p.id, a, b>>
    BY <1>4, Headers
  <2>2. Header(p) \in Seq(Byte) /\ Header(p)[1] = p.id /\ Len(Header(p)) = 3
    BY <1>1, <2>1, Tuples
  <2>3. Len(p.payload) \in Short
    BY <1>4, Headers
  <2> QED
    BY <1>4, <2>2, <2>3
<1>5. CASE PacketSize(p.id) >= 0
  <2>1. Header(p) = <<p.id>> /\ Len(p.payload) = PacketSize(p.id)
    BY <1>5, Headers
  <2>2. Header(p) \in Seq(Byte) /\ Header(p)[1] = p.id /\ Len(Header(p)) = 1
    BY <1>1, <2>1, Tuples
  <2>3. Len(p.payload) \in Short
    BY <1>1, <1>2, <1>5, <2>1, SMT DEF Short
  <2>4. ~(PacketSize(p.id) < 0)
    BY <1>2, <1>5
  <2> QED
    BY <2>2, <2>3, <2>4
<1> QED
  BY <1>2, <1>3, <1>4, <1>5

LEMMA Encodings ==
  ASSUME NEW p \in Packets, WellFormed(p)
  PROVE  /\ Encode(p) \in Seq(Byte)
         /\ Len(Encode(p)) = Len(Header(p)) + Len(p.payload)
         /\ \A i \in 1..Len(Header(p)) : Encode(p)[i] = Header(p)[i]
         /\ Encode(p)[1] = p.id
         /\ SubSeq(Encode(p), Len(Header(p)) + 1, Len(Encode(p))) = p.payload
<1> DEFINE h == Header(p)
           s == p.payload
<1>2. Encode(p) = h \o s
  BY DEF Encode
<1>3. h \in Seq(Byte) /\ s \in Seq(Byte) /\ Len(h) \in 1..3 /\ Len(s) \in Nat /\ h[1] = p.id
  BY HeaderTypes, PacketType
<1> HIDE DEF h, s
<1>6. /\ h \o s \in Seq(Byte) /\ Len(h \o s) = Len(h) + Len(s)
      /\ \A i \in 1..Len(h) : (h \o s)[i] = h[i]
  BY <1>3, ConcatProperties
<1>7. SubSeq(h \o s, Len(h) + 1, Len(h \o s)) = s
  BY <1>3, <1>6
<1> QED
  BY <1>2, <1>3, <1>6, <1>7 DEF h, s

-----------------------------------------------------------------------------
(* Sequences of packets as bytes.                                           *)

LEMMA EncodesAll ==
  ASSUME AllWellFormed, NEW ps \in Seq(Packets)
  PROVE  /\ [n \in 1..Len(ps) |-> Encode(ps[n])] \in Seq(Seq(Byte))
         /\ Len([n \in 1..Len(ps) |-> Encode(ps[n])]) = Len(ps)
         /\ EncodeAll(ps) \in Seq(Byte)
<1> DEFINE es == [n \in 1..Len(ps) |-> Encode(ps[n])]
<1>1. \A n \in 1..Len(ps) : Encode(ps[n]) \in Seq(Byte)
  BY Encodings DEF AllWellFormed
<1>2. es \in Seq(Seq(Byte)) /\ Len(es) = Len(ps)
  BY <1>1
<1> HIDE DEF es
<1>3. FlattenSeq(es) \in Seq(Byte)
  BY <1>2, FlattenValue
<1> QED
  BY <1>2, <1>3 DEF EncodeAll, es

LEMMA EncodeConcat ==
  ASSUME AllWellFormed, NEW ps \in Seq(Packets), NEW qs \in Seq(Packets)
  PROVE  EncodeAll(ps \o qs) = EncodeAll(ps) \o EncodeAll(qs)
<1> DEFINE es(rs) == [n \in 1..Len(rs) |-> Encode(rs[n])]
<1>1. /\ es(ps) \in Seq(Seq(Byte)) /\ Len(es(ps)) = Len(ps)
      /\ es(qs) \in Seq(Seq(Byte)) /\ Len(es(qs)) = Len(qs)
  BY EncodesAll
<1>2. /\ ps \o qs \in Seq(Packets) /\ Len(ps \o qs) = Len(ps) + Len(qs)
      /\ Len(ps) \in Nat /\ Len(qs) \in Nat
      /\ \A i \in 1..Len(ps) + Len(qs) :
           (ps \o qs)[i] = IF i <= Len(ps) THEN ps[i] ELSE qs[i - Len(ps)]
  BY ConcatProperties
<1>3. /\ es(ps \o qs) \in Seq(Seq(Byte)) /\ Len(es(ps \o qs)) = Len(ps) + Len(qs)
  BY <1>2, EncodesAll
<1>4. /\ es(ps) \o es(qs) \in Seq(Seq(Byte))
      /\ Len(es(ps) \o es(qs)) = Len(ps) + Len(qs)
      /\ \A i \in 1..Len(ps) + Len(qs) :
           (es(ps) \o es(qs))[i] = IF i <= Len(ps) THEN es(ps)[i] ELSE es(qs)[i - Len(ps)]
  <2> PICK e1 \in Seq(Seq(Byte)), e2 \in Seq(Seq(Byte)) : e1 = es(ps) /\ e2 = es(qs)
    BY <1>1
  <2>1. Len(e1) = Len(ps) /\ Len(e2) = Len(qs)
    BY <1>1
  <2>2. /\ e1 \o e2 \in Seq(Seq(Byte))
        /\ Len(e1 \o e2) = Len(ps) + Len(qs)
        /\ \A i \in 1..Len(ps) + Len(qs) :
             (e1 \o e2)[i] = IF i <= Len(ps) THEN e1[i] ELSE e2[i - Len(ps)]
    BY <2>1, ConcatProperties
  <2> HIDE DEF es
  <2> QED
    BY <2>2
<1>5. ASSUME NEW i \in 1..Len(ps) + Len(qs)
      PROVE  es(ps \o qs)[i] = (es(ps) \o es(qs))[i]
  <2>1. es(ps \o qs)[i] = Encode((ps \o qs)[i])
    BY <1>2
  <2>2. CASE i <= Len(ps)
    <3>1. i \in 1..Len(ps)
      BY <1>2, <2>2
    <3>2. (es(ps) \o es(qs))[i] = Encode(ps[i])
      BY <1>4, <2>2, <3>1
    <3> QED
      BY <1>2, <2>1, <2>2, <3>2
  <2>3. CASE ~(i <= Len(ps))
    <3>1. i - Len(ps) \in 1..Len(qs)
      BY <1>2, <2>3
    <3>2. (es(ps) \o es(qs))[i] = Encode(qs[i - Len(ps)])
      BY <1>4, <2>3, <3>1
    <3> QED
      BY <1>2, <2>1, <2>3, <3>2
  <2> QED
    BY <2>2, <2>3
<1>6. es(ps \o qs) = es(ps) \o es(qs)
  <2> HIDE DEF es
  <2> QED
    BY <1>3, <1>4, <1>5, SeqEqual
<1>7. FlattenSeq(es(ps) \o es(qs)) = FlattenSeq(es(ps)) \o FlattenSeq(es(qs))
  <2> HIDE DEF es
  <2> QED
    BY <1>1, FlattenConcat
<1> QED
  BY <1>6, <1>7 DEF EncodeAll

LEMMA EncodeNone == EncodeAll(<<>>) = <<>>
  BY DEF EncodeAll, FlattenSeq

LEMMA EncodeOne ==
  ASSUME AllWellFormed, NEW p \in Packets
  PROVE  EncodeAll(<<p>>) = Encode(p)
<1> DEFINE es == [n \in 1..1 |-> Encode(p)]
<1>0. Encode(p) \in Seq(Byte)
  BY Encodings DEF AllWellFormed
<1>1. EncodeAll(<<p>>) = FlattenSeq(es)
  <2>1. Len(<<p>>) = 1 /\ \A n \in 1..1 : <<p>>[n] = p
    OBVIOUS
  <2>2. [n \in 1..Len(<<p>>) |-> Encode(<<p>>[n])] = es
    BY <2>1
  <2> QED
    BY <2>2 DEF EncodeAll
<1>2. es \in Seq(Seq(Byte)) /\ es = Append(<<>>, Encode(p))
  BY <1>0
<1>3. <<>> \in Seq(Seq(Byte)) /\ FlattenSeq(<<>>) = <<>>
  <2>1. <<>> \in Seq(Seq(Byte))
    OBVIOUS
  <2>2. FlattenSeq(<<>>) = <<>>
    BY DEF FlattenSeq
  <2> QED
    BY <2>1, <2>2
<1>4. FlattenSeq(Append(<<>>, Encode(p))) = <<>> \o Encode(p)
  BY <1>0, <1>3, FlattenAppend
<1> HIDE DEF es
<1> QED
  BY <1>0, <1>1, <1>2, <1>4, ConcatEmptySeq

-----------------------------------------------------------------------------
(* Cutting sequences.                                                       *)

\* Two ways to cut the same sequence agree from the front.
LEMMA AtFront ==
  ASSUME NEW S, NEW d \in Seq(S), NEW u \in Seq(S), NEW e \in Seq(S), NEW r \in Seq(S),
         d \o u = e \o r
  PROVE  /\ \A i \in 1..Len(d) : i <= Len(e) => d[i] = e[i]
         /\ Len(e) <= Len(d) => SubSeq(d, Len(e) + 1, Len(d)) \o u = r
<1>0. Len(d) \in Nat /\ Len(u) \in Nat /\ Len(e) \in Nat /\ Len(r) \in Nat
  OBVIOUS
<1>1. /\ Len(d) + Len(u) = Len(e) + Len(r)
      /\ \A i \in 1..Len(d) + Len(u) : (d \o u)[i] = IF i <= Len(d) THEN d[i] ELSE u[i - Len(d)]
      /\ \A i \in 1..Len(d) + Len(u) : (d \o u)[i] = IF i <= Len(e) THEN e[i] ELSE r[i - Len(e)]
  BY ConcatProperties
<1>2. ASSUME NEW i \in 1..Len(d), i <= Len(e) PROVE d[i] = e[i]
  <2>1. i \in 1..Len(d) + Len(u) /\ i <= Len(d)
    BY <1>0
  <2> QED
    BY <1>1, <1>2, <2>1
<1>3. ASSUME Len(e) <= Len(d) PROVE SubSeq(d, Len(e) + 1, Len(d)) \o u = r
  <2> DEFINE t == SubSeq(d, Len(e) + 1, Len(d))
  <2>1. /\ t \in Seq(S) /\ Len(t) = Len(d) - Len(e)
        /\ \A i \in 1..Len(d) - Len(e) : t[i] = d[Len(e) + i]
    BY <1>0, <1>3
  <2> HIDE DEF t
  <2>2. /\ t \o u \in Seq(S) /\ Len(t \o u) = Len(r)
        /\ \A i \in 1..Len(t) + Len(u) : (t \o u)[i] = IF i <= Len(t) THEN t[i] ELSE u[i - Len(t)]
    BY <1>0, <1>1, <2>1, ConcatProperties
  <2>3. ASSUME NEW i \in 1..Len(r) PROVE (t \o u)[i] = r[i]
    <3>1. PICK j \in Int : j = i + Len(e)
      BY <1>0
    <3>2. j \in 1..Len(d) + Len(u) /\ ~(j <= Len(e)) /\ j - Len(e) = i
      BY <1>0, <1>1, <3>1
    <3>3. r[i] = IF j <= Len(d) THEN d[j] ELSE u[j - Len(d)]
      BY <1>1, <3>2
    <3>4. i \in 1..Len(t) + Len(u) /\ (i <= Len(t) <=> j <= Len(d)) /\ i - Len(t) = j - Len(d)
      BY <1>0, <1>1, <2>1, <3>1
    <3>5. i <= Len(t) => t[i] = d[j]
      BY <1>0, <2>1, <3>1, <3>4
    <3> QED
      BY <2>2, <3>3, <3>4, <3>5
  <2>4. t \o u = r
    BY <2>2, <2>3, SeqEqual
  <2> QED
    BY <2>4 DEF t
<1> QED
  BY <1>2, <1>3

\* What follows h in h \o r.
LEMMA RestIs ==
  ASSUME NEW S, NEW h \in Seq(S), NEW r \in Seq(S)
  PROVE  SubSeq(h \o r, Len(h) + 1, Len(h \o r)) = r
<1>1. /\ h \o r \in Seq(S) /\ Len(h \o r) = Len(h) + Len(r) /\ Len(h) \in Nat /\ Len(r) \in Nat
      /\ \A i \in 1..Len(h) + Len(r) : (h \o r)[i] = IF i <= Len(h) THEN h[i] ELSE r[i - Len(h)]
  BY ConcatProperties
<1> DEFINE t == SubSeq(h \o r, Len(h) + 1, Len(h \o r))
<1>2. /\ t \in Seq(S) /\ Len(t) = Len(r)
      /\ \A i \in 1..Len(r) : t[i] = (h \o r)[i + Len(h)]
  BY <1>1
<1>3. ASSUME NEW i \in 1..Len(r) PROVE t[i] = r[i]
  <2>1. PICK j \in Int : j = i + Len(h)
    BY <1>1
  <2>2. j \in 1..Len(h) + Len(r) /\ ~(j <= Len(h)) /\ j - Len(h) = i
    BY <1>1, <2>1
  <2> QED
    BY <1>1, <1>2, <2>1, <2>2
<1> HIDE DEF t
<1>4. t = r
  BY <1>2, <1>3, SeqEqual
<1> QED
  BY <1>4 DEF t

\* A sequence is its first element and the rest.
LEMMA HeadRest ==
  ASSUME NEW S, NEW r \in Seq(S), r # <<>>
  PROVE  r[1] \in S /\ Tail(r) \in Seq(S) /\ r = <<r[1]>> \o Tail(r) /\ Len(r) = Len(Tail(r)) + 1
<1>1. /\ r[1] \in S /\ Tail(r) \in Seq(S) /\ Len(r) = Len(Tail(r)) + 1 /\ Len(r) \in Nat
      /\ Len(Tail(r)) \in Nat
      /\ \A i \in 1..Len(Tail(r)) : Tail(r)[i] = r[i + 1]
  BY EmptySeq, HeadTailProperties
<1>2. <<r[1]>> \in Seq(S) /\ Len(<<r[1]>>) = 1 /\ <<r[1]>>[1] = r[1]
  BY <1>1
<1> DEFINE t == Tail(r)
           c == <<r[1]>> \o t
<1>3. /\ c \in Seq(S) /\ Len(c) = Len(r)
      /\ \A i \in 1..Len(r) : c[i] = IF i <= 1 THEN <<r[1]>>[i] ELSE t[i - 1]
  <2> HIDE DEF t
  <2>1. t \in Seq(S) /\ Len(r) = 1 + Len(t) /\ Len(t) \in Nat
    BY <1>1 DEF t
  <2> QED
    BY <1>2, <2>1, ConcatProperties
<1>4. ASSUME NEW i \in 1..Len(r) PROVE c[i] = r[i]
  <2>1. CASE i = 1
    BY <1>2, <1>3, <2>1
  <2>2. CASE i # 1
    <3>1. i - 1 \in 1..Len(Tail(r)) /\ (i - 1) + 1 = i /\ ~(i <= 1)
      BY <1>1, <2>2
    <3> HIDE DEF c
    <3>2. c[i] = t[i - 1]
      BY <1>3, <3>1
    <3> QED
      BY <1>1, <3>1, <3>2
  <2> QED
    BY <2>1, <2>2
<1> HIDE DEF c
<1>5. c = r
  BY <1>3, <1>4, SeqEqual
<1> QED
  BY <1>1, <1>5 DEF c

\* The first of the rest is the one after those before it.
LEMMA NextToHandle ==
  ASSUME NEW hs \in Seq(Packets), NEW r \in Seq(Packets)
  PROVE  /\ r # <<>> => Len(hs) < Len(hs \o r) /\ r[1] = (hs \o r)[Len(hs) + 1]
         /\ Len(hs) < Len(hs \o r) => r # <<>>
<1>1. /\ Len(hs \o r) = Len(hs) + Len(r) /\ Len(hs) \in Nat /\ Len(r) \in Nat
      /\ \A i \in 1..Len(hs) + Len(r) :
           (hs \o r)[i] = IF i <= Len(hs) THEN hs[i] ELSE r[i - Len(hs)]
  BY ConcatProperties
<1>2. Len(r) > 0 <=> r # <<>>
  BY <1>1, EmptySeq
<1>3. ASSUME r # <<>> PROVE r[1] = (hs \o r)[Len(hs) + 1]
  <2>1. PICK k \in Nat : k = Len(hs) + 1
    BY <1>1
  <2>2. k \in 1..Len(hs) + Len(r) /\ ~(k <= Len(hs)) /\ k - Len(hs) = 1
    BY <1>1, <1>2, <1>3, <2>1
  <2> QED
    BY <1>1, <2>1, <2>2
<1> QED
  BY <1>1, <1>2, <1>3

-----------------------------------------------------------------------------
(* The invariant.  Whatever the bytes are, the poll knows where index and   *)
(* mark stand.  On a connection that began with an empty stream some of the *)
(* packets sent are handled, in order, and the rest is what buffer and wire  *)
(* still hold, behind the one that was handled last and is about to be      *)
(* deleted.  Each point of processStream knows how much of the first of the *)
(* rest it has read.                                                        *)

Shape(w) ==
  /\ pc[w] \in {"idle", "loop"} => index = 0 /\ mark = NoMark
  /\ pc[w] \in {"id", "size", "payload", "handle", "delete"} => mark = 0
  /\ pc[w] = "id" => index = 0 /\ data # <<>>
  /\ pc[w] \in {"size", "payload", "handle"} => index > 0
  /\ pc[w] = "size" => packet[w].size \in {-2, -1}
  /\ pc[w] \in {"size", "payload", "handle"} => packet[w].id \in Registered

Rest == SubSeq(sent, Len(handled) + 1, Len(sent))

InOrder ==
  /\ handled \in Seq(Packets) /\ Rest \in Seq(Packets)
  /\ sent = handled \o Rest
  /\ closed => \E n \in 1..Len(handled) : Closes(handled[n].id)

PollOK(w) ==
  /\ pc[w] # "dead"
  /\ pc[w] = "size" => /\ Rest # <<>> /\ index = 1 /\ PacketSize(Rest[1].id) < 0
                       /\ packet[w] = [id |-> Rest[1].id, size |-> PacketSize(Rest[1].id)]
  /\ pc[w] \in {"payload", "handle"} =>
       /\ Rest # <<>> /\ index = Len(Header(Rest[1]))
       /\ packet[w] = [id |-> Rest[1].id, size |-> Len(Rest[1].payload)]
  /\ pc[w] = "handle" => Len(data) >= Len(Encode(Rest[1]))
  /\ pc[w] = "delete" => SubSeq(data, index + 1, Len(data)) \o wire = EncodeAll(Rest)
  /\ pc[w] # "delete" => data \o wire = EncodeAll(Rest)
  /\ pc[w] = "idle" /\ Rest # <<>> => Len(data) < Len(Encode(Rest[1]))

InStep(w) == InOrder /\ PollOK(w)

Kept(w) == TypeOK /\ Shape(w) /\ (~stale => InStep(w))

\* The next packet, and the bytes of all that are to come.
LEMMA FirstOfRest ==
  ASSUME AllWellFormed, TypeOK, InOrder, Rest # <<>>
  PROVE  /\ Rest[1] \in Packets /\ WellFormed(Rest[1]) /\ Tail(Rest) \in Seq(Packets)
         /\ Encode(Rest[1]) \in Seq(Byte) /\ EncodeAll(Tail(Rest)) \in Seq(Byte)
         /\ EncodeAll(Rest) = Encode(Rest[1]) \o EncodeAll(Tail(Rest))
         /\ Len(Encode(Rest[1])) = Len(Header(Rest[1])) + Len(Rest[1].payload)
         /\ Len(Header(Rest[1])) \in 1..3 /\ Len(Rest[1].payload) \in Short
         /\ Len(Rest[1].payload) \in Nat /\ Len(Encode(Rest[1])) \in Nat \ {0}
         /\ Len(Header(Rest[1])) <= Len(Encode(Rest[1]))
<1>1. Rest \in Seq(Packets)
  BY DEF InOrder
<1> HIDE DEF Rest
<1> DEFINE p == Rest[1]
           t == Tail(Rest)
<1>2. p \in Packets /\ t \in Seq(Packets) /\ Rest = <<p>> \o t
  BY <1>1, HeadRest
<1> HIDE DEF p, t
<1>3. WellFormed(p)
  BY <1>2 DEF AllWellFormed
<1>4. Encode(p) \in Seq(Byte) /\ Len(Encode(p)) = Len(Header(p)) + Len(p.payload)
  BY <1>2, <1>3, Encodings
<1>5. Len(Header(p)) \in 1..3 /\ Len(p.payload) \in Short
  BY <1>2, <1>3, HeaderTypes
<1>6. Len(p.payload) \in Nat
  BY <1>2, PacketType
<1>7. EncodeAll(t) \in Seq(Byte)
  BY <1>2, EncodesAll
<1>8. EncodeAll(Rest) = Encode(p) \o EncodeAll(t)
  <2>1. <<p>> \in Seq(Packets)
    BY <1>2
  <2>2. EncodeAll(<<p>> \o t) = EncodeAll(<<p>>) \o EncodeAll(t)
    BY <1>2, <2>1, EncodeConcat
  <2> QED
    BY <1>2, <2>2, EncodeOne
<1>9. Len(Encode(p)) \in Nat \ {0} /\ Len(Header(p)) <= Len(Encode(p))
  <2> PICK h \in 1..3, m \in Nat : h = Len(Header(p)) /\ m = Len(p.payload)
    BY <1>5, <1>6
  <2>1. Len(Encode(p)) = h + m
    BY <1>4
  <2>2. h + m \in Nat \ {0} /\ h <= h + m
    OBVIOUS
  <2> QED
    BY <2>1, <2>2
<1> QED
  BY <1>2, <1>3, <1>4, <1>5, <1>6, <1>7, <1>8, <1>9 DEF p, t

\* As far as the buffer reaches, it holds the next packet, its header first.
LEMMA Waiting ==
  ASSUME AllWellFormed, TypeOK, InOrder, Rest # <<>>, data \o wire = EncodeAll(Rest)
  PROVE  /\ \A i \in 1..Len(data) : i <= Len(Encode(Rest[1])) => data[i] = Encode(Rest[1])[i]
         /\ \A i \in 1..Len(Header(Rest[1])) : i <= Len(data) => data[i] = Header(Rest[1])[i]
<1>1. data \in Seq(Byte) /\ wire \in Seq(Byte) /\ Len(data) \in Nat
  BY DEF TypeOK
<1>2. PICK p \in Packets, e \in Seq(Byte), r \in Seq(Byte) :
        p = Rest[1] /\ e = Encode(p) /\ r = EncodeAll(Tail(Rest)) /\ WellFormed(p)
  BY FirstOfRest
<1>3. data \o wire = e \o r
  BY <1>2, FirstOfRest
<1>4. \A i \in 1..Len(data) : i <= Len(e) => data[i] = e[i]
  BY <1>1, <1>3, AtFront
<1>5. \A i \in 1..Len(Header(p)) : e[i] = Header(p)[i]
  BY <1>2, Encodings
<1>6. Len(Header(p)) <= Len(e) /\ Len(Header(p)) \in Nat /\ Len(e) \in Nat
  <2>1. Len(e) = Len(Header(p)) + Len(p.payload)
    BY <1>2, Encodings
  <2>3. Len(e) \in Nat
    OBVIOUS
  <2>2. Len(Header(p)) \in Nat /\ Len(p.payload) \in Nat
    BY <1>2, FirstOfRest
  <2> QED
    BY <2>1, <2>2, <2>3
<1> QED
  BY <1>1, <1>2, <1>4, <1>5, <1>6

\* With all packets handled the buffer and the wire are empty.
LEMMA NothingWaits ==
  ASSUME TypeOK, Rest = <<>>, data \o wire = EncodeAll(Rest)
  PROVE  data = <<>> /\ wire = <<>>
  BY EncodeNone, ConcatEqualIffEmpty DEF TypeOK

LEMMA StreamType ==
  ASSUME TypeOK
  PROVE  SubSeq(data, index + 1, Len(data)) \in Seq(Byte)
<1>1. /\ data \in Seq(Byte) /\ Len(data) \in Nat /\ index \in 0..Len(data)
      /\ \A i \in 1..Len(data) : data[i] \in Byte
  BY DEF TypeOK
<1>2. index + 1 \in Int /\ \A i \in index + 1..Len(data) : data[i] \in Byte
  BY <1>1
<1> QED
  BY <1>1, <1>2, SubSeqProperties

\* A stream that begins with e is e and what follows.
LEMMA FrontRest ==
  ASSUME NEW S, NEW d \in Seq(S), NEW e \in Seq(S), Len(e) <= Len(d),
         \A i \in 1..Len(d) : i <= Len(e) => d[i] = e[i]
  PROVE  /\ SubSeq(d, Len(e) + 1, Len(d)) \in Seq(S)
         /\ d = e \o SubSeq(d, Len(e) + 1, Len(d))
<1>0. Len(d) \in Nat /\ Len(e) \in Nat
  OBVIOUS
<1> DEFINE t == SubSeq(d, Len(e) + 1, Len(d))
<1>1. /\ t \in Seq(S) /\ Len(t) = Len(d) - Len(e)
      /\ \A i \in 1..Len(d) - Len(e) : t[i] = d[Len(e) + i]
  BY <1>0
<1> HIDE DEF t
<1>2. /\ e \o t \in Seq(S) /\ Len(e \o t) = Len(d)
      /\ \A i \in 1..Len(d) : (e \o t)[i] = IF i <= Len(e) THEN e[i] ELSE t[i - Len(e)]
  BY <1>0, <1>1, ConcatProperties
<1>3. ASSUME NEW i \in 1..Len(d) PROVE (e \o t)[i] = d[i]
  <2>1. CASE i <= Len(e)
    BY <1>2, <2>1
  <2>2. CASE ~(i <= Len(e))
    <3>1. i - Len(e) \in 1..Len(d) - Len(e) /\ Len(e) + (i - Len(e)) = i
      BY <1>0, <2>2
    <3> QED
      BY <1>1, <1>2, <2>2, <3>1
  <2> QED
    BY <2>1, <2>2
<1>4. e \o t = d
  BY <1>2, <1>3, SeqEqual
<1> QED
  BY <1>1, <1>4 DEF t

-----------------------------------------------------------------------------
(* Where index and mark stand.                                              *)

LEMMA ReadsType ==
  ASSUME NEW id \in Registered, NEW bs \in Seq(Byte)
  PROVE  HandlerReads(id, bs) \in Nat
<1> PICK fs \in Seq(Nat) : fs = Fields(id) /\ (id = 45 => Len(fs) = 12)
                           /\ (id = 14 => Len(fs) = 1)
  BY FieldsType
<1> PICK l \in Nat : l = Len(fs)
  OBVIOUS
<1> PICK n \in Nat : n = AfterFields(bs, 0, fs) /\ n >= l
  <2>1. AfterFields(bs, 0, fs) \in Nat /\ AfterFields(bs, 0, fs) >= 0 + Len(fs)
    BY FieldsGrow
  <2> QED
    BY <2>1
<1>1. id \in Byte
  BY SizeType
<1>2. FurtherFields(id, bs, n) \in Seq(Nat)
  <2>1. CASE n >= 1
    BY <1>1, <2>1, FurtherType
  <2>2. CASE ~(n >= 1)
    <3>1. l = 0
      BY <2>2
    <3>2. id # 14 /\ id # 45
      BY <3>1
    <3>3. <<>> \in Seq(Nat)
      OBVIOUS
    <3> QED
      BY <3>2, <3>3 DEF FurtherFields
  <2> QED
    BY <2>1, <2>2
<1>3. AfterFields(bs, n, FurtherFields(id, bs, n)) \in Nat
  BY <1>2, FieldsGrow
<1> QED
  BY <1>3 DEF HandlerReads

\* The stream after the block between mark and index is deleted.
LEMMA DeleteType ==
  ASSUME TypeOK, mark = 0
  PROVE  /\ SubSeq(data, 1, mark) \o SubSeq(data, index + 1, Len(data))
              = SubSeq(data, index + 1, Len(data))
         /\ SubSeq(data, index + 1, Len(data)) \in Seq(Byte)
<1> DEFINE s == SubSeq(data, index + 1, Len(data))
<1>1. s \in Seq(Byte)
  BY StreamType
<1>2. SubSeq(data, 1, 0) = <<>>
  BY SubSeqEmpty
<1>3. SubSeq(data, 1, 0) \o s = s
  <2> HIDE DEF s
  <2> QED
    BY <1>1, <1>2, ConcatEmptySeq
<1> QED
  BY <1>1, <1>3

\* What is received is appended, and the wire loses it.
LEMMA ReceiveType ==
  ASSUME TypeOK, NEW n \in 1..Len(wire)
  PROVE  /\ SubSeq(wire, 1, n) \in Seq(Byte) /\ SubSeq(wire, n + 1, Len(wire)) \in Seq(Byte)
         /\ data \o SubSeq(wire, 1, n) \in Seq(Byte)
         /\ SubSeq(wire, 1, n) \o SubSeq(wire, n + 1, Len(wire)) = wire
<1> DEFINE a == SubSeq(wire, 1, n)
           b == SubSeq(wire, n + 1, Len(wire))
<1>1. data \in Seq(Byte) /\ wire \in Seq(Byte) /\ Len(wire) \in Nat
  BY DEF TypeOK
<1>2. a \in Seq(Byte) /\ b \in Seq(Byte)
  <2>1. \A i \in 1..Len(wire) : wire[i] \in Byte
    BY <1>1
  <2>2. (\A i \in 1..n : wire[i] \in Byte) /\ \A i \in n + 1..Len(wire) : wire[i] \in Byte
    BY <1>1, <2>1
  <2> QED
    BY <1>1, <2>2, SubSeqProperties
<1>3. a \o b = wire
  <2>1. /\ 1 \in 1..Len(wire) + 1 /\ n \in (1 - 1)..Len(wire) /\ Len(wire) \in n..Len(wire)
    BY <1>1
  <2>2. a \o b = SubSeq(wire, 1, Len(wire))
    BY <1>1, <2>1, ConcatAdjacentSubSeq
  <2> QED
    BY <1>1, <2>2, SubSeqFull
<1>4. data \o a \in Seq(Byte)
  <2> HIDE DEF a
  <2> QED
    BY <1>1, <1>2, ConcatProperties
<1> QED
  BY <1>2, <1>3, <1>4

\* Each step leaves the stream and the poll in a state that Shape describes.
LEMMA Shapes ==
  ASSUME OneAtATime, AllWellFormed, NEW w \in Workers, TypeOK, Shape(w), [Next]_vars
  PROVE  TypeOK' /\ Shape(w)'
<1> DEFINE Pcs == {"idle", "loop", "id", "size", "payload", "handle", "delete", "dead"}
<1>0. /\ data \in Seq(Byte) /\ wire \in Seq(Byte) /\ Len(data) \in Nat /\ index \in 0..Len(data)
      /\ mark \in -1..index /\ pc \in [Workers -> Pcs] /\ \A x \in Workers : x = w
  BY DEF TypeOK, OneAtATime
<1>1. ASSUME NEW p \in Packets, Send(p) PROVE TypeOK' /\ Shape(w)'
  <2>1. Encode(p) \in Seq(Byte)
    BY Encodings DEF AllWellFormed
  <2>2. PICK e \in Seq(Byte) : e = Encode(p) /\ wire' = wire \o e
    BY <1>1, <2>1 DEF Send
  <2>3. wire' \in Seq(Byte)
    BY <1>0, <2>2, ConcatProperties
  <2>4. sent' \in Seq(Packets) /\ Len(sent') = Len(sent) + 1 /\ Len(sent) \in Nat
    BY <1>1, AppendProperties DEF TypeOK, Send
  <2>5. Len(sent') <= MaxSent
    BY <1>1, <2>4, PacketProcessorAssumption DEF Send
  <2> QED
    BY <1>1, <2>3, <2>4, <2>5 DEF TypeOK, Shape, Send
<1>2. ASSUME Receive(w) \/ ReceiveNothing(w) PROVE TypeOK' /\ Shape(w)'
  <2>1. data' \in Seq(Byte) /\ wire' \in Seq(Byte)
    BY <1>0, <1>2, ReceiveType DEF Receive, ReceiveNothing
  <2>2. /\ UNCHANGED <<sent, index, mark, packet, closed, stale>>
        /\ index = 0 /\ mark = -1 /\ pc' = [pc EXCEPT ![w] = "loop"]
    BY <1>2 DEF Receive, ReceiveNothing, Goto, Shape, NoMark
  <2>3. pc'[w] = "loop" /\ Len(data') \in Nat
    BY <1>0, <2>1, <2>2
  <2> QED
    BY <2>1, <2>2, <2>3 DEF TypeOK, Shape, NoMark
<1>3. ASSUME MarkPosition(w) PROVE TypeOK' /\ Shape(w)'
  <2>1. /\ UNCHANGED <<sent, wire, data, index, packet, closed, stale>>
        /\ index = 0 /\ mark = -1 /\ available = Len(data)
    BY <1>0, <1>3 DEF MarkPosition, Shape, NoMark, available
  <2>2. CASE mark' = mark /\ pc' = [pc EXCEPT ![w] = "idle"]
    <3>1. pc'[w] = "idle"
      BY <1>0, <2>2
    <3> QED
      BY <2>1, <2>2, <3>1 DEF TypeOK, Shape, NoMark
  <2>3. CASE available > 0 /\ mark' = 0 /\ pc' = [pc EXCEPT ![w] = "id"]
    <3>1. pc'[w] = "id" /\ data # <<>>
      BY <1>0, <2>1, <2>3
    <3> QED
      BY <2>1, <2>3, <3>1 DEF TypeOK, Shape, NoMark
  <2> QED
    BY <1>3, <2>1, <2>2, <2>3 DEF MarkPosition, Goto
<1>4. ASSUME mark = 0, ResetAndWait(w), UNCHANGED <<sent, wire, data, packet, closed, stale>>
      PROVE  TypeOK' /\ Shape(w)'
  <2>1. index' = 0 /\ mark' = -1 /\ pc' = [pc EXCEPT ![w] = "idle"]
    BY <1>4 DEF ResetAndWait, NoMark, Goto
  <2>2. pc'[w] = "idle"
    BY <1>0, <2>1
  <2> QED
    BY <1>0, <1>4, <2>1, <2>2 DEF TypeOK, Shape, NoMark
<1>5. ASSUME Crash, UNCHANGED <<sent, wire, data, packet, closed, stale, mark>>,
             index' \in index..Len(data)
      PROVE  TypeOK' /\ Shape(w)'
  <2>1. pc' = [x \in Workers |-> "dead"] /\ pc'[w] = "dead"
    BY <1>5 DEF Crash
  <2>2. index' \in 0..Len(data') /\ mark' \in -1..index'
    BY <1>0, <1>5
  <2> QED
    BY <1>5, <2>1, <2>2 DEF TypeOK, Shape
<1>6. ASSUME ReadId(w) PROVE TypeOK' /\ Shape(w)'
  <2>1. /\ pc[w] = "id" /\ mark = 0 /\ index = 0 /\ Len(data) > 0 /\ available = Len(data)
        /\ UNCHANGED <<sent, wire, data, closed, stale>>
    <3>1. data # <<>>
      BY <1>6 DEF ReadId, Shape
    <3>2. Len(data) > 0
      BY <1>0, <3>1, EmptySeq
    <3> QED
      BY <1>0, <1>6, <3>2 DEF ReadId, Shape, available
  <2>2. index' = 1 /\ UNCHANGED mark
    BY <1>0, <1>6, <2>1 DEF ReadId
  <2>3. CASE Crash /\ UNCHANGED packet
    BY <1>0, <1>5, <2>1, <2>2, <2>3
  <2>4. ASSUME NEW i \in Registered,
               packet' = [packet EXCEPT ![w] = [id |-> i, size |-> PacketSize(i)]],
               pc' = [pc EXCEPT ![w] = IF PacketSize(i) < 0 THEN "size" ELSE "payload"]
        PROVE  TypeOK' /\ Shape(w)'
    <3>1. PacketSize(i) \in -2..11 /\ i \in Byte
      BY SizeType
    <3>2. PacketSize(i) \in {-2, -1} \cup Short
      BY <3>1, SMT DEF Short
    <3>3. [id |-> i, size |-> PacketSize(i)] \in [id : Byte, size : {-2, -1} \cup Short]
      BY <3>1, <3>2
    <3>4. packet' \in [Workers -> [id : Byte, size : {-2, -1} \cup Short]]
      BY <2>4, <3>3 DEF TypeOK
    <3>5. packet'[w] = [id |-> i, size |-> PacketSize(i)]
      BY <2>4 DEF TypeOK
    <3>6. (pc'[w] = "size" /\ PacketSize(i) \in {-2, -1}) \/ pc'[w] = "payload"
      BY <1>0, <2>4, <3>1
    <3>7. pc' \in [Workers -> Pcs] /\ index' \in 0..Len(data') /\ mark' \in -1..index'
      BY <1>0, <2>1, <2>2, <2>4
    <3> QED
      BY <2>1, <2>2, <3>4, <3>5, <3>6, <3>7 DEF TypeOK, Shape
  <2> QED
    BY <1>0, <1>6, <2>1, <2>3, <2>4 DEF ReadId, Goto
<1>7. ASSUME ReadSize(w) PROVE TypeOK' /\ Shape(w)'
  <2>1. /\ pc[w] = "size" /\ mark = 0 /\ index > 0 /\ UNCHANGED <<sent, wire, data, closed, stale>>
        /\ packet[w].size \in {-2, -1} /\ packet[w].id \in Registered
        /\ available = Len(data) - index
    BY <1>0, <1>7 DEF ReadSize, Shape, available
  <2>2. CASE ResetAndWait(w) /\ UNCHANGED packet
    BY <1>4, <2>1, <2>2
  <2>3. ASSUME NEW n \in 1..2, NEW z, available >= n, index' = index + n, UNCHANGED mark,
               packet' = [packet EXCEPT ![w].size = z], z \in Short,
               pc' = [pc EXCEPT ![w] = "payload"]
        PROVE  TypeOK' /\ Shape(w)'
    <3>1. /\ packet' \in [Workers -> [id : Byte, size : {-2, -1} \cup Short]]
          /\ packet'[w].id = packet[w].id
      BY <2>3 DEF TypeOK
    <3>2. index' \in 0..Len(data') /\ mark' \in -1..index' /\ index' > 0
      BY <1>0, <2>1, <2>3
    <3>3. pc'[w] = "payload" /\ pc' \in [Workers -> Pcs]
      BY <1>0, <2>3
    <3> QED
      BY <2>1, <2>3, <3>1, <3>2, <3>3 DEF TypeOK, Shape
  <2>4. ASSUME available >= 1 PROVE Bytes(1)[1] \in Byte
    BY <1>0, <2>1, <2>4 DEF Bytes
  <2>5. ASSUME available >= 2 PROVE read_unsigned_short(Bytes(2)) \in Short
    <3>1. PICK a \in Byte, b \in Byte : Bytes(2)[1] = a /\ Bytes(2)[2] = b
      BY <1>0, <2>1, <2>5 DEF Bytes
    <3>2. 256 * a + b \in Short
      BY SMT DEF Byte, Short
    <3> QED
      BY <3>1, <3>2 DEF read_unsigned_short
  <2>6. PICK n \in 1..2 : n = -packet[w].size
    <3> PICK z \in {-2, -1} : z = packet[w].size
      BY <2>1
    <3>1. -z \in 1..2
      OBVIOUS
    <3> QED
      BY <3>1
  <2>7. CASE ~(available >= n)
    BY <1>7, <2>2, <2>6, <2>7 DEF ReadSize
  <2>8. CASE available >= n
    <3> DEFINE z == IF n = 1 THEN Bytes(1)[1] ELSE read_unsigned_short(Bytes(2))
    <3>1. z \in Short
      <4>1. CASE n = 1
        BY <2>4, <2>8, <4>1, ByteIsShort
      <4>2. CASE n = 2
        BY <2>5, <2>8, <4>2
      <4> QED
        BY <4>1, <4>2
    <3>2. ~(available < n)
      BY <1>0, <2>1, <2>8
    <3>3. /\ index' = index + n /\ UNCHANGED mark
          /\ packet' = [packet EXCEPT ![w].size = z]
          /\ pc' = [pc EXCEPT ![w] = "payload"]
      BY <1>7, <2>6, <3>2 DEF ReadSize, Goto
    <3> HIDE DEF z
    <3> QED
      BY <2>3, <2>8, <3>1, <3>3
  <2> QED
    BY <1>0, <2>1, <2>7, <2>8
<1>8. ASSUME AwaitPayload(w) PROVE TypeOK' /\ Shape(w)'
  <2>1. /\ pc[w] = "payload" /\ mark = 0 /\ index > 0 /\ packet[w].id \in Registered
        /\ UNCHANGED <<sent, wire, data, packet, closed, stale>>
    BY <1>8 DEF AwaitPayload, Shape
  <2>2. CASE ResetAndWait(w)
    BY <1>4, <2>1, <2>2
  <2>3. CASE pc' = [pc EXCEPT ![w] = "handle"] /\ UNCHANGED <<index, mark>>
    <3>1. pc'[w] = "handle" /\ pc' \in [Workers -> Pcs]
      BY <1>0, <2>3
    <3> QED
      BY <2>1, <2>3, <3>1 DEF TypeOK, Shape
  <2> QED
    BY <1>8, <2>2, <2>3 DEF AwaitPayload, Goto
<1>9. ASSUME Handle(w) PROVE TypeOK' /\ Shape(w)'
  <2>1. /\ mark = 0 /\ packet[w].id \in Registered
        /\ UNCHANGED <<sent, wire, data, mark, packet, stale>>
    BY <1>9 DEF Handle, Shape
  <2>2. PICK n \in Nat : n = HandlerReads(packet[w].id, SubSeq(data, index + 1, Len(data)))
    BY <2>1, StreamType, ReadsType
  <2>3. CASE Crash /\ UNCHANGED <<index, closed>>
    BY <1>0, <1>5, <2>1, <2>3
  <2>4. CASE /\ CanRead(n) /\ index' = index + n /\ closed' = (closed \/ Closes(packet[w].id))
             /\ pc' = [pc EXCEPT ![w] = "delete"]
    <3>1. pc'[w] = "delete" /\ pc' \in [Workers -> Pcs] /\ closed' \in BOOLEAN
      BY <1>0, <2>4 DEF TypeOK, Closes
    <3>2. index' \in 0..Len(data') /\ mark' \in -1..index'
      BY <1>0, <2>1, <2>4 DEF CanRead
    <3> QED
      BY <2>1, <3>1, <3>2 DEF TypeOK, Shape
  <2> QED
    BY <1>9, <2>2, <2>3, <2>4 DEF Handle, Goto
<1>10. ASSUME DeleteMarkedBlock(w) PROVE TypeOK' /\ Shape(w)'
  <2>1. mark = 0 /\ UNCHANGED <<sent, wire, packet, closed, stale>>
    BY <1>10 DEF DeleteMarkedBlock, Shape
  <2>2. /\ data' \in Seq(Byte) /\ index' = 0 /\ mark' = -1
        /\ pc' = [pc EXCEPT ![w] = "loop"]
    <3>1. data' = SubSeq(data, 1, mark) \o SubSeq(data, index + 1, Len(data))
      <4> DEFINE s == SubSeq(data, 1, mark) \o SubSeq(data, index + 1, Len(data))
      <4>1. mark # NoMark
        BY <2>1 DEF NoMark
      <4>2. data' = s
        BY <1>10, <4>1, Zenon DEF DeleteMarkedBlock
      <4> QED
        BY <4>2
    <3>2. index' = mark /\ mark' = -1 /\ pc' = [pc EXCEPT ![w] = "loop"]
      BY <1>10, <2>1 DEF DeleteMarkedBlock, Goto, NoMark
    <3>3. data' \in Seq(Byte)
      BY <2>1, <3>1, DeleteType
    <3> QED
      BY <2>1, <3>2, <3>3
  <2>3. pc'[w] = "loop" /\ Len(data') \in Nat
    BY <1>0, <2>2
  <2> QED
    BY <2>1, <2>2, <2>3 DEF TypeOK, Shape, NoMark
<1>11. ASSUME Accept PROVE TypeOK' /\ Shape(w)'
  <2>1. <<>> \in Seq(Packets) /\ <<>> \in Seq(Byte) /\ Len(<<>>) <= MaxSent
    BY PacketProcessorAssumption
  <2>2. closed' \in BOOLEAN /\ stale' \in BOOLEAN
    BY <1>11 DEF Accept
  <2> QED
    BY <1>11, <2>1, <2>2 DEF TypeOK, Shape, Accept
<1>12. CASE UNCHANGED vars
  BY <1>12 DEF TypeOK, Shape, vars
<1>13. ASSUME NEW x \in Workers, Receive(x) \/ ReceiveNothing(x) \/ Process(x)
       PROVE  TypeOK' /\ Shape(w)'
  BY <1>0, <1>2, <1>3, <1>6, <1>7, <1>8, <1>9, <1>10, <1>13 DEF Process
<1> QED
  BY <1>1, <1>11, <1>12, <1>13 DEF Next
-----------------------------------------------------------------------------
(* It holds at the start, and each action keeps it.                         *)

LEMMA Starts ==
  ASSUME Init, NEW w \in Workers
  PROVE  Kept(w)
<1>1. sent = <<>> /\ handled = <<>> /\ Rest = <<>>
  BY DEF Init, Rest
<1>2. InOrder
  <2>1. <<>> \in Seq(Packets)
    OBVIOUS
  <2>2. Len(<<>>) = 0
    OBVIOUS
  <2>3. <<>> \o <<>> = <<>>
    OBVIOUS
  <2> QED
    BY <1>1, <2>1, <2>2, <2>3 DEF Init, InOrder
<1>3. EncodeAll(Rest) = <<>>
  BY <1>1, EncodeNone
<1>4. PollOK(w)
  BY <1>1, <1>3 DEF Init, PollOK
<1>5. TypeOK
  <2>1. 0 \in Byte /\ 0 \in Short
    <3>1. 0 \in Byte
      BY SMT DEF Byte
    <3> QED
      BY <3>1, ByteIsShort
  <2>2. [id |-> 0, size |-> 0] \in [id : Byte, size : {-2, -1} \cup Short]
    BY <2>1
  <2>3. packet \in [Workers -> [id : Byte, size : {-2, -1} \cup Short]]
    BY <2>2 DEF Init
  <2>4. sent \in Seq(Packets) /\ Len(sent) <= MaxSent
    BY PacketProcessorAssumption DEF Init
  <2>5. wire \in Seq(Byte) /\ data \in Seq(Byte) /\ index \in 0..Len(data) /\ mark \in -1..index
    BY DEF Init, NoMark
  <2>6. pc \in [Workers -> {"idle", "loop", "id", "size", "payload", "handle", "delete", "dead"}]
    BY DEF Init
  <2> QED
    BY <2>3, <2>4, <2>5, <2>6 DEF Init, TypeOK
<1>6. Shape(w)
  BY DEF Init, Shape, NoMark
<1> QED
  BY <1>2, <1>4, <1>5, <1>6 DEF Kept, InStep

LEMMA Marks ==
  ASSUME AllWellFormed, OneAtATime, NEW w \in Workers, TypeOK, Shape(w), InStep(w), MarkPosition(w)
  PROVE  InStep(w)'
<1> USE DEF InStep
<1>0. pc[w] = "loop" /\ index = 0 /\ mark = NoMark /\ data \o wire = EncodeAll(Rest)
  BY DEF MarkPosition, PollOK, Shape
<1>1. /\ UNCHANGED <<sent, wire, data, index, packet, handled, closed, Rest>>
      /\ EncodeAll(Rest)' = EncodeAll(Rest)
  BY DEF MarkPosition, Rest
<1>2. data \in Seq(Byte) /\ Len(data) \in Nat /\ available = Len(data)
  BY <1>0 DEF TypeOK, available
<1>3. InOrder'
  BY <1>1 DEF InOrder
<1>4. CASE available = 0
  <2>1. pc' = [pc EXCEPT ![w] = "idle"] /\ mark' = NoMark
    BY <1>0, <1>2, <1>4 DEF MarkPosition, Goto
  <2>2. pc'[w] = "idle"
    BY <2>1 DEF TypeOK
  <2>4. Rest # <<>> => Len(data) < Len(Encode(Rest[1]))
    <3>1. SUFFICES ASSUME Rest # <<>> PROVE Len(data) < Len(Encode(Rest[1]))
      OBVIOUS
    <3>2. Len(Encode(Rest[1])) \in Nat \ {0}
      BY <3>1, FirstOfRest
    <3> QED
      BY <1>2, <1>4, <3>2
  <2>5. PollOK(w)'
    BY <1>0, <1>1, <2>1, <2>2, <2>4 DEF PollOK, Shape
  <2> QED
    BY <1>3, <2>5
<1>5. CASE available > 0
  <2>1. pc' = [pc EXCEPT ![w] = "id"] /\ mark' = 0
    BY <1>0, <1>2, <1>5 DEF MarkPosition, Goto
  <2>2. pc'[w] = "id"
    BY <2>1 DEF TypeOK
  <2>4. data # <<>>
    BY <1>2, <1>5
  <2>5. PollOK(w)'
    BY <1>0, <1>1, <2>1, <2>2, <2>4 DEF PollOK, Shape
  <2> QED
    BY <1>3, <2>5
<1> QED
  BY <1>2, <1>4, <1>5

LEMMA ReadsId ==
  ASSUME AllWellFormed, OneAtATime, NEW w \in Workers, TypeOK, Shape(w), InStep(w), ReadId(w)
  PROVE  InStep(w)'
<1> USE DEF InStep
<1>0. /\ pc[w] = "id" /\ index = 0 /\ mark = 0 /\ data # <<>> /\ data \o wire = EncodeAll(Rest)
  BY DEF ReadId, PollOK, Shape
<1>1. /\ UNCHANGED <<sent, wire, data, handled, closed, Rest>>
      /\ EncodeAll(Rest)' = EncodeAll(Rest)
  BY DEF ReadId, Rest
<1>2. data \in Seq(Byte) /\ wire \in Seq(Byte) /\ Len(data) \in Nat \ {0} /\ available = Len(data)
  <2>1. data \in Seq(Byte) /\ wire \in Seq(Byte)
    BY DEF TypeOK
  <2>2. Len(data) \in Nat \ {0}
    BY <1>0, <2>1, EmptySeq
  <2> QED
    BY <1>0, <2>1, <2>2 DEF available
<1>3. InOrder'
  BY <1>1 DEF InOrder
<1>4. Rest # <<>>
  BY <1>0, NothingWaits
<1>5. PICK p \in Packets : p = Rest[1] /\ WellFormed(p)
  BY <1>4, FirstOfRest
<1>6. data[1] = p.id
  <2>1. Header(p)[1] = p.id /\ Len(Header(p)) \in 1..3
    BY <1>5, HeaderTypes
  <2>2. 1 \in 1..Len(Header(p)) /\ 1 <= Len(data)
    BY <1>2, <2>1
  <2> QED
    BY <1>0, <1>4, <1>5, <2>1, <2>2, Waiting
<1>7. p.id \in Registered /\ p.id \in Byte /\ PacketSize(p.id) \in -2..11
  BY <1>5, SizeType DEF WellFormed
<1>8. /\ index' = 1 /\ mark' = 0
      /\ packet' = [packet EXCEPT ![w] = [id |-> p.id, size |-> PacketSize(p.id)]]
      /\ pc' = [pc EXCEPT ![w] = IF PacketSize(p.id) < 0 THEN "size" ELSE "payload"]
  <2>1. ~(available < 1) /\ index + 1 = 1
    BY <1>0, <1>2
  <2> QED
    BY <1>0, <1>6, <1>7, <2>1 DEF ReadId, Goto
<1>9. packet'[w] = [id |-> p.id, size |-> PacketSize(p.id)]
  BY <1>8 DEF TypeOK
<1>12. CASE PacketSize(p.id) < 0
  <2>1. pc'[w] = "size"
    BY <1>8, <1>12 DEF TypeOK
  <2>2. PollOK(w)'
    BY <1>0, <1>1, <1>4, <1>5, <1>8, <1>9, <1>12, <2>1 DEF PollOK, Shape
  <2> QED
    BY <1>3, <2>2
<1>13. CASE ~(PacketSize(p.id) < 0)
  <2>1. pc'[w] = "payload"
    BY <1>8, <1>13 DEF TypeOK
  <2>2. Len(Header(p)) = 1 /\ Len(p.payload) = PacketSize(p.id)
    <3>1. PacketSize(p.id) >= 0
      BY <1>7, <1>13
    <3> QED
      BY <1>5, <1>13, <3>1, HeaderTypes, Headers
  <2>3. PollOK(w)'
    BY <1>0, <1>1, <1>4, <1>5, <1>8, <1>9, <2>1, <2>2 DEF PollOK, Shape
  <2> QED
    BY <1>3, <2>3
<1> QED
  BY <1>12, <1>13

\* A poll that has to wait puts the stream back to where it began.
LEMMA Resets ==
  ASSUME AllWellFormed, OneAtATime, NEW w \in Workers, TypeOK, Shape(w), InStep(w),
         Rest # <<>>, mark = 0, data \o wire = EncodeAll(Rest), Len(data) < Len(Encode(Rest[1])),
         ResetAndWait(w), UNCHANGED <<sent, wire, data, packet, handled, closed>>
  PROVE  InStep(w)'
<1> USE DEF InStep
<1>1. UNCHANGED Rest /\ EncodeAll(Rest)' = EncodeAll(Rest)
  BY DEF Rest
<1>2. index' = 0 /\ mark' = NoMark /\ pc' = [pc EXCEPT ![w] = "idle"]
  BY DEF ResetAndWait, NoMark, Goto
<1>3. pc'[w] = "idle"
  BY <1>2 DEF TypeOK
<1>4. InOrder'
  BY <1>1 DEF InOrder
<1>6. PollOK(w)'
  BY <1>1, <1>2, <1>3 DEF PollOK, Shape
<1> QED
  BY <1>4, <1>6

LEMMA ReadsSize ==
  ASSUME AllWellFormed, OneAtATime, NEW w \in Workers, TypeOK, Shape(w), InStep(w), ReadSize(w)
  PROVE  InStep(w)'
<1> USE DEF InStep
<1>0. /\ pc[w] = "size" /\ index = 1 /\ mark = 0 /\ data \o wire = EncodeAll(Rest) /\ Rest # <<>>
      /\ PacketSize(Rest[1].id) < 0
      /\ packet[w] = [id |-> Rest[1].id, size |-> PacketSize(Rest[1].id)]
  BY DEF ReadSize, PollOK, Shape
<1>1. /\ UNCHANGED <<sent, wire, data, handled, closed, Rest>>
      /\ EncodeAll(Rest)' = EncodeAll(Rest)
  BY DEF ReadSize, Rest
<1>2. data \in Seq(Byte) /\ wire \in Seq(Byte) /\ Len(data) \in Nat \ {0}
  BY <1>0 DEF TypeOK
<1>3. InOrder'
  BY <1>1 DEF InOrder
<1>4. PICK p \in Packets : p = Rest[1] /\ WellFormed(p)
  BY <1>0, FirstOfRest
<1>5. PICK n \in 1..2 : PacketSize(p.id) = -n /\ n = -packet[w].size /\ Len(Header(p)) = n + 1
  <2>1. PacketSize(p.id) \in -2..11 /\ PacketSize(p.id) < 0
    BY <1>0, <1>4, Headers
  <2>2. PICK z \in {-2, -1} : z = PacketSize(p.id)
    BY <2>1
  <2>3. packet[w].size = z
    BY <1>0, <1>4, <2>2
  <2>4. Len(Header(p)) = 1 - z
    BY <1>4, <2>1, <2>2, HeaderTypes
  <2>5. -z \in 1..2 /\ z = -(-z) /\ 1 - z = -z + 1
    OBVIOUS
  <2> QED
    BY <2>2, <2>3, <2>4, <2>5
<1>6. /\ \A i \in 1..n + 1 : i <= Len(data) => data[i] = Header(p)[i]
      /\ n + 1 <= Len(Encode(p)) /\ Len(Encode(p)) \in Nat
  BY <1>0, <1>4, <1>5, Waiting, FirstOfRest
<1>7. available = Len(data) - 1
  <2> PICK l \in Nat \ {0} : l = Len(data)
    BY <1>2
  <2>1. index = 1
    BY <1>0
  <2>2. (IF 1 < l THEN l - 1 ELSE 0) = l - 1
    OBVIOUS
  <2>3. available = IF 1 < l THEN l - 1 ELSE 0
    BY <2>1 DEF available
  <2> QED
    BY <2>2, <2>3
<1>8. CASE available < n
  <2>1. ResetAndWait(w) /\ UNCHANGED packet
    BY <1>2, <1>5, <1>7, <1>8 DEF ReadSize
  <2>2. Len(data) < Len(Encode(Rest[1]))
    BY <1>2, <1>4, <1>6, <1>7, <1>8
  <2> QED
    BY <1>0, <1>1, <2>1, <2>2, Resets
<1>9. CASE available >= n
  <2>1. n + 1 <= Len(data)
    BY <1>2, <1>7, <1>9
  <2>2. /\ index' = 1 + n /\ UNCHANGED mark
        /\ pc' = [pc EXCEPT ![w] = "payload"]
        /\ packet' = [packet EXCEPT ![w].size = IF n = 1 THEN Bytes(1)[1]
                                                ELSE read_unsigned_short(Bytes(2))]
    BY <1>0, <1>2, <1>5, <1>7, <1>9 DEF ReadSize, Goto
  <2>3. (IF n = 1 THEN Bytes(1)[1] ELSE read_unsigned_short(Bytes(2))) = Len(p.payload)
    <3>1. CASE n = 1
      <4>1. Bytes(1)[1] = data[2]
        BY <1>0, <1>2, <2>1, <3>1 DEF Bytes
      <4>2. data[2] = Header(p)[2]
        BY <1>6, <2>1, <3>1
      <4>3. Header(p) = <<p.id, Len(p.payload)>>
        BY <1>4, <1>5, <3>1, Headers
      <4> QED
        BY <3>1, <4>1, <4>2, <4>3
    <3>2. CASE n = 2
      <4>1. PICK a \in Byte, b \in Byte :
              Header(p) = <<p.id, a, b>> /\ read_unsigned_short(<<a, b>>) = Len(p.payload)
        BY <1>4, <1>5, <3>2, Headers
      <4>2. data[2] = a /\ data[3] = b
        <5>1. data[2] = Header(p)[2] /\ data[3] = Header(p)[3]
          BY <1>6, <2>1, <3>2
        <5> QED
          BY <4>1, <5>1
      <4>3. Bytes(2) = <<a, b>>
        <5>1. Bytes(2) = SubSeq(data, 2, 3)
          BY <1>0 DEF Bytes
        <5>2. /\ Len(SubSeq(data, 2, 3)) = 2 /\ SubSeq(data, 2, 3) \in Seq(Byte)
              /\ SubSeq(data, 2, 3)[1] = data[2] /\ SubSeq(data, 2, 3)[2] = data[3]
          BY <1>2, <2>1, <3>2
        <5> DEFINE s == SubSeq(data, 2, 3)
        <5>3. <<a, b>> \in Seq(Byte) /\ Len(<<a, b>>) = 2 /\ <<a, b>>[1] = a /\ <<a, b>>[2] = b
          BY Tuples
        <5> HIDE DEF s
        <5>4. s \in Seq(Byte) /\ Len(s) = 2 /\ \A i \in 1..Len(s) : s[i] = <<a, b>>[i]
          BY <4>2, <5>2, <5>3 DEF s
        <5>5. s = <<a, b>>
          BY <5>3, <5>4, SeqEqual
        <5> QED
          BY <5>1, <5>5 DEF s
      <4> QED
        BY <3>2, <4>1, <4>3
    <3> QED
      BY <3>1, <3>2
  <2>4. packet' = [packet EXCEPT ![w].size = Len(p.payload)]
    BY <2>2, <2>3
  <2>5. packet'[w] = [id |-> p.id, size |-> Len(p.payload)]
    BY <1>0, <1>4, <2>4 DEF TypeOK
  <2>6. pc'[w] = "payload"
    BY <2>2 DEF TypeOK
  <2>8. PollOK(w)'
    BY <1>0, <1>1, <1>4, <1>5, <2>2, <2>5, <2>6 DEF PollOK, Shape
  <2> QED
    BY <1>3, <2>8
<1> QED
  BY <1>2, <1>5, <1>7, <1>8, <1>9

LEMMA Awaits ==
  ASSUME AllWellFormed, OneAtATime, NEW w \in Workers, TypeOK, Shape(w), InStep(w), AwaitPayload(w)
  PROVE  InStep(w)'
<1> USE DEF InStep
<1>0. /\ pc[w] = "payload" /\ mark = 0 /\ data \o wire = EncodeAll(Rest) /\ Rest # <<>>
      /\ index = Len(Header(Rest[1]))
      /\ packet[w] = [id |-> Rest[1].id, size |-> Len(Rest[1].payload)]
  BY DEF AwaitPayload, PollOK, Shape
<1>1. /\ UNCHANGED <<sent, wire, data, packet, handled, closed, Rest>>
      /\ EncodeAll(Rest)' = EncodeAll(Rest)
  BY DEF AwaitPayload, Rest
<1>2. Len(data) \in Nat /\ index \in Nat /\ index <= Len(data)
  BY DEF TypeOK
<1>3. InOrder'
  BY <1>1 DEF InOrder
<1>4. PICK m \in Nat : m = Len(Rest[1].payload) /\ packet[w].size = m
  BY <1>0, FirstOfRest
<1>5. PICK k \in Nat : k = Len(Encode(Rest[1])) /\ k = index + m
  BY <1>0, <1>4, FirstOfRest
<1>6. available = Len(data) - index
  BY <1>2 DEF available
<1>7. CASE available < m
  <2>1. ResetAndWait(w)
    BY <1>2, <1>4, <1>6, <1>7 DEF AwaitPayload
  <2>2. Len(data) < k
    BY <1>2, <1>5, <1>6, <1>7
  <2> QED
    BY <1>0, <1>1, <1>5, <2>1, <2>2, Resets
<1>8. CASE available >= m
  <2>1. pc' = [pc EXCEPT ![w] = "handle"] /\ UNCHANGED <<index, mark>>
    BY <1>2, <1>4, <1>6, <1>8 DEF AwaitPayload, Goto
  <2>2. pc'[w] = "handle"
    BY <2>1 DEF TypeOK
  <2>4. Len(data) >= k
    BY <1>2, <1>5, <1>6, <1>8
  <2>5. PollOK(w)'
    BY <1>0, <1>1, <1>5, <2>1, <2>2, <2>4 DEF PollOK, Shape
  <2> QED
    BY <1>3, <2>5
<1> QED
  BY <1>2, <1>6, <1>7, <1>8

\* The packet that is handled is the next one.
LEMMA Handles ==
  ASSUME AllWellFormed, OneAtATime, NEW w \in Workers, TypeOK, Shape(w), InStep(w), Handle(w)
  PROVE  /\ InStep(w)'
         /\ handled' = Append(handled, Rest[1]) /\ Rest # <<>>
<1> USE DEF InStep
<1>0. /\ pc[w] = "handle" /\ mark = 0 /\ data \o wire = EncodeAll(Rest) /\ Rest # <<>>
      /\ index = Len(Header(Rest[1]))
      /\ packet[w] = [id |-> Rest[1].id, size |-> Len(Rest[1].payload)]
      /\ Len(data) >= Len(Encode(Rest[1]))
  BY DEF Handle, PollOK, Shape
<1>1. UNCHANGED <<sent, wire, data, mark, packet>>
  BY DEF Handle
<1>2. data \in Seq(Byte) /\ wire \in Seq(Byte) /\ Len(data) \in Nat
  BY DEF TypeOK
<1>3. PICK p \in Packets, t \in Seq(Packets) :
        /\ p = Rest[1] /\ WellFormed(p) /\ t = Tail(Rest)
        /\ EncodeAll(Rest) = Encode(p) \o EncodeAll(t)
  BY <1>0, FirstOfRest
<1>4. PICK m \in Nat, k \in Nat, h \in 1..3 :
        /\ m = Len(p.payload) /\ k = Len(Encode(p)) /\ h = Len(Header(p)) /\ k = h + m
  BY <1>0, <1>3, FirstOfRest
<1>5. /\ HandlerReads(packet[w].id, SubSeq(data, index + 1, Len(data))) = m
      /\ packet[w].id = p.id
  <2>1. PICK hd \in Seq(Byte), e \in Seq(Byte), s \in Seq(Byte) :
          hd = Header(p) /\ e = Encode(p) /\ s = p.payload /\ e = hd \o s
    BY <1>3, HeaderTypes, Encodings, PacketType DEF Encode
  <2>2. \A i \in 1..Len(data) : i <= Len(e) => data[i] = e[i]
    BY <1>0, <1>3, <2>1, Waiting
  <2>3. Len(e) <= Len(data)
    BY <1>0, <1>3, <2>1
  <2>4. PICK r \in Seq(Byte) : data = e \o r
    BY <1>2, <2>2, <2>3, FrontRest
  <2>8. s \o r \in Seq(Byte) /\ (hd \o s) \o r = hd \o (s \o r)
    BY ConcatAssociative, ConcatProperties
  <2>9. data = hd \o (s \o r)
    BY <2>1, <2>4, <2>8
  <2>5. SubSeq(data, Len(hd) + 1, Len(data)) = s \o r
    BY <2>8, <2>9, RestIs
  <2>6. HandlerReads(p.id, s \o r) = m
    BY <1>3, <1>4, <2>1, HandlerTakes
  <2>7. index = Len(hd) /\ packet[w].id = p.id
    BY <1>0, <1>3, <2>1
  <2> QED
    BY <2>5, <2>6, <2>7
<1>6. CanRead(m) /\ index = h /\ index + m = k /\ k <= Len(data)
  <2>1. index = h /\ k <= Len(data)
    BY <1>0, <1>2, <1>3, <1>4
  <2> QED
    BY <1>2, <1>4, <2>1 DEF CanRead
<1>7. Bytes(m) = p.payload
  <2>1. \A i \in 1..Len(data) : i <= k => data[i] = Encode(p)[i]
    BY <1>0, <1>3, <1>4, Waiting
  <2>2. Encode(p) \in Seq(Byte) /\ SubSeq(Encode(p), h + 1, k) = p.payload
    BY <1>3, <1>4, Encodings
  <2>3. PICK e \in Seq(Byte) : e = Encode(p)
    BY <2>2
  <2>4. Len(e) = k
    BY <1>4, <2>3
  <2>5. /\ SubSeq(data, h + 1, k) \in Seq(Byte) /\ Len(SubSeq(data, h + 1, k)) = m
        /\ \A i \in 1..m : SubSeq(data, h + 1, k)[i] = data[h + i]
    BY <1>2, <1>4, <1>6
  <2>6. /\ SubSeq(e, h + 1, k) \in Seq(Byte) /\ Len(SubSeq(e, h + 1, k)) = m
        /\ \A i \in 1..m : SubSeq(e, h + 1, k)[i] = e[h + i]
    BY <1>4, <2>4
  <2>7. ASSUME NEW i \in 1..m PROVE data[h + i] = e[h + i]
    <3>1. h + i \in 1..Len(data) /\ h + i <= k
      BY <1>2, <1>4, <1>6
    <3> QED
      BY <2>1, <2>3, <3>1
  <2> DEFINE s == SubSeq(data, h + 1, k)
             u == SubSeq(e, h + 1, k)
  <2>8. \A i \in 1..m : s[i] = u[i]
    BY <2>5, <2>6, <2>7
  <2>9. s \in Seq(Byte) /\ u \in Seq(Byte) /\ Len(s) = m /\ Len(u) = m
    BY <2>5, <2>6
  <2> HIDE DEF s, u
  <2>10. s = u
    BY <2>8, <2>9, SeqEqual
  <2> QED
    BY <1>4, <1>6, <2>2, <2>3, <2>10 DEF s, u, Bytes
<1>8. /\ index' = k /\ handled' = Append(handled, p) /\ closed' = (closed \/ Closes(p.id))
      /\ pc' = [pc EXCEPT ![w] = "delete"]
  <2>1. [id |-> p.id, payload |-> Bytes(m)] = p
    BY <1>7, PacketType
  <2> QED
    BY <1>5, <1>6, <2>1 DEF Handle, Goto
<1>9. pc'[w] = "delete"
  BY <1>8 DEF TypeOK
<1>10. PICK hs \in Seq(Packets), ns \in Seq(Packets) : hs = handled /\ ns = Append(hs, p)
  <2>1. handled \in Seq(Packets) /\ Append(handled, p) \in Seq(Packets)
    BY AppendProperties DEF InOrder
  <2> QED
    BY <2>1
<1>11. ns = hs \o <<p>> /\ Len(ns) = Len(hs) + 1 /\ ns[Len(ns)] = p /\ Len(hs) \in Nat
  <2>1. ns = hs \o <<p>>
    BY <1>10, AppendIsConcat
  <2>2. Len(ns) = Len(hs) + 1 /\ ns[Len(hs) + 1] = p /\ Len(hs) \in Nat
    BY <1>10
  <2> QED
    BY <2>1, <2>2
<1>12. sent = ns \o t /\ Rest' = t
  <2>1. Rest \in Seq(Packets) /\ sent = hs \o Rest
    BY <1>10 DEF InOrder
  <2>2. Rest = <<p>> \o t
    BY <1>0, <1>3, <2>1, HeadRest
  <2>3. <<p>> \in Seq(Packets)
    OBVIOUS
  <2>4. sent = ns \o t
    BY <1>11, <2>1, <2>2, <2>3, ConcatAssociative
  <2>5. SubSeq(ns \o t, Len(ns) + 1, Len(ns \o t)) = t
    BY RestIs
  <2> QED
    BY <1>1, <1>8, <1>10, <2>4, <2>5 DEF Rest
<1>13. handled' = ns
  BY <1>8, <1>10
<1>14. closed' => \E n \in 1..Len(ns) : Closes(ns[n].id)
  <2>1. CASE closed
    <3>1. PICK n \in 1..Len(hs) : Closes(hs[n].id)
      BY <1>10, <2>1 DEF InOrder
    <3>2. n \in 1..Len(ns) /\ ns[n] = hs[n]
      BY <1>10, <1>11
    <3> QED
      BY <3>1, <3>2
  <2>2. CASE Closes(p.id)
    <3>1. Len(ns) \in 1..Len(ns)
      BY <1>11
    <3> QED
      BY <1>11, <2>2, <3>1
  <2> QED
    BY <1>8, <2>1, <2>2
<1>15. InOrder'
  BY <1>1, <1>12, <1>13, <1>14 DEF InOrder
<1>16. PollOK(w)'
  <2>1. PICK e \in Seq(Byte), r \in Seq(Byte) : e = Encode(p) /\ r = EncodeAll(t)
    BY <1>3, Encodings, EncodesAll
  <2>2. data \o wire = e \o r /\ Len(e) <= Len(data)
    BY <1>0, <1>3, <2>1
  <2>3. SubSeq(data, Len(e) + 1, Len(data)) \o wire = r
    BY <1>2, <2>2, AtFront
  <2>4. EncodeAll(Rest)' = r
    BY <1>12, <2>1
  <2>5. index' = Len(e)
    BY <1>4, <1>8, <2>1
  <2>6. (SubSeq(data, index + 1, Len(data)) \o wire = EncodeAll(Rest))'
    BY <1>1, <2>3, <2>4, <2>5
  <2> QED
    BY <1>9, <2>6 DEF PollOK
<1> QED
  BY <1>0, <1>3, <1>8, <1>15, <1>16

LEMMA Deletes ==
  ASSUME AllWellFormed, OneAtATime, NEW w \in Workers, TypeOK, Shape(w), InStep(w),
         DeleteMarkedBlock(w)
  PROVE  InStep(w)'
<1> USE DEF InStep
<1>0. /\ pc[w] = "delete" /\ mark = 0
      /\ SubSeq(data, index + 1, Len(data)) \o wire = EncodeAll(Rest)
  BY DEF DeleteMarkedBlock, PollOK, Shape
<1>1. /\ UNCHANGED <<sent, wire, packet, handled, closed, Rest>>
      /\ EncodeAll(Rest)' = EncodeAll(Rest)
  BY DEF DeleteMarkedBlock, Rest
<1>2. data \in Seq(Byte) /\ wire \in Seq(Byte) /\ Len(data) \in Nat /\ index \in 0..Len(data)
  BY DEF TypeOK
<1>3. InOrder'
  BY <1>1 DEF InOrder
<1>7. /\ data' = SubSeq(data, index + 1, Len(data))
      /\ index' = 0 /\ mark' = NoMark /\ pc' = [pc EXCEPT ![w] = "loop"]
  BY <1>0, DeleteType DEF DeleteMarkedBlock, Goto, NoMark
<1>8. pc'[w] = "loop"
  BY <1>7 DEF TypeOK
<1>9. Rest # <<>> => pc'[w] # "idle"
  BY <1>8
<1>10. PollOK(w)'
  BY <1>0, <1>1, <1>7, <1>8, <1>9 DEF PollOK
<1> QED
  BY <1>3, <1>10

LEMMA Receives ==
  ASSUME AllWellFormed, OneAtATime, NEW w \in Workers, TypeOK, Shape(w), InStep(w),
         Receive(w) \/ ReceiveNothing(w)
  PROVE  InStep(w)'
<1> USE DEF InStep
<1>0. pc[w] = "idle" /\ index = 0 /\ mark = NoMark /\ data \o wire = EncodeAll(Rest)
  BY DEF Receive, ReceiveNothing, PollOK, Shape
<1>1. /\ UNCHANGED <<sent, index, mark, packet, handled, closed, Rest>>
      /\ EncodeAll(Rest)' = EncodeAll(Rest)
  BY DEF Receive, ReceiveNothing, Rest
<1>2. data \in Seq(Byte) /\ wire \in Seq(Byte) /\ Len(data) \in Nat
  BY DEF TypeOK
<1>3. InOrder'
  BY <1>1 DEF InOrder
<1>4. pc' = [pc EXCEPT ![w] = "loop"] /\ pc'[w] = "loop"
  BY DEF Receive, ReceiveNothing, Goto, TypeOK
<1>5. data' \in Seq(Byte) /\ wire' \in Seq(Byte) /\ data' \o wire' = data \o wire
  <2>1. CASE ReceiveNothing(w)
    BY <1>2, <2>1 DEF ReceiveNothing
  <2>2. CASE Receive(w)
    <3>1. PICK n \in 1..Len(wire) :
            data' = data \o SubSeq(wire, 1, n) /\ wire' = SubSeq(wire, n + 1, Len(wire))
      BY <2>2 DEF Receive
    <3>2. PICK a \in Seq(Byte), b \in Seq(Byte) :
            a = SubSeq(wire, 1, n) /\ b = SubSeq(wire, n + 1, Len(wire)) /\ a \o b = wire
      BY ReceiveType
    <3>3. data \o a \in Seq(Byte) /\ (data \o a) \o b = data \o (a \o b)
      BY <1>2, ConcatAssociative, ConcatProperties
    <3> QED
      BY <3>1, <3>2, <3>3
  <2> QED
    BY <2>1, <2>2
<1>7. PollOK(w)'
  BY <1>0, <1>1, <1>4, <1>5 DEF PollOK, Shape
<1> QED
  BY <1>3, <1>7

LEMMA Sends ==
  ASSUME AllWellFormed, OneAtATime, NEW w \in Workers, TypeOK, Shape(w), InStep(w),
         NEW p \in Packets, Send(p)
  PROVE  InStep(w)'
<1> USE DEF InStep
<1>1. /\ UNCHANGED <<data, index, mark, pc, packet, handled, closed>> /\ ~closed
      /\ sent' = Append(sent, p) /\ wire' = wire \o Encode(p) /\ Len(sent) < MaxSent
  BY DEF Send
<1>2. PICK r \in Seq(Packets), hs \in Seq(Packets) : r = Rest /\ hs = handled /\ sent = hs \o r
  BY DEF InOrder
<1>3. data \in Seq(Byte) /\ wire \in Seq(Byte) /\ Len(data) \in Nat
  BY DEF TypeOK
<1>4. Encode(p) \in Seq(Byte) /\ EncodeAll(r) \in Seq(Byte)
  BY Encodings, EncodesAll DEF AllWellFormed
<1>5. PICK n \in Seq(Packets) : n = r \o <<p>> /\ sent' = hs \o n /\ n = Append(r, p)
  <2>1. <<p>> \in Seq(Packets)
    OBVIOUS
  <2>2. Append(sent, p) = sent \o <<p>> /\ Append(r, p) = r \o <<p>>
    BY AppendIsConcat DEF TypeOK
  <2>3. (hs \o r) \o <<p>> = hs \o (r \o <<p>>) /\ r \o <<p>> \in Seq(Packets)
    BY <2>1, ConcatAssociative, ConcatProperties
  <2> QED
    BY <1>1, <1>2, <2>2, <2>3
<1>6. Rest' = n
  <2>1. SubSeq(hs \o n, Len(hs) + 1, Len(hs \o n)) = n
    BY RestIs
  <2> QED
    BY <1>1, <1>2, <1>5, <2>1 DEF Rest
<1>7. /\ n # <<>> /\ (r # <<>> => n[1] = r[1]) /\ (r = <<>> => n[1] = p)
  <2>1. /\ Len(n) = Len(r) + 1 /\ Len(r) \in Nat /\ n[Len(r) + 1] = p
        /\ \A i \in 1..Len(r) : n[i] = r[i]
    BY <1>5, AppendProperties
  <2>2. n # <<>>
    BY <1>5, AppendProperties
  <2>3. r # <<>> => 1 \in 1..Len(r)
    BY EmptySeq
  <2>4. r = <<>> => Len(r) = 0
    OBVIOUS
  <2> QED
    BY <2>1, <2>2, <2>3, <2>4
<1>8. EncodeAll(n) = EncodeAll(r) \o Encode(p)
  <2>1. <<p>> \in Seq(Packets)
    OBVIOUS
  <2>2. EncodeAll(r \o <<p>>) = EncodeAll(r) \o EncodeAll(<<p>>)
    BY <2>1, EncodeConcat
  <2> QED
    BY <1>5, <2>2, EncodeOne
<1>9. data' \o wire' = (data \o wire) \o Encode(p)
  <2> PICK e \in Seq(Byte) : e = Encode(p)
    BY <1>4
  <2>1. (data \o wire) \o e = data \o (wire \o e)
    BY <1>3, ConcatAssociative
  <2> QED
    BY <1>1, <2>1
<1>10. InOrder'
  BY <1>1, <1>2, <1>5, <1>6 DEF InOrder
<1>12. ASSUME pc[w] # "delete" PROVE data' \o wire' = EncodeAll(n)
  BY <1>2, <1>8, <1>9, <1>12 DEF PollOK, Shape
<1>13. ASSUME pc[w] = "delete"
       PROVE  (SubSeq(data, index + 1, Len(data)) \o wire)' = EncodeAll(n)
  <2>1. PICK a \in Seq(Byte), b \in Seq(Byte) :
          a = SubSeq(data, index + 1, Len(data)) /\ b = Encode(p)
    BY <1>4, StreamType
  <2>2. a \o wire = EncodeAll(r)
    BY <1>2, <1>13, <2>1 DEF PollOK
  <2>3. PICK u \in Seq(Byte) : u = wire
    BY <1>3
  <2>4. (a \o u) \o b = a \o (u \o b)
    BY ConcatAssociative
  <2> QED
    BY <1>1, <1>8, <2>1, <2>2, <2>3, <2>4
<1>14. ASSUME pc[w] = "idle" PROVE Len(data) < Len(Encode(n[1]))
  <2>1. CASE r # <<>>
    BY <1>2, <1>7, <1>14, <2>1 DEF PollOK, Shape
  <2>2. CASE r = <<>>
    <3>1. data = <<>>
      BY <1>2, <1>14, <2>2, NothingWaits DEF PollOK, Shape
    <3>2. Len(data) = 0
      BY <3>1
    <3>3. Len(Encode(p)) = Len(Header(p)) + Len(p.payload)
      BY Encodings DEF AllWellFormed
    <3>4. Len(Header(p)) \in 1..3 /\ Len(p.payload) \in Nat
      BY HeaderTypes, PacketType DEF AllWellFormed
    <3>5. Len(Header(p)) + Len(p.payload) > 0
      <4> PICK h \in 1..3, m \in Nat : h = Len(Header(p)) /\ m = Len(p.payload)
        BY <3>4
      <4>1. h + m > 0
        OBVIOUS
      <4> QED
        BY <4>1
    <3> QED
      BY <1>7, <2>2, <3>2, <3>3, <3>5
  <2> QED
    BY <2>1, <2>2
<1>15. PollOK(w)'
  <2>1. pc[w] \in {"size", "payload", "handle"} => n[1] = r[1]
    BY <1>2, <1>7 DEF PollOK, Shape
  <2>2. EncodeAll(Rest)' = EncodeAll(n)
    BY <1>6
  <2> QED
    BY <1>1, <1>2, <1>6, <1>7, <1>12, <1>13, <1>14, <2>1, <2>2 DEF PollOK, Shape
<1> QED
  BY <1>10, <1>15

\* With nothing left of the old connection, the poll that handled its last packet is where a poll
\* of the new one would be.
LEMMA Accepts ==
  ASSUME OneAtATime, NEW w \in Workers, TypeOK, Shape(w), Accept, Unhandled = <<>>
  PROVE  InStep(w)'
<1>1. /\ pc[w] # "dead" /\ sent' = <<>> /\ wire' = <<>> /\ handled' = <<>> /\ ~closed'
      /\ UNCHANGED <<data, index, mark, pc, packet>>
  BY DEF Accept
<1>2. Rest' = <<>> /\ EncodeAll(Rest)' = <<>>
  <2>1. SubSeq(<<>>, Len(<<>>) + 1, Len(<<>>)) = <<>>
    OBVIOUS
  <2>2. Rest' = <<>>
    BY <1>1, <2>1 DEF Rest
  <2> QED
    BY <2>2, EncodeNone
<1>3. data \in Seq(Byte) /\ Len(data) \in Nat /\ index \in 0..Len(data)
  BY DEF TypeOK
<1>4. <<>> \in Seq(Packets) /\ <<>> \in Seq(Byte) /\ Len(<<>>) = 0 /\ <<>> \o <<>> = <<>>
  OBVIOUS
<1>5. InOrder'
  BY <1>1, <1>2, <1>4 DEF InOrder
<1>6. CASE pc[w] = "delete"
  <2>1. SubSeq(data, index + 1, Len(data)) = <<>>
    BY <1>6 DEF Unhandled
  <2>2. (SubSeq(data, index + 1, Len(data)) \o wire)' = <<>>
    BY <1>1, <1>4, <2>1
  <2>3. PollOK(w)'
    BY <1>1, <1>2, <1>6, <2>2 DEF PollOK
  <2> QED
    BY <1>5, <2>3 DEF InStep
<1>7. CASE pc[w] # "delete"
  <2>1. (mark = NoMark => index = 0) /\ (mark # NoMark => mark = 0)
    BY <1>1, <1>7 DEF Shape, TypeOK, NoMark
  <2>2. ~\E x \in Workers : pc[x] = "delete"
    BY <1>7 DEF OneAtATime
  <2>3. Unhandled = SubSeq(data, 0 + 1, Len(data))
    BY <2>1, <2>2 DEF Unhandled
  <2>4. data = <<>>
    BY <1>3, <2>3, SubSeqFull
  <2>5. pc[w] \in {"idle", "loop"}
    <3>1. Len(data) = 0 /\ index = 0
      BY <1>3, <2>4
    <3> QED
      BY <1>1, <1>7, <2>4, <3>1 DEF Shape, TypeOK
  <2>6. (data \o wire)' = <<>>
    BY <1>1, <1>4, <2>4
  <2>7. PollOK(w)'
    BY <1>1, <1>2, <2>5, <2>6 DEF PollOK
  <2> QED
    BY <1>5, <2>7 DEF InStep
<1> QED
  BY <1>6, <1>7

\* What the stream offers and the wire holds is the rest.
LEMMA UnhandledIs ==
  ASSUME OneAtATime, NEW w \in Workers, TypeOK, Shape(w), InStep(w)
  PROVE  Unhandled \in Seq(Byte) /\ Unhandled \o wire = EncodeAll(Rest)
<1>1. CASE pc[w] = "delete"
  <2>1. Unhandled = SubSeq(data, index + 1, Len(data))
    BY <1>1 DEF Unhandled
  <2> QED
    BY <1>1, <2>1, StreamType DEF InStep, PollOK
<1>2. CASE pc[w] # "delete"
  <2>1. (mark = NoMark => index = 0) /\ (mark # NoMark => mark = 0)
    BY <1>2 DEF Shape, TypeOK, NoMark, InStep, PollOK
  <2>2. ~\E x \in Workers : pc[x] = "delete"
    BY <1>2 DEF OneAtATime
  <2>3. Unhandled = SubSeq(data, 0 + 1, Len(data))
    BY <2>1, <2>2 DEF Unhandled
  <2>4. data \in Seq(Byte) /\ SubSeq(data, 0 + 1, Len(data)) = data
    BY SubSeqFull DEF TypeOK
  <2> QED
    BY <1>2, <2>3, <2>4 DEF InStep, PollOK
<1> QED
  BY <1>1, <1>2

AllKept == \A w \in Workers : Kept(w)

LEMMA KeptInvariant ==
  ASSUME AllWellFormed, OneAtATime
  PROVE  Spec => []AllKept
<1>1. Init => AllKept
  BY Starts DEF AllKept
<1>2. AllKept /\ [Next]_vars => AllKept'
  <2> SUFFICES ASSUME AllKept, [Next]_vars, NEW w \in Workers PROVE Kept(w)'
    BY DEF AllKept
  <2>0. TypeOK /\ Shape(w) /\ (~stale => InStep(w)) /\ \A x \in Workers : x = w
    BY DEF AllKept, OneAtATime, Kept
  <2>1. TypeOK' /\ Shape(w)'
    BY <2>0, Shapes
  <2>2. SUFFICES ASSUME ~stale' PROVE InStep(w)'
    BY <2>1 DEF Kept
  <2>3. CASE Accept
    BY <2>0, <2>2, <2>3, Accepts DEF Accept
  <2>4. ASSUME ~Accept PROVE InStep(w)
    <3>1. UNCHANGED stale
      BY <2>4 DEF Next, Send, Receive, ReceiveNothing, Process, MarkPosition, ReadId, ReadSize,
                  AwaitPayload, Handle, DeleteMarkedBlock, vars
    <3> QED
      BY <2>0, <2>2, <3>1
  <2>5. ASSUME NEW p \in Packets, Send(p), InStep(w) PROVE InStep(w)'
    BY <2>0, <2>5, Sends
  <2>6. ASSUME NEW x \in Workers, Receive(x) \/ ReceiveNothing(x), InStep(w) PROVE InStep(w)'
    BY <2>0, <2>6, Receives
  <2>7. ASSUME NEW x \in Workers, Process(x), InStep(w) PROVE InStep(w)'
    BY <2>0, <2>7, Marks, ReadsId, ReadsSize, Awaits, Handles, Deletes DEF Process
  <2>8. ASSUME UNCHANGED vars, InStep(w) PROVE InStep(w)'
    <3>1. UNCHANGED Rest /\ EncodeAll(Rest)' = EncodeAll(Rest)
      BY <2>8 DEF Rest, vars
    <3>2. InOrder'
      BY <2>8, <3>1 DEF InOrder, vars, InStep
    <3>3. PollOK(w)'
      BY <2>8, <3>1 DEF PollOK, vars, InStep
    <3> QED
      BY <3>2, <3>3 DEF InStep
  <2> QED
    BY <2>3, <2>4, <2>5, <2>6, <2>7, <2>8 DEF Next
<1> QED
  BY <1>1, <1>2, PTL DEF Spec

-----------------------------------------------------------------------------
(* What follows from it.                                                    *)

\* Types and ranges, whatever the bytes: the index of the stream stays within its data, its mark
\* within what was read (basic_stream.cpp:354-377).
THEOREM TypeCorrect ==
  ASSUME OneAtATime, AllWellFormed
  PROVE  Spec => []TypeOK
<1>1. AllKept => TypeOK
  BY PacketProcessorAssumption DEF AllKept, Kept
<1> QED
  BY <1>1, KeptInvariant, PTL

\* On a connection that began with an empty stream no packet stops the server: no handler reads a
\* field that is not there, nothing resets or deletes without a mark, no id is unknown
\* (basic_stream.cpp:66-183, :354-377, packet_handler.cpp:46-97).
THEOREM NoCrash ==
  ASSUME OneAtATime, AllWellFormed
  PROVE  Spec => []NeverCrashes
<1>1. AllKept => NeverCrashes
  BY DEF AllKept, Kept, InStep, PollOK, NeverCrashes
<1> QED
  BY <1>1, KeptInvariant, PTL

\* However TCP cuts what the client sent, and though each handler reads fields without knowing the
\* size, what was handled, the buffer and the wire together are the client's bytes: none is lost,
\* doubled or handled under another packet (packet_handler.cpp:46-97).
THEOREM Lossless ==
  ASSUME OneAtATime, AllWellFormed
  PROVE  Spec => []NothingLost
<1>1. ASSUME AllKept, ~stale PROVE EncodeAll(handled) \o Unhandled \o wire = EncodeAll(sent)
  <2>1. PICK w \in Workers : TypeOK /\ Shape(w) /\ InStep(w)
    BY <1>1, PacketProcessorAssumption DEF AllKept, Kept
  <2>2. PICK hs \in Seq(Packets), r \in Seq(Packets) : hs = handled /\ r = Rest /\ sent = hs \o r
    BY <2>1 DEF InStep, InOrder
  <2>3. EncodeAll(hs \o r) = EncodeAll(hs) \o EncodeAll(r)
    BY EncodeConcat
  <2>4. PICK a \in Seq(Byte), b \in Seq(Byte), c \in Seq(Byte) :
          a = EncodeAll(hs) /\ b = Unhandled /\ c = wire
    BY <2>1, UnhandledIs, EncodesAll DEF TypeOK
  <2>5. (a \o b) \o c = a \o (b \o c)
    BY ConcatAssociative
  <2>6. b \o c = EncodeAll(r)
    BY <2>1, <2>2, <2>4, UnhandledIs
  <2> QED
    BY <2>2, <2>3, <2>4, <2>5, <2>6
<1>2. AllKept => NothingLost
  BY <1>1 DEF NothingLost
<1> QED
  BY <1>2, KeptInvariant, PTL

\* When a poll of such a connection is over, the buffer holds less than one packet: no packet that
\* could have been handled waits for the bytes of another (packet_handler.cpp:47).
THEOREM NothingLeftWaiting ==
  ASSUME OneAtATime, AllWellFormed
  PROVE  Spec => []OnlyIncompleteWaits
<1>1. ASSUME AllKept PROVE OnlyIncompleteWaits
  <2> SUFFICES ASSUME ~stale, \A w \in Workers : pc[w] = "idle", Len(handled) < Len(sent)
               PROVE  Len(data) < Len(Encode(sent[Len(handled) + 1]))
    BY DEF OnlyIncompleteWaits
  <2>1. PICK w \in Workers : TypeOK /\ InOrder /\ PollOK(w)
    BY <1>1, PacketProcessorAssumption DEF AllKept, Kept, InStep
  <2>2. PICK hs \in Seq(Packets), r \in Seq(Packets) : hs = handled /\ r = Rest /\ sent = hs \o r
    BY <2>1 DEF InOrder
  <2>4. r # <<>> /\ r[1] = sent[Len(hs) + 1]
    BY <2>2, NextToHandle
  <2> QED
    BY <2>1, <2>2, <2>4 DEF PollOK
<1> QED
  BY <1>1, KeptInvariant, PTL

\* A poll that has to wait, for an id, a size or a payload, leaves the stream at the start of
\* the packet it waits for, whatever the bytes (packet_handler.cpp:64, :72, :87).
THEOREM WaitKeeps ==
  ASSUME OneAtATime, AllWellFormed
  PROVE  Spec => WaitKeepsPacket
<1>1. AllKept' => \A w \in Workers :
                  pc[w] \in {"id", "size", "payload"} /\ pc'[w] = "idle" => index' = 0
  BY DEF AllKept, Kept, Shape
<1> QED
  BY <1>1, KeptInvariant, PTL DEF WaitKeepsPacket

\* Steps of the connection are steps of the channel that PacketChannel.tla specifies: Handle
\* delivers the next packet sent, whole; Accept reopens, and with bytes of the old connection in
\* the stream only if packets of it were not handled; the rest is not seen.  (That each is
\* delivered in the end stays with TLC.)
THEOREM RefinesPacketChannel ==
  ASSUME OneAtATime, AllWellFormed
  PROVE  Spec => ChannelOf!Init /\ [][ChannelOf!Next]_(ChannelOf!vars)
<1>1. Init => ChannelOf!Init
  BY DEF Init, ChannelOf!Init
<1>2. AllKept /\ [Next]_vars => [ChannelOf!Next]_(ChannelOf!vars)
  <2> SUFFICES ASSUME AllKept, [Next]_vars
               PROVE  ChannelOf!Next \/ UNCHANGED ChannelOf!vars
    OBVIOUS
  <2>0. PICK w \in Workers : /\ TypeOK /\ Shape(w) /\ (~stale => InStep(w))
                             /\ \A x \in Workers : x = w
    BY PacketProcessorAssumption DEF AllKept, Kept, OneAtATime
  <2>1. ASSUME NEW p \in Packets, Send(p) PROVE ChannelOf!Next
    BY <2>1 DEF Send, ChannelOf!Next, ChannelOf!Send
  <2>2. ASSUME NEW x \in Workers, Handle(x), stale PROVE ChannelOf!Next
    BY <2>2 DEF Handle, ChannelOf!Next, ChannelOf!Garble
  <2>3. ASSUME NEW x \in Workers, Handle(x), ~stale PROVE ChannelOf!Next
    <3>1. handled' = Append(handled, Rest[1]) /\ Rest # <<>> /\ UNCHANGED <<sent, stale>>
      BY <2>0, <2>3, Handles DEF Handle
    <3>2. PICK hs \in Seq(Packets), r \in Seq(Packets) : hs = handled /\ r = Rest /\ sent = hs \o r
      BY <2>0, <2>3 DEF InStep, InOrder
    <3>3. Len(hs) < Len(sent) /\ r[1] = sent[Len(hs) + 1]
      BY <3>1, <3>2, NextToHandle
    <3> QED
      BY <2>3, <3>1, <3>2, <3>3 DEF ChannelOf!Next, ChannelOf!Deliver
  <2>4. ASSUME Accept, stale PROVE ChannelOf!Next
    <3>1. stale' \in BOOLEAN /\ sent' = <<>> /\ handled' = <<>>
      BY <2>4 DEF Accept
    <3> QED
      BY <2>4, <3>1 DEF ChannelOf!Next, ChannelOf!Reopen
  <2>5. ASSUME Accept, ~stale PROVE ChannelOf!Next
    <3>1. PICK hs \in Seq(Packets), r \in Seq(Packets) : hs = handled /\ r = Rest /\ sent = hs \o r
      BY <2>0, <2>5 DEF InStep, InOrder
    <3>2. PICK n \in 1..Len(hs) : Closes(hs[n].id)
      BY <2>0, <2>5, <3>1 DEF Accept, InStep, InOrder
    <3>3. hs[n] \in {p \in Packets : Closes(p.id)}
      BY <3>2
    <3>4. ChannelOf!Closed
      BY <3>1, <3>2, <3>3 DEF ChannelOf!Closed
    <3>5. stale' => Len(handled) < Len(sent)
      <4>1. SUFFICES ASSUME stale' PROVE r # <<>>
        BY <3>1, NextToHandle
      <4>2. Unhandled # <<>>
        BY <2>5, <4>1 DEF Accept
      <4>3. Unhandled \in Seq(Byte) /\ Unhandled \o wire = EncodeAll(r)
        BY <2>0, <2>5, <3>1, UnhandledIs
      <4>4. EncodeAll(r) # <<>>
        BY <4>2, <4>3, ConcatEqualIffEmpty DEF TypeOK
      <4> QED
        BY <4>4, EncodeNone
    <3>6. stale' \in BOOLEAN /\ sent' = <<>> /\ handled' = <<>>
      BY <2>5 DEF Accept
    <3>7. stale' \in {FALSE, stale \/ Len(handled) < Len(sent)}
      <4>1. CASE stale'
        <5>1. stale' = TRUE /\ Len(handled) < Len(sent)
          BY <3>5, <3>6, <4>1
        <5> QED
          BY <5>1
      <4>2. CASE ~stale'
        <5>1. stale' = FALSE
          BY <3>6, <4>2
        <5> QED
          BY <5>1
      <4> QED
        BY <4>1, <4>2
    <3> QED
      BY <3>4, <3>6, <3>7 DEF ChannelOf!Next, ChannelOf!Reopen
  <2>6. ASSUME UNCHANGED <<sent, handled, stale>> PROVE UNCHANGED ChannelOf!vars
    BY <2>6 DEF ChannelOf!vars
  <2> QED
    BY <2>1, <2>2, <2>3, <2>4, <2>5, <2>6
    DEF Next, Process, Receive, ReceiveNothing, MarkPosition, ReadId, ReadSize, AwaitPayload,
        DeleteMarkedBlock, vars
<1> QED
  BY <1>1, <1>2, KeptInvariant, PTL DEF Spec
=============================================================================
