--------------------------- MODULE SendPathProofs ---------------------------
(***************************************************************************)
(* What reaches a client, for any users, workers and packets, however many  *)
(* of them write at a time, whatever handles they share, and wherever the   *)
(* calls of send cut what they write.                                       *)
(*                                                                          *)
(* The types and the order of the bytes are proved of all packets; that a   *)
(* client decodes them, of those whose payloads are as long as their        *)
(* framing says (AllFramed), as long as they are written into the buffers   *)
(* that they are assembled on.                                              *)
(***************************************************************************)
EXTENDS SendPath, SequenceTheorems, WellFoundedInduction, TLAPS

-----------------------------------------------------------------------------
(* Recursive functions.                                                     *)

\* Induction, for a set of numbers: the order of the numbers is well-founded.
LEMMA Induction ==
  ASSUME NEW S, 0 \in S, \A n \in Nat : n \in S => n + 1 \in S
  PROVE  \A n \in Nat : n \in S
<1> SUFFICES ASSUME NEW m \in Nat, m \notin S PROVE FALSE
  OBVIOUS
<1> DEFINE T == Nat \ S
           R == OpToRel(<, Nat)
<1>1. IsWellFoundedOn(R, Nat)
  BY NatLessThanWellFounded
<1>2. T \subseteq Nat /\ T # {}
  OBVIOUS
<1>3. PICK n \in T : \A k \in T : <<k, n>> \notin R
  <2> HIDE DEF T, R
  <2> QED  BY <1>1, <1>2, WFMin
<1>4. n \in Nat /\ n # 0 /\ n - 1 \in T
  OBVIOUS
<1>5. <<n - 1, n>> \in R
  BY <1>4 DEF OpToRel
<1> QED
  BY <1>3, <1>4, <1>5

\* The functions that start with d and whose values follow from each other in n steps: there
\* is one.
Runs(D, d, n, next) ==
  {f \in [0..n -> D] : f[0] = d /\ \A i \in 1..n : f[i] = next[i][f[i - 1]]}

LEMMA Recursion ==
  ASSUME NEW D, NEW d \in D, NEW n \in Nat, NEW next \in [1..n -> [D -> D]]
  PROVE  \E f : f \in Runs(D, d, n, next)
<1> DEFINE Chains(f, m) == f[0] = d /\ \A i \in 1..m : f[i] = next[i][f[i - 1]]
           Upto == {m \in Nat : m <= n => \E f \in [0..m -> D] : Chains(f, m)}
<1>1. 0 \in Upto
  <2>1. [i \in 0..0 |-> d] \in [0..0 -> D] /\ Chains([i \in 0..0 |-> d], 0)
    OBVIOUS
  <2> HIDE DEF Chains
  <2> QED
    BY <2>1
<1>2. ASSUME NEW m \in Nat, m \in Upto, m + 1 <= n
      PROVE  \E f \in [0..m + 1 -> D] : Chains(f, m + 1)
  <2>1. PICK g \in [0..m -> D] : Chains(g, m)
    <3>1. m <= n
      BY <1>2
    <3> HIDE DEF Chains
    <3> QED
      BY <1>2, <3>1
  <2>2. PICK e \in D : e = next[m + 1][g[m]]
    <3>1. m + 1 \in 1..n /\ g[m] \in D
      BY <1>2
    <3>2. next[m + 1] \in [D -> D]
      BY <3>1
    <3> QED
      BY <3>1, <3>2
  <2> DEFINE f == [i \in 0..m + 1 |-> IF i = m + 1 THEN e ELSE g[i]]
  <2>3. f \in [0..m + 1 -> D]
    OBVIOUS
  <2>4. f[0] = d
    BY <2>1
  <2>5. ASSUME NEW i \in 1..m + 1 PROVE f[i] = next[i][f[i - 1]]
    <3>1. i - 1 \in 0..m /\ f[i - 1] = g[i - 1]
      OBVIOUS
    <3>2. CASE i = m + 1
      BY <2>2, <3>1, <3>2
    <3>3. CASE i # m + 1
      <4>1. i \in 1..m /\ f[i] = g[i]
        BY <3>3
      <4> QED
        BY <2>1, <3>1, <4>1
    <3> QED
      BY <3>2, <3>3
  <2> HIDE DEF f
  <2> QED
    BY <2>3, <2>4, <2>5
<1>3. \A m \in Nat : m \in Upto => m + 1 \in Upto
  <2> HIDE DEF Chains
  <2> QED
    BY <1>2
<1>4. n \in Upto
  <2> HIDE DEF Upto
  <2> QED
    BY <1>1, <1>3, Induction
<1> QED
  BY <1>4 DEF Runs

-----------------------------------------------------------------------------
(* FlattenSeq, by the recursive function with which SequencesExt defines it. *)

\* The element i of f is the concatenation of the first i of ss.
Step(ss, f, i) == IF i = 1 THEN ss[i] ELSE f[i - 1] \o ss[i]
Joined(ss)     == CHOOSE f : f = [i \in 1..Len(ss) |-> Step(ss, f, i)]

LEMMA JoinedAre ==
  ASSUME NEW S, NEW ss \in Seq(Seq(S))
  PROVE  \A i \in 1..Len(ss) : Joined(ss)[i] = Step(ss, Joined(ss), i)
<1>1. /\ Len(ss) \in Nat /\ <<>> \in Seq(S)
      /\ \A i \in 1..Len(ss) : ss[i] \in Seq(S)
  OBVIOUS
<1>2. PICK next \in [1..Len(ss) -> [Seq(S) -> Seq(S)]] :
        \A i \in 1..Len(ss) : \A x \in Seq(S) : next[i][x] = x \o ss[i]
  <2> DEFINE join == [i \in 1..Len(ss) |-> [x \in Seq(S) |-> x \o ss[i]]]
  <2>1. join \in [1..Len(ss) -> [Seq(S) -> Seq(S)]]
    BY <1>1, ConcatProperties
  <2>2. \A i \in 1..Len(ss) : \A x \in Seq(S) : join[i][x] = x \o ss[i]
    OBVIOUS
  <2> HIDE DEF join
  <2> QED
    BY <2>1, <2>2
<1>3. PICK g \in [0..Len(ss) -> Seq(S)] :
        g[0] = <<>> /\ \A i \in 1..Len(ss) : g[i] = next[i][g[i - 1]]
  <2>1. PICK g : g \in Runs(Seq(S), <<>>, Len(ss), next)
    BY <1>1, Recursion
  <2> QED
    BY <2>1 DEF Runs
<1>4. ASSUME NEW i \in 1..Len(ss) PROVE g[i] = g[i - 1] \o ss[i]
  <2>1. i - 1 \in 0..Len(ss)
    BY <1>1
  <2>2. g[i - 1] \in Seq(S)
    BY <2>1
  <2> QED
    BY <1>2, <1>3, <2>2
<1> DEFINE f == [i \in 1..Len(ss) |-> g[i]]
<1>5. ASSUME NEW i \in 1..Len(ss) PROVE f[i] = Step(ss, f, i)
  <2>1. CASE i = 1
    <3>1. g[1] = <<>> \o ss[1]
      <4>1. 1 \in 1..Len(ss) /\ 1 - 1 = 0
        BY <2>1
      <4>2. g[1] = g[1 - 1] \o ss[1]
        BY <1>4, <4>1
      <4> QED
        BY <1>3, <4>1, <4>2
    <3>2. g[1] = ss[1]
      BY <1>1, <2>1, <3>1, ConcatEmptySeq
    <3> QED
      BY <2>1, <3>2 DEF Step
  <2>2. CASE i # 1
    <3>1. i - 1 \in 1..Len(ss) /\ f[i - 1] = g[i - 1]
      BY <1>1, <2>2
    <3> QED
      BY <1>4, <2>2, <3>1 DEF Step
  <2> QED
    BY <2>1, <2>2
<1>6. f = [i \in 1..Len(ss) |-> Step(ss, f, i)]
  <2>1. f = [i \in 1..Len(ss) |-> f[i]]
    OBVIOUS
  <2> HIDE DEF f
  <2> QED
    BY <1>5, <2>1
<1>7. Joined(ss) = [i \in 1..Len(ss) |-> Step(ss, Joined(ss), i)]
  <2> HIDE DEF f
  <2> QED
    BY <1>6 DEF Joined
<1> QED
  <2> PICK j : j = Joined(ss)
    OBVIOUS
  <2> QED
    BY <1>7

LEMMA JoinedType ==
  ASSUME NEW S, NEW ss \in Seq(Seq(S))
  PROVE  \A i \in 1..Len(ss) : Joined(ss)[i] \in Seq(S)
<1> DEFINE Typed == {n \in Nat : n + 1 <= Len(ss) => Joined(ss)[n + 1] \in Seq(S)}
<1>1. /\ Len(ss) \in Nat
      /\ \A i \in 1..Len(ss) : ss[i] \in Seq(S)
  OBVIOUS
<1>2. 0 \in Typed
  <2> SUFFICES ASSUME 1 \in 1..Len(ss) PROVE Joined(ss)[1] \in Seq(S)
    BY <1>1
  <2> QED
    BY <1>1, JoinedAre DEF Step
<1>3. ASSUME NEW n \in Nat, n \in Typed PROVE n + 1 \in Typed
  <2> SUFFICES ASSUME n + 2 <= Len(ss) PROVE Joined(ss)[n + 2] \in Seq(S)
    OBVIOUS
  <2>1. n + 1 \in 1..Len(ss) /\ n + 2 \in 1..Len(ss) /\ n + 2 # 1 /\ (n + 2) - 1 = n + 1
    BY <1>1
  <2>2. Joined(ss)[n + 1] \in Seq(S) /\ ss[n + 2] \in Seq(S)
    BY <1>1, <1>3, <2>1
  <2>3. Joined(ss)[n + 2] = Joined(ss)[n + 1] \o ss[n + 2]
    BY <2>1, JoinedAre DEF Step
  <2> QED
    BY <2>2, <2>3, ConcatProperties
<1>4. \A n \in Nat : n \in Typed
  <2> HIDE DEF Typed
  <2> QED
    BY <1>2, <1>3, Induction
<1>5. ASSUME NEW i \in 1..Len(ss) PROVE Joined(ss)[i] \in Seq(S)
  <2>1. i - 1 \in Nat /\ (i - 1) + 1 = i /\ i <= Len(ss)
    BY <1>1
  <2> QED
    BY <1>4, <2>1
<1> QED
  BY <1>5

LEMMA FlattenValue ==
  ASSUME NEW S, NEW ss \in Seq(Seq(S))
  PROVE  /\ FlattenSeq(ss) = IF ss = <<>> THEN <<>> ELSE Joined(ss)[Len(ss)]
         /\ FlattenSeq(ss) \in Seq(S)
<1>1. FlattenSeq(ss) = IF Len(ss) = 0 THEN ss ELSE Joined(ss)[Len(ss)]
  BY DEF FlattenSeq, Joined, Step
<1>2. Len(ss) \in Nat /\ (Len(ss) = 0 <=> ss = <<>>)
  BY EmptySeq
<1> QED
  BY <1>1, <1>2, JoinedType

LEMMA FlattenAppend ==
  ASSUME NEW S, NEW ss \in Seq(Seq(S)), NEW s \in Seq(S)
  PROVE  FlattenSeq(Append(ss, s)) = FlattenSeq(ss) \o s
<1>1. PICK tt \in Seq(Seq(S)) : tt = Append(ss, s)
  BY AppendProperties
<1>2. /\ Len(tt) = Len(ss) + 1 /\ tt[Len(ss) + 1] = s /\ tt # <<>> /\ Len(ss) \in Nat
      /\ \A i \in 1..Len(ss) : tt[i] = ss[i]
  BY <1>1, AppendProperties
<1>3. /\ \A i \in 1..Len(ss) : Joined(ss)[i] = Step(ss, Joined(ss), i)
      /\ \A i \in 1..Len(tt) : Joined(tt)[i] = Step(tt, Joined(tt), i)
  BY JoinedAre
<1> DEFINE Same == {n \in Nat : n + 1 <= Len(ss) => Joined(tt)[n + 1] = Joined(ss)[n + 1]}
<1>5. 0 \in Same
  BY <1>2, <1>3 DEF Step
<1>6. ASSUME NEW n \in Nat, n \in Same PROVE n + 1 \in Same
  <2> SUFFICES ASSUME n + 2 <= Len(ss) PROVE Joined(tt)[n + 2] = Joined(ss)[n + 2]
    OBVIOUS
  <2>1. /\ n + 1 \in 1..Len(ss) /\ n + 2 \in 1..Len(ss) /\ n + 2 \in 1..Len(tt)
        /\ n + 2 # 1 /\ (n + 2) - 1 = n + 1
    BY <1>2
  <2>2. Joined(tt)[n + 1] = Joined(ss)[n + 1]
    BY <1>6, <2>1
  <2>3. Step(ss, Joined(ss), n + 2) = Step(tt, Joined(tt), n + 2)
    BY <1>2, <2>1, <2>2 DEF Step
  <2> QED
    BY <1>3, <2>1, <2>3
<1>7. \A n \in Nat : n \in Same
  <2> HIDE DEF Same
  <2> QED
    BY <1>5, <1>6, Induction
<1>8. CASE ss = <<>>
  <2>1. Len(ss) = 0 /\ Len(tt) = 1
    BY <1>2, <1>8
  <2>2. Joined(tt)[1] = s
    BY <1>2, <1>3, <2>1 DEF Step
  <2>4. FlattenSeq(tt) = s
    BY <1>2, <2>1, <2>2, FlattenValue
  <2>3. FlattenSeq(ss) = <<>>
    BY <1>8, FlattenValue
  <2> QED
    BY <1>1, <2>3, <2>4, ConcatEmptySeq
<1>9. CASE ss # <<>>
  <2>1. Len(ss) \in Nat \ {0}
    BY <1>9, EmptySeq
  <2>2. Len(ss) - 1 \in Nat /\ (Len(ss) - 1) + 1 = Len(ss)
    BY <2>1
  <2>3. Joined(tt)[Len(ss)] = Joined(ss)[Len(ss)]
    <3> PICK n \in Nat : n = Len(ss) - 1
      BY <2>2
    <3>1. n + 1 = Len(ss) /\ n + 1 <= Len(ss)
      BY <2>2
    <3>2. n \in Same
      BY <1>7
    <3> QED
      BY <3>1, <3>2
  <2>4. Joined(tt)[Len(tt)] = Joined(tt)[Len(ss)] \o s
    <3>1. Len(tt) \in 1..Len(tt) /\ Len(tt) # 1 /\ Len(tt) - 1 = Len(ss) /\ tt[Len(tt)] = s
      BY <1>2, <2>1
    <3> QED
      BY <1>3, <3>1 DEF Step
  <2> QED
    BY <1>1, <1>2, <1>9, <2>3, <2>4, FlattenValue
<1> QED
  BY <1>8, <1>9

LEMMA FlattenConcat ==
  ASSUME NEW S, NEW ss \in Seq(Seq(S)), NEW tt \in Seq(Seq(S))
  PROVE  FlattenSeq(ss \o tt) = FlattenSeq(ss) \o FlattenSeq(tt)
<1> DEFINE Concats(u) == FlattenSeq(ss \o u) = FlattenSeq(ss) \o FlattenSeq(u)
           Upto == {n \in Nat : \A u \in Seq(Seq(S)) : Len(u) = n => Concats(u)}
<1>1. 0 \in Upto
  <2> SUFFICES ASSUME NEW u \in Seq(Seq(S)), Len(u) = 0 PROVE Concats(u)
    OBVIOUS
  <2>1. u = <<>> /\ FlattenSeq(u) = <<>> /\ FlattenSeq(ss) \in Seq(S)
    BY EmptySeq, FlattenValue
  <2> QED
    BY <2>1, ConcatEmptySeq
<1>2. ASSUME NEW n \in Nat, n \in Upto, NEW u \in Seq(Seq(S)), Len(u) = n + 1
      PROVE  Concats(u)
  <2>1. PICK v \in Seq(Seq(S)), s \in Seq(S) : u = Append(v, s)
    <3>1. u # <<>>
      BY <1>2, EmptySeq
    <3> QED
      BY <3>1, SequenceEmptyOrAppend
  <2>2. Len(v) = n
    BY <1>2, <2>1
  <2>3. FlattenSeq(ss \o v) = FlattenSeq(ss) \o FlattenSeq(v)
    BY <1>2, <2>2
  <2>4. ss \o v \in Seq(Seq(S)) /\ ss \o u = Append(ss \o v, s)
    BY <2>1
  <2>5. FlattenSeq(ss \o u) = (FlattenSeq(ss) \o FlattenSeq(v)) \o s
    BY <2>3, <2>4, FlattenAppend
  <2>6. FlattenSeq(u) = FlattenSeq(v) \o s
    BY <2>1, FlattenAppend
  <2>7. FlattenSeq(ss) \in Seq(S) /\ FlattenSeq(v) \in Seq(S)
    BY FlattenValue
  <2>8. (FlattenSeq(ss) \o FlattenSeq(v)) \o s = FlattenSeq(ss) \o (FlattenSeq(v) \o s)
    BY <2>1, <2>7, ConcatAssociative
  <2> QED
    BY <2>5, <2>6, <2>8
<1>3. ASSUME NEW n \in Nat, n \in Upto PROVE n + 1 \in Upto
  <2>1. \A u \in Seq(Seq(S)) : Len(u) = n + 1 => Concats(u)
    <3> HIDE DEF Upto, Concats
    <3> QED
      BY <1>2, <1>3
  <2> HIDE DEF Concats
  <2> QED
    BY <2>1
<1>4. Len(tt) \in Nat
  OBVIOUS
<1>5. Len(tt) \in Upto
  <2> HIDE DEF Upto
  <2> QED
    BY <1>1, <1>3, <1>4, Induction
<1> QED
  BY <1>5

-----------------------------------------------------------------------------
(* Prefixes, and sequences that are cut and put together.                   *)

LEMMA SubSeqOf ==
  ASSUME NEW S, NEW s \in Seq(S), NEW m \in Nat \ {0}, NEW n \in 0..Len(s)
  PROVE  /\ SubSeq(s, m, n) \in Seq(S)
         /\ Len(SubSeq(s, m, n)) = IF m <= n THEN n - m + 1 ELSE 0
         /\ \A i \in 1..Len(SubSeq(s, m, n)) : SubSeq(s, m, n)[i] = s[m + i - 1]
<1>1. Len(s) \in Nat /\ \A i \in m..n : s[i] \in S
  OBVIOUS
<1> QED
  BY <1>1, SubSeqProperties

LEMMA PrefixOfConcat ==
  ASSUME NEW S, NEW s \in Seq(S), NEW r \in Seq(S)
  PROVE  IsPrefix(s, s \o r)
<1>1. /\ s \o r \in Seq(S) /\ Len(s \o r) = Len(s) + Len(r) /\ Len(s) \in Nat /\ Len(r) \in Nat
      /\ \A i \in 1..Len(s) + Len(r) : (s \o r)[i] = IF i <= Len(s) THEN s[i] ELSE r[i - Len(s)]
  BY ConcatProperties
<1>2. SubSeq(s, 1, Len(s)) = s
  BY SubSeqFull
<1>3. PICK t \in Seq(S) : t = SubSeq(s \o r, 1, Len(s))
  BY <1>1, SubSeqOf
<1>4. Len(t) = Len(s) /\ \A i \in 1..Len(s) : t[i] = s[i]
  BY <1>1, <1>3
<1>5. t = s
  BY <1>4, SeqEqual
<1> QED
  BY <1>1, <1>2, <1>3, <1>5 DEF IsPrefix

LEMMA PrefixHasRest ==
  ASSUME NEW S, NEW s \in Seq(S), NEW t \in Seq(S), IsPrefix(s, t)
  PROVE  \E r \in Seq(S) : t = s \o r
<1>1. Len(s) \in Nat /\ Len(t) \in Nat /\ Len(s) <= Len(t)
  BY DEF IsPrefix
<1>2. SubSeq(t, 1, Len(s)) = s
  BY SubSeqFull DEF IsPrefix
<1>3. PICK r \in Seq(S) : r = SubSeq(t, Len(s) + 1, Len(t))
  <2>1. Len(s) + 1 \in Nat \ {0} /\ Len(t) \in 0..Len(t)
    BY <1>1
  <2> QED
    BY <2>1, SubSeqOf
<1>4. /\ Len(r) = Len(t) - Len(s)
      /\ \A i \in 1..Len(t) - Len(s) : r[i] = t[Len(s) + i]
  BY <1>1, <1>3
<1>5. \A i \in 1..Len(s) : s[i] = t[i]
  BY <1>1, <1>2
<1>6. /\ s \o r \in Seq(S) /\ Len(s \o r) = Len(t)
      /\ \A i \in 1..Len(t) : (s \o r)[i] = IF i <= Len(s) THEN s[i] ELSE r[i - Len(s)]
  BY <1>1, <1>4, ConcatProperties
<1>7. ASSUME NEW i \in 1..Len(t) PROVE (s \o r)[i] = t[i]
  <2>1. CASE i <= Len(s)
    BY <1>1, <1>5, <1>6, <2>1
  <2>2. CASE ~(i <= Len(s))
    <3>1. PICK j \in Int : j = i - Len(s)
      BY <1>1
    <3>2. j \in 1..Len(t) - Len(s) /\ Len(s) + j = i
      BY <1>1, <2>2, <3>1
    <3> QED
      BY <1>4, <1>6, <2>2, <3>1, <3>2
  <2> QED
    BY <2>1, <2>2
<1>8. s \o r = t
  BY <1>6, <1>7, SeqEqual
<1> QED
  BY <1>8

\* The first m of a sequence, and n more.
LEMMA SubSeqOn ==
  ASSUME NEW S, NEW s \in Seq(S), NEW m \in Nat, NEW n \in Nat, m + n <= Len(s)
  PROVE  SubSeq(s, 1, m) \o SubSeq(s, m + 1, m + n) = SubSeq(s, 1, m + n)
<1>1. Len(s) \in Nat /\ 1 \in 1..Len(s) + 1 /\ m \in 1 - 1..Len(s) /\ m + n \in m..Len(s)
  OBVIOUS
<1> QED
  BY <1>1, ConcatAdjacentSubSeq

\* What follows h in h \o r.
LEMMA RestIs ==
  ASSUME NEW S, NEW h \in Seq(S), NEW r \in Seq(S)
  PROVE  SubSeq(h \o r, Len(h) + 1, Len(h \o r)) = r
<1>1. /\ h \o r \in Seq(S) /\ Len(h \o r) = Len(h) + Len(r) /\ Len(h) \in Nat /\ Len(r) \in Nat
      /\ \A i \in 1..Len(h) + Len(r) : (h \o r)[i] = IF i <= Len(h) THEN h[i] ELSE r[i - Len(h)]
  BY ConcatProperties
<1>2. PICK t \in Seq(S) : t = SubSeq(h \o r, Len(h) + 1, Len(h \o r))
  BY <1>1, SubSeqOf
<1>3. Len(t) = Len(r) /\ \A i \in 1..Len(r) : t[i] = (h \o r)[Len(h) + i]
  BY <1>1, <1>2
<1>4. ASSUME NEW i \in 1..Len(r) PROVE t[i] = r[i]
  <2>1. PICK j \in Int : j = Len(h) + i
    BY <1>1
  <2>2. j \in 1..Len(h) + Len(r) /\ ~(j <= Len(h)) /\ j - Len(h) = i
    BY <1>1, <2>1
  <2> QED
    BY <1>1, <1>3, <2>1, <2>2
<1> QED
  BY <1>2, <1>3, <1>4, SeqEqual

LEMMA FrontOfAppend ==
  ASSUME NEW S, NEW s \in Seq(S), NEW e \in S
  PROVE  Front(Append(s, e)) = s /\ Last(Append(s, e)) = e /\ Append(s, e) # <<>>
<1>1. PICK t \in Seq(S) : t = Append(s, e)
  BY AppendProperties
<1>2. /\ Len(s) \in Nat /\ Len(t) = Len(s) + 1 /\ t[Len(s) + 1] = e /\ t # <<>>
      /\ \A i \in 1..Len(s) : t[i] = s[i]
  BY <1>1, AppendProperties
<1>3. PICK f \in Seq(S) : f = SubSeq(t, 1, Len(s))
  BY <1>2, SubSeqOf
<1>4. Len(f) = Len(s) /\ \A i \in 1..Len(s) : f[i] = s[i]
  BY <1>2, <1>3
<1>5. f = s
  BY <1>4, SeqEqual
<1>6. Len(t) - 1 = Len(s)
  BY <1>2
<1> QED
  BY <1>1, <1>2, <1>3, <1>5, <1>6 DEF Front, Last

LEMMA FrontAndLast ==
  ASSUME NEW S, NEW s \in Seq(S), s # <<>>
  PROVE  Front(s) \in Seq(S) /\ Last(s) \in S /\ s = Append(Front(s), Last(s))
<1>1. PICK t \in Seq(S), e \in S : s = Append(t, e)
  BY SequenceEmptyOrAppend
<1> QED
  BY <1>1, FrontOfAppend

-----------------------------------------------------------------------------
(* Frames.                                                                  *)

\* Tuples of up to three.
LEMMA Tuples ==
  ASSUME NEW S, NEW a \in S, NEW b \in S, NEW c \in S
  PROVE  /\ <<a>> \in Seq(S) /\ Len(<<a>>) = 1 /\ <<a>>[1] = a
         /\ <<a, b>> \in Seq(S) /\ Len(<<a, b>>) = 2 /\ <<a, b>>[1] = a /\ <<a, b>>[2] = b
         /\ <<a, b, c>> \in Seq(S) /\ Len(<<a, b, c>>) = 3
         /\ <<a, b, c>>[1] = a /\ <<a, b, c>>[2] = b /\ <<a, b, c>>[3] = c
         /\ <<a>> \o <<b, c>> = <<a, b, c>>
<1>1. <<a>> \in Seq(S) /\ Len(<<a>>) = 1 /\ <<a>>[1] = a
  OBVIOUS
<1>2. <<a, b>> \in Seq(S) /\ Len(<<a, b>>) = 2 /\ <<a, b>>[1] = a /\ <<a, b>>[2] = b
  OBVIOUS
<1>3. /\ <<a, b, c>> \in Seq(S) /\ Len(<<a, b, c>>) = 3
      /\ <<a, b, c>>[1] = a /\ <<a, b, c>>[2] = b /\ <<a, b, c>>[3] = c
  OBVIOUS
<1>4. <<a>> \o <<b, c>> = <<a, b, c>>
  <2>1. <<b, c>> \in Seq(S) /\ Len(<<b, c>>) = 2
    OBVIOUS
  <2>2. <<a>> \o <<b, c>> \in Seq(S) /\ Len(<<a>> \o <<b, c>>) = 3
    BY <1>1, <2>1, ConcatProperties
  <2>3. \A i \in 1..3 : (<<a>> \o <<b, c>>)[i] = <<a, b, c>>[i]
    BY <1>1, <2>1, ConcatProperties
  <2> QED
    BY <1>3, <2>2, <2>3, SeqEqual
<1> QED
  BY <1>1, <1>2, <1>3, <1>4

LEMMA SplitByte ==
  ASSUME NEW n \in Int
  PROVE  n \div 256 \in Int /\ n % 256 \in Byte /\ n = 256 * (n \div 256) + (n % 256)
  BY SMT DEF Byte

\* A size of two bytes survives the wire.
LEMMA SizeRoundTrip ==
  ASSUME NEW n \in Short
  PROVE  read_unsigned_short(write_short(n)) = n
<1>0. n \in Int /\ 0 <= n /\ n <= 65535
  BY SMT DEF Short
<1>1. n \div 256 \in Byte
  BY <1>0, SMT DEF Byte
<1>2. (n \div 256) % 256 = n \div 256
  BY <1>1, SMT DEF Byte
<1> QED
  BY <1>0, <1>1, <1>2, SplitByte, SMT DEF read_unsigned_short, write_short, Byte

LEMMA ShortBytes ==
  ASSUME NEW n \in Nat
  PROVE  (n \div 256) % 256 \in Byte /\ n % 256 \in Byte
<1>1. n \div 256 \in Int /\ n % 256 \in Byte
  BY SplitByte
<1>2. (n \div 256) % 256 \in Byte
  BY <1>1, SplitByte
<1> QED
  BY <1>1, <1>2

LEMMA ExceptInFront ==
  ASSUME NEW S, NEW h \in Seq(S), NEW s \in Seq(S), NEW i \in 1..Len(h), NEW e \in S
  PROVE  [(h \o s) EXCEPT ![i] = e] = [h EXCEPT ![i] = e] \o s
<1>1. /\ h \o s \in Seq(S) /\ Len(h \o s) = Len(h) + Len(s) /\ Len(h) \in Nat /\ Len(s) \in Nat
      /\ \A j \in 1..Len(h) + Len(s) : (h \o s)[j] = IF j <= Len(h) THEN h[j] ELSE s[j - Len(h)]
  BY ConcatProperties
<1>2. PICK g \in Seq(S) : g = [h EXCEPT ![i] = e]
  BY ExceptSeq
<1>3. Len(g) = Len(h) /\ \A j \in 1..Len(h) : g[j] = IF j = i THEN e ELSE h[j]
  BY <1>2, ExceptSeq
<1>4. /\ g \o s \in Seq(S) /\ Len(g \o s) = Len(h) + Len(s)
      /\ \A j \in 1..Len(h) + Len(s) : (g \o s)[j] = IF j <= Len(h) THEN g[j] ELSE s[j - Len(h)]
  <2>1. /\ g \o s \in Seq(S) /\ Len(g \o s) = Len(g) + Len(s)
        /\ \A j \in 1..Len(g) + Len(s) : (g \o s)[j] = IF j <= Len(g) THEN g[j] ELSE s[j - Len(g)]
    BY ConcatProperties
  <2> QED
    BY <1>3, <2>1
<1>5. PICK t \in Seq(S) : t = h \o s
  BY <1>1
<1>6. i \in 1..Len(t)
  BY <1>1, <1>5
<1>7. PICK r \in Seq(S) : r = [t EXCEPT ![i] = e]
  BY <1>6, ExceptSeq
<1>8. Len(r) = Len(t) /\ \A j \in 1..Len(t) : r[j] = IF j = i THEN e ELSE t[j]
  BY <1>6, <1>7, ExceptSeq
<1>9. ASSUME NEW j \in 1..Len(r) PROVE r[j] = (g \o s)[j]
  <2>1. j \in 1..Len(h) + Len(s)
    BY <1>1, <1>5, <1>8
  <2>2. CASE j <= Len(h)
    <3>1. j \in 1..Len(h)
      BY <1>1, <2>1, <2>2
    <3> QED
      BY <1>1, <1>3, <1>4, <1>5, <1>8, <2>1, <2>2, <3>1
  <2>3. CASE ~(j <= Len(h))
    <3>1. j # i
      BY <1>1, <2>3
    <3> QED
      BY <1>1, <1>4, <1>5, <1>8, <2>1, <2>3, <3>1
  <2> QED
    BY <2>2, <2>3
<1>10. r = g \o s
  BY <1>1, <1>4, <1>5, <1>8, <1>9, SeqEqual
<1> QED
  BY <1>2, <1>5, <1>7, <1>10

LEMMA Placeholders ==
  ASSUME NEW S, NEW a \in S, NEW b \in S, NEW c \in S, NEW d \in S, NEW e \in S
  PROVE  /\ [<<a, b>> EXCEPT ![2] = d] = <<a, d>>
         /\ [<<a, b, c>> EXCEPT ![2] = d] = <<a, d, c>>
         /\ [<<a, d, c>> EXCEPT ![3] = e] = <<a, d, e>>
<1>1. [<<a, b>> EXCEPT ![2] = d] = <<a, d>>
  OBVIOUS
<1>2. [<<a, b, c>> EXCEPT ![2] = d] = <<a, d, c>>
  OBVIOUS
<1>3. [<<a, d, c>> EXCEPT ![3] = e] = <<a, d, e>>
  OBVIOUS
<1> QED
  BY <1>1, <1>2, <1>3

LEMMA Zero == 0 \in Byte
  BY DEF Byte

\* What the frame of n bytes begins with, once the placeholders are filled in.
FrameHead(id, n) ==
  IF FrameSize[id] = -1 THEN <<id, n % 256>>
  ELSE IF FrameSize[id] = -2 THEN <<id>> \o write_short(n)
  ELSE <<id>>

HeadLen(id) == IF FrameSize[id] = -1 THEN 2 ELSE IF FrameSize[id] = -2 THEN 3 ELSE 1

LEMMA Assembling ==
  ASSUME NEW id \in Byte, NEW s \in Seq(Byte), NEW n \in Nat, n = Len(s)
  PROVE  /\ Framed(id, s) = FrameHead(id, n) \o s
         /\ FrameHead(id, n) \in Seq(Byte) /\ FrameHead(id, n)[1] = id
         /\ Len(FrameHead(id, n)) = HeadLen(id) /\ HeadLen(id) \in 1..3
<1>1. id \in Byte /\ 0 \in Byte /\ s \in Seq(Byte) /\ n \in Nat /\ n = Len(s)
  BY Zero
<1>2. CASE FrameSize[id] = -1
  <2>1. PICK h \in Seq(Byte) : h = <<id, 0>>
    BY <1>1, Tuples
  <2>2. Len(h) = 2 /\ Len(h \o s) = n + 2
    BY <1>1, <2>1, Tuples, ConcatProperties
  <2>3. PICK b \in Byte : b = n % 256
    BY <1>1, ShortBytes
  <2>4. Framed(id, s) = [(h \o s) EXCEPT ![2] = b]
    <3>1. Framed(id, s) = EndFrameVarSize(h \o s, 2)
      BY <1>2, <2>1 DEF Framed
    <3>2. (n + 2) - 2 = n
      BY <1>1
    <3> QED
      BY <2>2, <2>3, <3>1, <3>2 DEF EndFrameVarSize
  <2>5. [(h \o s) EXCEPT ![2] = b] = [h EXCEPT ![2] = b] \o s
    <3>1. 2 \in 1..Len(h)
      BY <2>2
    <3> QED
      BY <1>1, <3>1, ExceptInFront
  <2>6. [h EXCEPT ![2] = b] = <<id, b>>
    BY <1>1, <2>1, Placeholders
  <2>7. FrameHead(id, n) = <<id, b>> /\ HeadLen(id) = 2
    <3>1. FrameHead(id, n) = <<id, n % 256>> /\ HeadLen(id) = 2
      BY <1>2 DEF FrameHead, HeadLen
    <3> QED
      BY <2>3, <3>1
  <2>8. <<id, b>> \in Seq(Byte) /\ Len(<<id, b>>) = 2 /\ <<id, b>>[1] = id
    BY <1>1, Tuples
  <2> QED
    <3>1. Framed(id, s) = FrameHead(id, n) \o s
      BY <2>4, <2>5, <2>6, <2>7
    <3>2. /\ FrameHead(id, n) \in Seq(Byte) /\ FrameHead(id, n)[1] = id
          /\ Len(FrameHead(id, n)) = HeadLen(id)
      BY <2>7, <2>8
    <3>3. HeadLen(id) \in 1..3
      BY <2>7
    <3> QED
      BY <3>1, <3>2, <3>3
<1>3. CASE FrameSize[id] = -2
  <2>1. PICK h \in Seq(Byte) : h = <<id, 0, 0>>
    BY <1>1, Tuples
  <2>2. Len(h) = 3 /\ Len(h \o s) = n + 3
    BY <1>1, <2>1, Tuples, ConcatProperties
  <2>3. PICK a \in Byte, b \in Byte : a = (n \div 256) % 256 /\ b = n % 256
    BY <1>1, ShortBytes
  <2>9. write_short(n) = <<a, b>> /\ write_short(n)[1] = a /\ write_short(n)[2] = b
    BY <2>3, Tuples DEF write_short
  <2>4. Framed(id, s) = [[(h \o s) EXCEPT ![2] = a] EXCEPT ![3] = b]
    <3>1. Framed(id, s) = EndFrameVarSizeWord(h \o s, 3)
      BY <1>3, <2>1 DEF Framed
    <3>2. (n + 3) - 3 = n /\ 3 - 1 = 2
      BY <1>1
    <3>3. EndFrameVarSizeWord(h \o s, 3) = [(h \o s) EXCEPT ![2] = a, ![3] = b]
      BY <2>2, <2>9, <3>2 DEF EndFrameVarSizeWord
    <3> QED
      BY <3>1, <3>3
  <2>5. PICK g \in Seq(Byte) : g = <<id, a, 0>>
    BY <1>1, Tuples
  <2>6. [(h \o s) EXCEPT ![2] = a] = g \o s
    <3>1. 2 \in 1..Len(h)
      BY <2>2
    <3>2. [h EXCEPT ![2] = a] = g
      <4>1. [<<id, 0, 0>> EXCEPT ![2] = a] = <<id, a, 0>>
        BY <1>1, Placeholders
      <4> QED
        BY <2>1, <2>5, <4>1
    <3>3. [(h \o s) EXCEPT ![2] = a] = [h EXCEPT ![2] = a] \o s
      BY <1>1, <3>1, ExceptInFront
    <3> QED
      BY <3>2, <3>3
  <2>7. [(g \o s) EXCEPT ![3] = b] = <<id, a, b>> \o s
    <3>1. 3 \in 1..Len(g)
      BY <1>1, <2>5, Tuples
    <3>2. [g EXCEPT ![3] = b] = <<id, a, b>>
      <4>1. [<<id, a, 0>> EXCEPT ![3] = b] = <<id, a, b>>
        BY <1>1, Placeholders
      <4> QED
        BY <2>5, <4>1
    <3>3. [(g \o s) EXCEPT ![3] = b] = [g EXCEPT ![3] = b] \o s
      BY <1>1, <3>1, ExceptInFront
    <3> QED
      BY <3>2, <3>3
  <2>8. FrameHead(id, n) = <<id, a, b>> /\ HeadLen(id) = 3
    <3>1. FrameHead(id, n) = <<id>> \o <<a, b>>
      BY <1>3, <2>9 DEF FrameHead
    <3>2. HeadLen(id) = 3
      BY <1>3 DEF HeadLen
    <3> QED
      BY <1>1, <3>1, <3>2, Tuples
  <2>10. <<id, a, b>> \in Seq(Byte) /\ Len(<<id, a, b>>) = 3 /\ <<id, a, b>>[1] = id
    BY <1>1, Tuples
  <2> QED
    <3>1. Framed(id, s) = FrameHead(id, n) \o s
      BY <2>4, <2>6, <2>7, <2>8
    <3>2. /\ FrameHead(id, n) \in Seq(Byte) /\ FrameHead(id, n)[1] = id
          /\ Len(FrameHead(id, n)) = HeadLen(id)
      BY <2>8, <2>10
    <3>3. HeadLen(id) \in 1..3
      BY <2>8
    <3> QED
      BY <3>1, <3>2, <3>3
<1>4. CASE FrameSize[id] # -1 /\ FrameSize[id] # -2
  <2>1. Framed(id, s) = <<id>> \o s /\ FrameHead(id, n) = <<id>> /\ HeadLen(id) = 1
    BY <1>4 DEF Framed, FrameHead, HeadLen
  <2>2. <<id>> \in Seq(Byte) /\ Len(<<id>>) = 1 /\ <<id>>[1] = id
    BY <1>1, Tuples
  <2> QED
    BY <1>4, <2>1, <2>2
<1> QED
  BY <1>2, <1>3, <1>4

LEMMA PacketType ==
  ASSUME NEW p \in Packets
  PROVE  /\ p.id \in Byte /\ p.id \in DOMAIN FrameSize /\ p.payload \in Seq(Byte)
         /\ Len(p.payload) \in Nat /\ p.fields \in Seq(Field) /\ Len(p.fields) \in Nat
<1>1. /\ p.id \in DOMAIN FrameSize /\ p.payload \in Seq(0..255) /\ p.fields \in Seq(Field)
  BY SendPathAssumption
<1>2. \A id \in {1} \cup 7..23 : id \in 0..255
  OBVIOUS
<1>3. DOMAIN FrameSize = {1} \cup 7..23
  BY DEF FrameSize
<1> QED
  BY <1>1, <1>2, <1>3 DEF Byte

LEMMA ContentType ==
  ASSUME NEW p \in Packets, NEW c \in Contents(p)
  PROVE  c \in Seq(Byte) /\ Len(c) = Len(p.payload)
<1>1. PICK memory \in [Lost(p) -> Memory] :
        c = [i \in 1..Len(p.payload) |->
               IF HeadSize(p.id) + i \in Lost(p) THEN memory[HeadSize(p.id) + i] ELSE p.payload[i]]
  BY DEF Contents
<1>2. p.payload \in Seq(Byte) /\ Len(p.payload) \in Nat /\ Memory \subseteq Byte
  BY PacketType, SendPathAssumption DEF Byte
<1>3. ASSUME NEW i \in 1..Len(p.payload)
      PROVE  (IF HeadSize(p.id) + i \in Lost(p) THEN memory[HeadSize(p.id) + i]
              ELSE p.payload[i]) \in Byte
  <2>1. p.payload[i] \in Byte
    BY <1>2
  <2>2. HeadSize(p.id) + i \in Lost(p) => memory[HeadSize(p.id) + i] \in Byte
    BY <1>2
  <2> QED
    BY <2>1, <2>2
<1> QED
  BY <1>1, <1>2, <1>3

LEMMA WrittenType ==
  ASSUME NEW x \in Written
  PROVE  /\ x.packet \in Packets /\ x.frame \in Seq(Byte) /\ Len(x.frame) \in Nat
         /\ \E c \in Contents(x.packet) : x.frame = Framed(x.packet.id, c)
<1>1. PICK p \in Packets : x \in [packet : {p}, frame : Assembled(p)]
  BY DEF Written
<1>2. x.packet = p /\ x.frame \in Assembled(p)
  BY <1>1
<1>3. PICK c \in Contents(p) : x.frame = Framed(p.id, c)
  BY <1>2 DEF Assembled
<1>4. c \in Seq(Byte) /\ p.id \in Byte
  BY ContentType, PacketType
<1>5. PICK n \in Nat : n = Len(c)
  BY <1>4
<1>6. Framed(p.id, c) = FrameHead(p.id, n) \o c /\ FrameHead(p.id, n) \in Seq(Byte)
  BY <1>4, <1>5, Assembling
<1>7. PICK h \in Seq(Byte) : h = FrameHead(p.id, n)
  BY <1>6
<1>8. h \o c \in Seq(Byte) /\ Len(h \o c) \in Nat
  BY <1>4, ConcatProperties
<1> QED
  BY <1>2, <1>3, <1>6, <1>7, <1>8

\* What fits its buffer is assembled as it is.
Sound == {x \in Written : Fits(x.packet)}

LEMMA SoundFrame ==
  ASSUME NEW x \in Sound, NEW p \in Packets, p = x.packet, NEW n \in Nat, n = Len(p.payload)
  PROVE  x.frame = FrameHead(p.id, n) \o p.payload
<1>1. x \in Written /\ Fits(p)
  BY DEF Sound
<1>2. PICK c \in Contents(p) : x.frame = Framed(p.id, c)
  BY <1>1, WrittenType
<1>3. PICK memory \in [Lost(p) -> Memory] :
        c = [i \in 1..Len(p.payload) |->
               IF HeadSize(p.id) + i \in Lost(p) THEN memory[HeadSize(p.id) + i] ELSE p.payload[i]]
  BY DEF Contents
<1>4. Lost(p) = {}
  <2>1. Len(p.fields) \in Nat
    BY PacketType
  <2>2. \A k \in 1..Len(p.fields) : k - 1 \in 0..Len(p.fields)
    BY <2>1
  <2>3. \A k \in 1..Len(p.fields) : Overrun(Writing(p)[k - 1]) = {}
    BY <1>1, <2>2 DEF Fits
  <2>4. ASSUME NEW e \in Lost(p) PROVE FALSE
    <3>1. PICK k \in 1..Len(p.fields) : e \in Overrun(Writing(p)[k - 1])
      BY DEF Lost
    <3> QED
      BY <2>3, <3>1
  <2> QED
    BY <2>4
<1>5. c = [i \in 1..Len(p.payload) |-> p.payload[i]]
  BY <1>3, <1>4
<1>6. c = p.payload
  <2>1. p.payload \in Seq(Byte)
    BY PacketType
  <2> QED
    BY <1>5, <2>1
<1>7. PICK id \in Byte, s \in Seq(Byte) : id = p.id /\ s = p.payload
  BY PacketType
<1>8. Framed(id, s) = FrameHead(id, n) \o s
  BY <1>7, Assembling
<1> QED
  BY <1>2, <1>6, <1>7, <1>8

-----------------------------------------------------------------------------
(* The frames of what is written.                                           *)

LEMMA AssemblesAll ==
  ASSUME NEW ps \in Seq(Written)
  PROVE  /\ [n \in 1..Len(ps) |-> ps[n].frame] \in Seq(Seq(Byte))
         /\ Len([n \in 1..Len(ps) |-> ps[n].frame]) = Len(ps)
         /\ FramesOf(ps) \in Seq(Byte)
<1> DEFINE es == [n \in 1..Len(ps) |-> ps[n].frame]
<1>1. \A n \in 1..Len(ps) : ps[n].frame \in Seq(Byte)
  <2> TAKE n \in 1..Len(ps)
  <2> ps[n] \in Written
    OBVIOUS
  <2> QED
    BY WrittenType
<1>2. es \in Seq(Seq(Byte)) /\ Len(es) = Len(ps)
  BY <1>1
<1> HIDE DEF es
<1>3. FlattenSeq(es) \in Seq(Byte)
  BY <1>2, FlattenValue
<1> QED
  BY <1>2, <1>3 DEF FramesOf, es

LEMMA AllConcat ==
  ASSUME NEW ps \in Seq(Written), NEW qs \in Seq(Written)
  PROVE  FramesOf(ps \o qs) = FramesOf(ps) \o FramesOf(qs)
<1> DEFINE es(rs) == [n \in 1..Len(rs) |-> rs[n].frame]
<1>1. /\ es(ps) \in Seq(Seq(Byte)) /\ Len(es(ps)) = Len(ps)
      /\ es(qs) \in Seq(Seq(Byte)) /\ Len(es(qs)) = Len(qs)
  BY AssemblesAll
<1>2. /\ ps \o qs \in Seq(Written) /\ Len(ps \o qs) = Len(ps) + Len(qs)
      /\ Len(ps) \in Nat /\ Len(qs) \in Nat
      /\ \A i \in 1..Len(ps) + Len(qs) :
           (ps \o qs)[i] = IF i <= Len(ps) THEN ps[i] ELSE qs[i - Len(ps)]
  BY ConcatProperties
<1>3. /\ es(ps \o qs) \in Seq(Seq(Byte)) /\ Len(es(ps \o qs)) = Len(ps) + Len(qs)
  BY <1>2, AssemblesAll
<1>4. /\ es(ps) \o es(qs) \in Seq(Seq(Byte))
      /\ Len(es(ps) \o es(qs)) = Len(ps) + Len(qs)
      /\ \A i \in 1..Len(ps) + Len(qs) :
           (es(ps) \o es(qs))[i] = IF i <= Len(ps) THEN es(ps)[i] ELSE es(qs)[i - Len(ps)]
  <2> PICK e1 \in Seq(Seq(Byte)), e2 \in Seq(Seq(Byte)) : e1 = es(ps) /\ e2 = es(qs)
    BY <1>1
  <2>1. Len(e1) = Len(ps) /\ Len(e2) = Len(qs)
    BY <1>1
  <2>2. /\ e1 \o e2 \in Seq(Seq(Byte))
        /\ Len(e1 \o e2) = Len(ps) + Len(qs)
        /\ \A i \in 1..Len(ps) + Len(qs) :
             (e1 \o e2)[i] = IF i <= Len(ps) THEN e1[i] ELSE e2[i - Len(ps)]
    BY <2>1, ConcatProperties
  <2> HIDE DEF es
  <2> QED
    BY <2>2
<1>5. ASSUME NEW i \in 1..Len(ps) + Len(qs)
      PROVE  es(ps \o qs)[i] = (es(ps) \o es(qs))[i]
  <2>1. es(ps \o qs)[i] = (ps \o qs)[i].frame
    BY <1>2
  <2>2. CASE i <= Len(ps)
    <3>1. i \in 1..Len(ps)
      BY <1>2, <2>2
    <3>2. (es(ps) \o es(qs))[i] = ps[i].frame
      BY <1>4, <2>2, <3>1
    <3> QED
      BY <1>2, <2>1, <2>2, <3>2
  <2>3. CASE ~(i <= Len(ps))
    <3>1. i - Len(ps) \in 1..Len(qs)
      BY <1>2, <2>3
    <3>2. (es(ps) \o es(qs))[i] = qs[i - Len(ps)].frame
      BY <1>4, <2>3, <3>1
    <3> QED
      BY <1>2, <2>1, <2>3, <3>2
  <2> QED
    BY <2>2, <2>3
<1>6. es(ps \o qs) = es(ps) \o es(qs)
  <2> HIDE DEF es
  <2> QED
    BY <1>3, <1>4, <1>5, SeqEqual
<1>7. FlattenSeq(es(ps) \o es(qs)) = FlattenSeq(es(ps)) \o FlattenSeq(es(qs))
  <2> HIDE DEF es
  <2> QED
    BY <1>1, FlattenConcat
<1> QED
  BY <1>6, <1>7 DEF FramesOf

LEMMA AllNone == FramesOf(<<>>) = <<>>
  BY DEF FramesOf, FlattenSeq

LEMMA AllOne ==
  ASSUME NEW p \in Written
  PROVE  FramesOf(<<p>>) = p.frame
<1> DEFINE es == [n \in 1..1 |-> p.frame]
<1>0. p.frame \in Seq(Byte)
  BY WrittenType
<1>1. FramesOf(<<p>>) = FlattenSeq(es)
  <2>1. Len(<<p>>) = 1 /\ \A n \in 1..1 : <<p>>[n] = p
    OBVIOUS
  <2>2. [n \in 1..Len(<<p>>) |-> <<p>>[n].frame] = es
    BY <2>1
  <2> QED
    BY <2>2 DEF FramesOf
<1>2. es \in Seq(Seq(Byte)) /\ es = Append(<<>>, p.frame)
  BY <1>0
<1>3. <<>> \in Seq(Seq(Byte)) /\ FlattenSeq(<<>>) = <<>>
  <2>1. <<>> \in Seq(Seq(Byte))
    OBVIOUS
  <2>2. FlattenSeq(<<>>) = <<>>
    BY DEF FlattenSeq
  <2> QED
    BY <2>1, <2>2
<1>4. FlattenSeq(Append(<<>>, p.frame)) = <<>> \o p.frame
  BY <1>0, <1>3, FlattenAppend
<1> HIDE DEF es
<1> QED
  BY <1>0, <1>1, <1>2, <1>4, ConcatEmptySeq

LEMMA AllAppend ==
  ASSUME NEW ps \in Seq(Written), NEW p \in Written
  PROVE  FramesOf(Append(ps, p)) = FramesOf(ps) \o p.frame
<1>1. Append(ps, p) = ps \o <<p>> /\ <<p>> \in Seq(Written)
  BY AppendIsConcat
<1>2. FramesOf(ps \o <<p>>) = FramesOf(ps) \o FramesOf(<<p>>)
  BY <1>1, AllConcat
<1> QED
  BY <1>1, <1>2, AllOne

-----------------------------------------------------------------------------
(* The bytes of a stream that are addressed to somebody.                    *)

\* Flattening what is empty, and what has one element each.
LEMMA FlattenEmpties ==
  ASSUME NEW S, NEW ss \in Seq(Seq(S)), \A i \in 1..Len(ss) : ss[i] = <<>>
  PROVE  FlattenSeq(ss) = <<>>
<1> DEFINE Empties(tt) == \A i \in 1..Len(tt) : tt[i] = <<>>
           Good == {n \in Nat : \A tt \in Seq(Seq(S)) :
                      Len(tt) = n /\ Empties(tt) => FlattenSeq(tt) = <<>>}
<1>1. 0 \in Good
  BY EmptySeq, FlattenValue
<1>2. ASSUME NEW n \in Nat, n \in Good, NEW tt \in Seq(Seq(S)), Len(tt) = n + 1, Empties(tt)
      PROVE  FlattenSeq(tt) = <<>>
  <2>1. tt # <<>>
    BY <1>2, EmptySeq
  <2>2. PICK v \in Seq(Seq(S)), s \in Seq(S) : tt = Append(v, s)
    BY <2>1, SequenceEmptyOrAppend
  <2>3. Len(v) = n /\ tt[n + 1] = s /\ \A i \in 1..n : tt[i] = v[i]
    BY <1>2, <2>2, AppendProperties
  <2>4. s = <<>> /\ Empties(v)
    BY <1>2, <2>3
  <2>5. FlattenSeq(v) = <<>>
    BY <1>2, <2>3, <2>4
  <2>6. FlattenSeq(tt) = FlattenSeq(v) \o s
    BY <2>2, FlattenAppend
  <2>7. <<>> \in Seq(S) /\ <<>> \o <<>> = <<>>
    BY ConcatEmptySeq
  <2> QED
    BY <2>4, <2>5, <2>6, <2>7
<1>3. \A n \in Nat : n \in Good => n + 1 \in Good
  <2> HIDE DEF Empties
  <2> QED
    BY <1>2
<1>4. Len(ss) \in Nat
  OBVIOUS
<1>5. Len(ss) \in Good
  <2> HIDE DEF Good
  <2> QED
    BY <1>1, <1>3, <1>4, Induction
<1> QED
  BY <1>5

LEMMA FlattenSingles ==
  ASSUME NEW S, NEW t \in Seq(S), NEW ss \in Seq(Seq(S)), Len(ss) = Len(t),
         \A i \in 1..Len(t) : ss[i] = <<t[i]>>
  PROVE  FlattenSeq(ss) = t
<1> DEFINE Singles(tt, s) == Len(tt) = Len(s) /\ \A i \in 1..Len(s) : tt[i] = <<s[i]>>
           Good == {n \in Nat : \A tt \in Seq(Seq(S)) : \A s \in Seq(S) :
                      Len(s) = n /\ Singles(tt, s) => FlattenSeq(tt) = s}
<1>1. 0 \in Good
  BY EmptySeq, FlattenValue
<1>2. ASSUME NEW n \in Nat, n \in Good, NEW tt \in Seq(Seq(S)), NEW s \in Seq(S),
             Len(s) = n + 1, Singles(tt, s)
      PROVE  FlattenSeq(tt) = s
  <2>1. tt # <<>> /\ s # <<>>
    BY <1>2, EmptySeq
  <2>2. PICK v \in Seq(Seq(S)), e \in Seq(S) : tt = Append(v, e)
    BY <2>1, SequenceEmptyOrAppend
  <2>3. PICK r \in Seq(S), b \in S : s = Append(r, b)
    BY <2>1, SequenceEmptyOrAppend
  <2>4. Len(v) = n /\ tt[n + 1] = e /\ \A i \in 1..n : tt[i] = v[i]
    BY <1>2, <2>2, AppendProperties
  <2>5. Len(r) = n /\ s[n + 1] = b /\ \A i \in 1..n : s[i] = r[i]
    BY <1>2, <2>3, AppendProperties
  <2>6. e = <<b>>
    <3>1. n + 1 \in 1..Len(s)
      BY <1>2
    <3>2. tt[n + 1] = <<s[n + 1]>>
      BY <1>2, <3>1
    <3> QED
      BY <2>4, <2>5, <3>2
  <2>7. Singles(v, r)
    BY <1>2, <2>4, <2>5
  <2>8. FlattenSeq(v) = r
    BY <1>2, <2>5, <2>7
  <2>9. FlattenSeq(tt) = FlattenSeq(v) \o e
    BY <2>2, FlattenAppend
  <2>10. Append(r, b) = r \o <<b>>
    BY AppendIsConcat
  <2> QED
    BY <2>3, <2>6, <2>8, <2>9, <2>10
<1>3. ASSUME NEW n \in Nat, n \in Good PROVE n + 1 \in Good
  <2>1. \A tt \in Seq(Seq(S)) : \A s \in Seq(S) :
          Len(s) = n + 1 /\ Singles(tt, s) => FlattenSeq(tt) = s
    <3> HIDE DEF Good, Singles
    <3> QED
      BY <1>2, <1>3
  <2> HIDE DEF Singles
  <2> QED
    BY <2>1
<1>4. Len(t) \in Nat
  OBVIOUS
<1>5. Len(t) \in Good
  <2> HIDE DEF Good
  <2> QED
    BY <1>1, <1>3, <1>4, Induction
<1> QED
  BY <1>5

\* A byte as a sequence, if it is addressed to u.
Parts(u, s) == [i \in 1..Len(s) |-> IF s[i].to = u THEN <<s[i].byte>> ELSE <<>>]

LEMMA PartsType ==
  ASSUME NEW u, NEW s \in Seq(Bytes)
  PROVE  Parts(u, s) \in Seq(Seq(Byte)) /\ Len(Parts(u, s)) = Len(s)
<1>1. \A i \in 1..Len(s) : (IF s[i].to = u THEN <<s[i].byte>> ELSE <<>>) \in Seq(Byte)
  <2> TAKE i \in 1..Len(s)
  <2>1. s[i].byte \in Byte
    <3>1. s[i] \in Bytes
      OBVIOUS
    <3> QED
      BY <3>1 DEF Bytes, Byte
  <2>2. <<s[i].byte>> \in Seq(Byte) /\ <<>> \in Seq(Byte)
    BY <2>1, Tuples
  <2> QED
    BY <2>2
<1> QED
  BY <1>1 DEF Parts

LEMMA ForType ==
  ASSUME NEW u, NEW s \in Seq(Bytes)
  PROVE  BytesFor(u, s) \in Seq(Byte) /\ BytesFor(u, s) = FlattenSeq(Parts(u, s))
<1>1. BytesFor(u, s) = FlattenSeq(Parts(u, s))
  BY DEF BytesFor, Parts
<1> QED
  BY <1>1, PartsType, FlattenValue

LEMMA ForNone ==
  ASSUME NEW u, NEW s \in Seq(Bytes), \A i \in 1..Len(s) : s[i].to # u
  PROVE  BytesFor(u, s) = <<>>
<1>1. Parts(u, s) \in Seq(Seq(Byte)) /\ Len(Parts(u, s)) = Len(s)
  BY PartsType
<1>2. \A i \in 1..Len(Parts(u, s)) : Parts(u, s)[i] = <<>>
  BY <1>1 DEF Parts
<1> QED
  BY <1>1, <1>2, ForType, FlattenEmpties

LEMMA ForAll ==
  ASSUME NEW u, NEW s \in Seq(Bytes), \A i \in 1..Len(s) : s[i].to = u
  PROVE  BytesFor(u, s) = BytesOf(s)
<1>1. Parts(u, s) \in Seq(Seq(Byte)) /\ Len(Parts(u, s)) = Len(s)
  BY PartsType
<1>2. \A i \in 1..Len(s) : s[i].byte \in Byte
  <2> TAKE i \in 1..Len(s)
  <2>1. s[i] \in Bytes
    OBVIOUS
  <2> QED
    BY <2>1 DEF Bytes, Byte
<1>3. /\ BytesOf(s) \in Seq(Byte) /\ Len(BytesOf(s)) = Len(s)
      /\ \A i \in 1..Len(s) : BytesOf(s)[i] = s[i].byte
  BY <1>2 DEF BytesOf
<1>4. \A i \in 1..Len(BytesOf(s)) : Parts(u, s)[i] = <<BytesOf(s)[i]>>
  BY <1>3 DEF Parts
<1> QED
  BY <1>1, <1>3, <1>4, ForType, FlattenSingles

LEMMA ForConcat ==
  ASSUME NEW u, NEW ps \in Seq(Bytes), NEW qs \in Seq(Bytes)
  PROVE  BytesFor(u, ps \o qs) = BytesFor(u, ps) \o BytesFor(u, qs)
<1> DEFINE One(b)  == IF b.to = u THEN <<b.byte>> ELSE <<>>
           es(rs) == [n \in 1..Len(rs) |-> One(rs[n])]
<1>1. /\ es(ps) \in Seq(Seq(Byte)) /\ Len(es(ps)) = Len(ps)
      /\ es(qs) \in Seq(Seq(Byte)) /\ Len(es(qs)) = Len(qs)
  BY PartsType DEF Parts
<1>2. /\ ps \o qs \in Seq(Bytes) /\ Len(ps \o qs) = Len(ps) + Len(qs)
      /\ Len(ps) \in Nat /\ Len(qs) \in Nat
      /\ \A i \in 1..Len(ps) + Len(qs) :
           (ps \o qs)[i] = IF i <= Len(ps) THEN ps[i] ELSE qs[i - Len(ps)]
  BY ConcatProperties
<1>3. /\ es(ps \o qs) \in Seq(Seq(Byte)) /\ Len(es(ps \o qs)) = Len(ps) + Len(qs)
  BY <1>2, PartsType DEF Parts
<1>4. /\ es(ps) \o es(qs) \in Seq(Seq(Byte))
      /\ Len(es(ps) \o es(qs)) = Len(ps) + Len(qs)
      /\ \A i \in 1..Len(ps) + Len(qs) :
           (es(ps) \o es(qs))[i] = IF i <= Len(ps) THEN es(ps)[i] ELSE es(qs)[i - Len(ps)]
  <2> PICK e1 \in Seq(Seq(Byte)), e2 \in Seq(Seq(Byte)) : e1 = es(ps) /\ e2 = es(qs)
    BY <1>1
  <2>1. Len(e1) = Len(ps) /\ Len(e2) = Len(qs)
    BY <1>1
  <2>2. /\ e1 \o e2 \in Seq(Seq(Byte))
        /\ Len(e1 \o e2) = Len(ps) + Len(qs)
        /\ \A i \in 1..Len(ps) + Len(qs) :
             (e1 \o e2)[i] = IF i <= Len(ps) THEN e1[i] ELSE e2[i - Len(ps)]
    BY <2>1, ConcatProperties
  <2> HIDE DEF es
  <2> QED
    BY <2>2
<1>5. ASSUME NEW i \in 1..Len(ps) + Len(qs)
      PROVE  es(ps \o qs)[i] = (es(ps) \o es(qs))[i]
  <2>1. es(ps \o qs)[i] = One((ps \o qs)[i])
    BY <1>2
  <2>2. CASE i <= Len(ps)
    <3>1. i \in 1..Len(ps)
      BY <1>2, <2>2
    <3>2. (es(ps) \o es(qs))[i] = One(ps[i])
      BY <1>4, <2>2, <3>1
    <3> QED
      BY <1>2, <2>1, <2>2, <3>2
  <2>3. CASE ~(i <= Len(ps))
    <3>1. i - Len(ps) \in 1..Len(qs)
      BY <1>2, <2>3
    <3>2. (es(ps) \o es(qs))[i] = One(qs[i - Len(ps)])
      BY <1>4, <2>3, <3>1
    <3> QED
      BY <1>2, <2>1, <2>3, <3>2
  <2> QED
    BY <2>2, <2>3
<1>6. es(ps \o qs) = es(ps) \o es(qs)
  <2> HIDE DEF es
  <2> QED
    BY <1>3, <1>4, <1>5, SeqEqual
<1>7. FlattenSeq(es(ps) \o es(qs)) = FlattenSeq(es(ps)) \o FlattenSeq(es(qs))
  <2> HIDE DEF es
  <2> QED
    BY <1>1, FlattenConcat
<1> QED
  BY <1>6, <1>7 DEF Parts, BytesFor

-----------------------------------------------------------------------------
(* Types, and who holds which mutex.                                        *)

Jobs    == {"ping", "handler", "pass"}
Senders == [job : Jobs \cup {"none"},
            pc : {"idle", "entering", "locking", "sending", "changing", "ended"},
            about : Users \cup {NoUser}, to : Users \cup {NoUser},
            written : Written \cup {NoPacket}, total_sent : Nat]

PlacesInv ==
  /\ placed \subseteq Users /\ placing \in (Users \ placed) \cup {NoUser}
  /\ conn \in [Handles -> placed \cup {placing, NoUser}]

StreamsInv ==
  /\ stream \in [Users -> Seq(Bytes)] /\ unread \in [Users -> 0..SendBuffer]
  /\ begun \in [Users -> Seq(Written)] /\ writes \in 0..MaxWrites

\* Not in write(): there may be a packet that is for a user who is placed, of which nothing is
\* sent yet.
Resting(r) ==
  /\ r.pc # "sending"
  /\ r.job = "none" <=> r.pc \in {"idle", "ended"}
  /\ r.pc \in {"entering", "locking"} <=> r.to # NoUser
  /\ r.to # NoUser => r.to \in placed /\ r.written \in Written /\ r.total_sent = 0

\* In write(): it holds the mutex of that user, and has sent no more than all of the frame.
Writes(w) ==
  /\ sender[w].pc = "sending" /\ sender[w].job \in Jobs
  /\ sender[w].to \in placed /\ sender[w].written \in Written
  /\ sender[w].total_sent <= Len(sender[w].written.frame)
  /\ mutex[sender[w].to] = w

SenderOK(w) == Resting(sender[w]) \/ Writes(w)

HolderOK(u) ==
  mutex[u] # NoWorker => sender[mutex[u]].pc = "sending" /\ sender[mutex[u]].to = u

SendersInv ==
  /\ sender \in [Workers -> Senders] /\ mutex \in [Users -> Workers \cup {NoWorker}]
  /\ \A w \in Workers : SenderOK(w)
  /\ \A u \in Users : HolderOK(u)

TypeInv == PlacesInv /\ StreamsInv /\ SendersInv

LEMMA TypeInvImpliesTypeOK == TypeInv => TypeOK
<1> SUFFICES ASSUME TypeInv PROVE TypeOK
  OBVIOUS
<1>1. /\ placed \subseteq Users /\ placing \in (Users \ placed) \cup {NoUser}
      /\ conn \in [Handles -> placed \cup {placing, NoUser}]
  BY DEF TypeInv, PlacesInv
<1>2. /\ stream \in [Users -> Seq(Bytes)] /\ \A u \in Users : unread[u] \in 0..SendBuffer
      /\ begun \in [Users -> Seq(Written)] /\ writes \in 0..MaxWrites
  BY DEF TypeInv, StreamsInv
<1>3. mutex \in [Users -> Workers \cup {NoWorker}]
  BY DEF TypeInv, SendersInv
<1>4. ASSUME NEW w \in Workers
      PROVE  /\ sender[w].job \in {"none", "ping", "handler", "pass"}
             /\ sender[w].pc \in {"idle", "entering", "locking", "sending", "changing", "ended"}
             /\ sender[w].job = "none" <=> sender[w].pc \in {"idle", "ended"}
             /\ sender[w].pc \in {"entering", "locking", "sending"} <=> sender[w].to # NoUser
             /\ sender[w].pc = "sending" <=> \E u \in Users : mutex[u] = w /\ u = sender[w].to
  <2>1. sender[w] \in Senders /\ SenderOK(w) /\ w # NoWorker /\ NoUser \notin Users
    BY SendPathAssumption DEF TypeInv, SendersInv
  <2>2. /\ sender[w].job \in {"none", "ping", "handler", "pass"}
        /\ sender[w].pc \in {"idle", "entering", "locking", "sending", "changing", "ended"}
    BY <2>1 DEF Senders, Jobs
  <2>3. ASSUME NEW u \in Users, mutex[u] = w PROVE sender[w].pc = "sending"
    <3>1. HolderOK(u)
      BY DEF TypeInv, SendersInv
    <3> QED
      BY <2>1, <2>3, <3>1 DEF HolderOK
  <2>4. CASE Resting(sender[w])
    BY <2>2, <2>3, <2>4 DEF Resting
  <2>5. CASE Writes(w)
    <3>1. sender[w].to \in Users /\ mutex[sender[w].to] = w
      BY <1>1, <2>5 DEF Writes
    <3> QED
      BY <2>1, <2>2, <2>5, <3>1 DEF Writes, Jobs
  <2> QED
    BY <2>1, <2>4, <2>5 DEF SenderOK
<1> QED
  BY <1>1, <1>2, <1>3, <1>4 DEF TypeOK

LEMMA IdleOrEnded ==
  /\ Idle \in Senders /\ Idle.pc = "idle" /\ Idle.job = "none" /\ Idle.to = NoUser
  /\ Ended \in Senders /\ Ended.pc = "ended" /\ Ended.job = "none" /\ Ended.to = NoUser
  BY DEF Idle, Ended, Senders

LEMMA InitType == Init => TypeInv
<1> SUFFICES ASSUME Init PROVE TypeInv
  OBVIOUS
<1>1. PlacesInv
  BY SMT DEF Init, PlacesInv
<1>2. StreamsInv
  BY SendPathAssumption DEF Init, StreamsInv
<1>3. \A w \in Workers : sender[w] = Idle
  BY DEF Init
<1>4. ASSUME NEW w \in Workers PROVE SenderOK(w)
  BY <1>3, IdleOrEnded DEF SenderOK, Resting
<1>5. \A u \in Users : HolderOK(u)
  BY DEF Init, HolderOK
<1>6. sender \in [Workers -> Senders] /\ mutex \in [Users -> Workers \cup {NoWorker}]
  BY IdleOrEnded DEF Init
<1>7. SendersInv
  BY <1>4, <1>5, <1>6 DEF SendersInv
<1> QED
  BY <1>1, <1>2, <1>7 DEF TypeInv

\* What a worker that is in a write writes.
LEMMA InWrite ==
  ASSUME TypeInv, NEW w \in Workers, sender[w].pc \in {"locking", "sending"}
  PROVE  /\ sender[w].to \in placed /\ sender[w].to \in Users /\ sender[w].job \in Jobs
         /\ sender[w].written \in Written /\ Frame(w) = sender[w].written.frame
         /\ sender[w].total_sent \in Nat /\ sender[w] \in Senders /\ w # NoWorker
         /\ Frame(w) \in Seq(Byte) /\ Len(Frame(w)) \in Nat
         /\ sender[w].pc = "locking" => sender[w].total_sent = 0
         /\ sender[w].pc = "sending" => Writes(w)
<1>1. sender[w] \in Senders /\ SenderOK(w) /\ placed \subseteq Users
  BY DEF TypeInv, SendersInv, PlacesInv
<1>2. sender[w].to \in placed /\ sender[w].written \in Written
  BY <1>1 DEF SenderOK, Resting, Writes
<1>3. sender[w].total_sent \in Nat /\ sender[w].job \in Jobs \cup {"none"}
  BY <1>1 DEF Senders
<1>4. /\ sender[w].pc = "locking" => sender[w].total_sent = 0 /\ sender[w].job # "none"
      /\ sender[w].pc = "sending" => Writes(w)
  BY <1>1 DEF SenderOK, Resting, Writes
<1>5. sender[w].pc = "sending" => sender[w].job \in Jobs
  BY <1>4 DEF Writes
<1>6. Frame(w) = sender[w].written.frame
  BY DEF Frame
<1>7. Frame(w) \in Seq(Byte) /\ Len(Frame(w)) \in Nat
  BY <1>2, <1>6, WrittenType
<1> QED
  BY <1>1, <1>2, <1>3, <1>4, <1>5, <1>6, <1>7, SendPathAssumption

\* A step of one worker keeps what holds of senders and mutexes, if it does of this worker and
\* of the user to whom it writes.
LEMMA OneSender ==
  ASSUME SendersInv, placed' = placed,
         NEW w \in Workers, NEW r \in Senders, sender' = [sender EXCEPT ![w] = r],
         NEW u \in Users, NEW m \in Workers \cup {NoWorker}, mutex' = [mutex EXCEPT ![u] = m],
         SenderOK(w)', HolderOK(u)',
         \A v \in Workers \ {w} : sender[v].pc = "sending" => sender[v].to # u,
         \A x \in Users \ {u} : mutex[x] # w
  PROVE  SendersInv'
<1>1. sender \in [Workers -> Senders] /\ mutex \in [Users -> Workers \cup {NoWorker}]
  BY DEF SendersInv
<1>2. sender' \in [Workers -> Senders] /\ mutex' \in [Users -> Workers \cup {NoWorker}]
  BY <1>1
<1>3. ASSUME NEW v \in Workers, v # w PROVE SenderOK(v)'
  <2>1. sender'[v] = sender[v] /\ SenderOK(v)
    BY <1>1, <1>3 DEF SendersInv
  <2>2. CASE Resting(sender[v])
    <3>1. Resting(sender[v])'
      BY <2>1, <2>2 DEF Resting
    <3> QED
      BY <3>1 DEF SenderOK
  <2>3. CASE Writes(v)
    <3>1. sender[v].pc = "sending" /\ sender[v].to # u
      BY <1>3, <2>3 DEF Writes
    <3>2. mutex'[sender[v].to] = mutex[sender[v].to]
      BY <1>1, <3>1
    <3>3. Writes(v)'
      BY <2>1, <2>3, <3>2 DEF Writes
    <3> QED
      BY <3>3 DEF SenderOK
  <2> QED
    BY <2>1, <2>2, <2>3 DEF SenderOK
<1>4. ASSUME NEW x \in Users, x # u PROVE HolderOK(x)'
  <2>1. mutex'[x] = mutex[x] /\ HolderOK(x) /\ mutex[x] # w
    BY <1>1, <1>4 DEF SendersInv
  <2>2. mutex[x] # NoWorker => sender'[mutex[x]] = sender[mutex[x]]
    BY <1>1, <2>1
  <2> QED
    BY <2>1, <2>2 DEF HolderOK
<1> QED
  BY <1>2, <1>3, <1>4 DEF SendersInv

\* A worker that is not in write() and does not go into it: no mutex is concerned.
LEMMA AsideType ==
  ASSUME TypeInv, NEW w \in Workers, NEW r \in Senders, Resting(r),
         sender[w].pc # "sending", sender' = [sender EXCEPT ![w] = r], writes' \in 0..MaxWrites,
         UNCHANGED <<network, mutex, begun, lock>>
  PROVE  TypeInv'
<1>1. /\ sender \in [Workers -> Senders] /\ mutex \in [Users -> Workers \cup {NoWorker}]
      /\ w # NoWorker /\ placed' = placed /\ mutex' = mutex
  BY SendPathAssumption DEF TypeInv, SendersInv, lock
<1>2. \A v \in Workers : SenderOK(v) /\ \A x \in Users : HolderOK(x)
  BY DEF TypeInv, SendersInv
<1>3. \A x \in Users : mutex[x] # w
  BY <1>1, <1>2 DEF HolderOK
<1>4. ASSUME NEW v \in Workers PROVE SenderOK(v)'
  <2>1. CASE v = w
    <3>1. sender'[v] = r
      BY <1>1, <2>1
    <3>2. Resting(sender'[v])
      BY <3>1
    <3>3. Resting(sender[v])'
      BY <1>1, <3>2 DEF Resting
    <3> QED
      BY <3>3 DEF SenderOK
  <2>2. CASE v # w
    <3>1. sender'[v] = sender[v]
      BY <1>1, <2>2
    <3>2. Resting(sender[v]) => Resting(sender[v])'
      BY <1>1, <3>1 DEF Resting
    <3>3. Writes(v) => Writes(v)'
      BY <1>1, <3>1 DEF Writes
    <3> QED
      BY <1>2, <3>2, <3>3 DEF SenderOK
  <2> QED
    BY <2>1, <2>2
<1>5. ASSUME NEW x \in Users PROVE HolderOK(x)'
  <2>1. HolderOK(x) /\ mutex'[x] = mutex[x] /\ mutex[x] # w
    BY <1>1, <1>2, <1>3
  <2>2. mutex[x] # NoWorker => sender'[mutex[x]] = sender[mutex[x]]
    BY <1>1, <2>1
  <2> QED
    BY <2>1, <2>2 DEF HolderOK
<1>6. sender' \in [Workers -> Senders] /\ mutex' \in [Users -> Workers \cup {NoWorker}]
  BY <1>1
<1>7. SendersInv'
  BY <1>4, <1>5, <1>6 DEF SendersInv
<1>8. PlacesInv'
  BY DEF TypeInv, PlacesInv, network, lock
<1>9. StreamsInv'
  BY DEF TypeInv, StreamsInv, network
<1> QED
  BY <1>7, <1>8, <1>9 DEF TypeInv

\* The end of a job, or its next packet: the worker is not in write() then.
LEMMA Onwards ==
  ASSUME TypeInv, NEW w \in Workers, NEW job \in Jobs, NEW x \in Users \cup {NoUser},
         EndJob(w) \/ NextPacket(w, job, x)
  PROVE  \E r \in Senders : /\ Resting(r) /\ sender' = [sender EXCEPT ![w] = r]
                            /\ writes' \in 0..MaxWrites
<1>1. placed \subseteq Users /\ writes \in 0..MaxWrites /\ MaxWrites \in Nat /\ NoUser \notin Users
  BY SendPathAssumption DEF TypeInv, PlacesInv, StreamsInv
<1>2. CASE EndJob(w)
  <2>1. Resting(Idle)
    BY IdleOrEnded DEF Resting
  <2> QED
    BY <1>1, <1>2, <2>1, IdleOrEnded DEF EndJob
<1>3. CASE NextPacket(w, job, x)
  <2>1. PICK u \in placed, y \in NextTables(job, x), z \in Written :
          sender' = [sender EXCEPT ![w] =
                       [job |-> job, pc |-> IF y \in {x, NoUser} THEN "locking" ELSE "entering",
                        about |-> y, to |-> u, written |-> z, total_sent |-> 0]]
    BY <1>3 DEF NextPacket
  <2>2. y \in Users \cup {NoUser}
    BY <1>1 DEF NextTables
  <2>3. PICK pc \in {"locking", "entering"} :
          pc = IF y \in {x, NoUser} THEN "locking" ELSE "entering"
    OBVIOUS
  <2>4. PICK r : r = [job |-> job, pc |-> pc, about |-> y, to |-> u, written |-> z,
                      total_sent |-> 0]
    OBVIOUS
  <2>5. /\ r.job = job /\ r.pc = pc /\ r.to = u /\ r.written = z /\ r.total_sent = 0
        /\ r \in Senders
    BY <1>1, <2>2, <2>4 DEF Senders
  <2>6. Resting(r)
    BY <1>1, <2>5 DEF Resting, Jobs
  <2>7. writes' \in 0..MaxWrites
    BY <1>1, <1>3 DEF NextPacket
  <2> QED
    BY <2>1, <2>3, <2>4, <2>5, <2>6, <2>7
<1> QED
  BY <1>2, <1>3

\* What the next call of send is given is the end of the frame.
LEMMA RestFacts ==
  ASSUME TypeInv, NEW w \in Workers, sender[w].pc = "sending"
  PROVE  /\ Rest(w) \in Seq(Byte)
         /\ Len(Rest(w)) = Len(Frame(w)) - sender[w].total_sent
         /\ \A i \in 1..Len(Rest(w)) : Rest(w)[i] = Frame(w)[sender[w].total_sent + i]
         /\ Rest(w) = <<>> <=> sender[w].total_sent = Len(Frame(w))
         /\ sender[w].total_sent \in 0..Len(Frame(w))
<1>1. PICK f \in Seq(Byte) : f = Frame(w) /\ f = sender[w].written.frame
  BY InWrite
<1>2. PICK t \in Nat : t = sender[w].total_sent
  BY InWrite
<1>3. t <= Len(f) /\ Len(f) \in Nat
  <2>1. Writes(w)
    BY InWrite
  <2> QED
    BY <1>1, <1>2, <2>1 DEF Writes
<1>4. Rest(w) = SubSeq(f, t + 1, Len(f))
  BY <1>1, <1>2 DEF Rest
<1>5. t + 1 \in Nat \ {0} /\ Len(f) \in 0..Len(f)
  BY <1>3
<1>6. PICK r \in Seq(Byte) : r = SubSeq(f, t + 1, Len(f))
  BY <1>5, SubSeqOf
<1>7. Len(r) = Len(f) - t
  <2>1. Len(r) = IF t + 1 <= Len(f) THEN Len(f) - (t + 1) + 1 ELSE 0
    BY <1>5, <1>6, SubSeqOf
  <2> QED
    BY <1>3, <2>1
<1>8. \A i \in 1..Len(r) : r[i] = f[t + i]
  <2>1. \A i \in 1..Len(r) : r[i] = f[(t + 1) + i - 1]
    BY <1>5, <1>6, SubSeqOf
  <2>2. \A i \in 1..Len(r) : (t + 1) + i - 1 = t + i
    BY <1>3, <1>7
  <2> QED
    BY <2>1, <2>2
<1>9. r = <<>> <=> t = Len(f)
  BY <1>3, <1>7, EmptySeq
<1>10. t \in 0..Len(f)
  BY <1>3
<1> QED
  BY <1>1, <1>2, <1>4, <1>6, <1>7, <1>8, <1>9, <1>10

\* The bytes that a call of send takes.
Chunk(w, n) == [i \in 1..n |-> [to |-> sender[w].to, byte |-> Offered(w)[i]]]

LEMMA ChunkFacts ==
  ASSUME TypeInv, NEW w \in Workers, sender[w].pc = "sending", NEW n \in 1..Len(Rest(w))
  PROVE  /\ Chunk(w, n) \in Seq(Bytes) /\ Len(Chunk(w, n)) = n
         /\ \A i \in 1..n : Chunk(w, n)[i].to = sender[w].to /\ Chunk(w, n)[i].byte = Rest(w)[i]
<1>1. n \in Nat /\ Len(Rest(w)) \in Nat /\ Rest(w) \in Seq(Byte) /\ sender[w].to \in Users
  BY RestFacts, InWrite
<1>2. Offered(w) = Rest(w)
  BY DEF Offered
<1>3. ASSUME NEW i \in 1..n PROVE [to |-> sender[w].to, byte |-> Rest(w)[i]] \in Bytes
  <2>1. Rest(w)[i] \in Byte
    BY <1>1
  <2> QED
    BY <1>1, <2>1 DEF Bytes, Byte
<1>4. Chunk(w, n) \in Seq(Bytes) /\ Len(Chunk(w, n)) = n
  BY <1>1, <1>2, <1>3 DEF Chunk
<1> QED
  BY <1>2, <1>4 DEF Chunk

LEMMA ClientsType ==
  ASSUME TypeInv, NEW u \in Users, Connect(u) \/ Read(u) \/ Close(u)
  PROVE  TypeInv'
<1>1. /\ placed \subseteq Users /\ placing \in (Users \ placed) \cup {NoUser} /\ NoUser \notin Users
      /\ conn \in [Handles -> placed \cup {placing, NoUser}]
  BY SendPathAssumption DEF TypeInv, PlacesInv
<1>2. UNCHANGED <<sender, mutex, placed>>
  BY DEF Connect, Read, Close, sending, lock
<1>3. SendersInv'
  BY <1>2 DEF TypeInv, SendersInv, SenderOK, Resting, Writes, HolderOK
<1>4. CASE Connect(u)
  <2>1. /\ u \notin placed /\ placing' = u /\ placing = NoUser /\ placed' = placed
        /\ conn' = [conn EXCEPT ![Handle[u]] = u]
        /\ UNCHANGED <<stream, unread, sending>>
    BY <1>4 DEF Connect
  <2>2. conn' \in [Handles -> placed' \cup {placing', NoUser}]
    BY <1>1, <2>1
  <2>3. PlacesInv'
    BY <1>1, <2>1, <2>2 DEF PlacesInv
  <2>4. StreamsInv'
    BY <2>1 DEF TypeInv, StreamsInv, sending
  <2> QED
    BY <1>3, <2>3, <2>4 DEF TypeInv
<1>5. CASE Read(u)
  <2>1. unread' = [unread EXCEPT ![u] = 0] /\ UNCHANGED <<conn, stream, sending, lock>>
    BY <1>5 DEF Read
  <2>2. PlacesInv'
    BY <2>1 DEF TypeInv, PlacesInv, lock
  <2>3. 0 \in 0..SendBuffer
    BY SendPathAssumption
  <2>4. StreamsInv'
    BY <2>1, <2>3 DEF TypeInv, StreamsInv, sending
  <2> QED
    BY <1>3, <2>2, <2>4 DEF TypeInv
<1>6. CASE Close(u)
  <2>1. /\ conn' = [conn EXCEPT ![Handle[u]] = NoUser]
        /\ UNCHANGED <<stream, unread, sending, lock>>
    BY <1>6 DEF Close
  <2>2. PlacesInv'
    BY <1>1, <2>1 DEF PlacesInv, lock
  <2>3. StreamsInv'
    BY <2>1 DEF TypeInv, StreamsInv, sending
  <2> QED
    BY <1>3, <2>2, <2>3 DEF TypeInv
<1> QED
  BY <1>4, <1>5, <1>6

LEMMA PlaceType ==
  ASSUME TypeInv, Place
  PROVE  TypeInv'
<1>1. /\ placed \subseteq Users /\ placing \in Users \ placed
      /\ conn \in [Handles -> placed \cup {placing, NoUser}]
      /\ placed' = placed \cup {placing} /\ placing' = NoUser
      /\ UNCHANGED <<network, sending>>
  BY DEF TypeInv, PlacesInv, Place
<1>2. PlacesInv'
  BY <1>1 DEF PlacesInv, network
<1>3. StreamsInv'
  BY <1>1 DEF TypeInv, StreamsInv, network, sending
<1>4. UNCHANGED <<sender, mutex>> /\ placed \subseteq placed'
  BY <1>1 DEF sending
<1>5. ASSUME NEW w \in Workers PROVE SenderOK(w)'
  <2>1. SenderOK(w)
    BY DEF TypeInv, SendersInv
  <2>2. Resting(sender[w]) => Resting(sender[w])'
    BY <1>4 DEF Resting
  <2>3. Writes(w) => Writes(w)'
    BY <1>4 DEF Writes
  <2> QED
    BY <2>1, <2>2, <2>3 DEF SenderOK
<1>6. SendersInv'
  BY <1>4, <1>5 DEF TypeInv, SendersInv, HolderOK
<1> QED
  BY <1>2, <1>3, <1>6 DEF TypeInv

\* The steps of a worker that is not in write() and does not go into it.
Aside(w) == Enter(w) \/ Change(w) \/ \E job \in Jobs : Begin(w, job)

LEMMA AsideSteps ==
  ASSUME TypeInv, NEW w \in Workers, Aside(w)
  PROVE  /\ sender[w].pc # "sending" /\ UNCHANGED <<network, mutex, begun, lock>>
         /\ \E r \in Senders : /\ Resting(r) /\ sender' = [sender EXCEPT ![w] = r]
                               /\ writes' \in 0..MaxWrites
<1>1. NoUser \in Users \cup {NoUser} /\ "pass" \in Jobs
  BY DEF Jobs
<1>2. ASSUME NEW job \in Jobs, Begin(w, job)
      PROVE  /\ sender[w].pc # "sending" /\ UNCHANGED <<network, mutex, begun, lock>>
             /\ NextPacket(w, job, NoUser)
  BY <1>2, IdleOrEnded DEF Begin
<1>3. ASSUME Change(w)
      PROVE  /\ sender[w].pc # "sending" /\ UNCHANGED <<network, mutex, begun, lock>>
             /\ EndJob(w) \/ NextPacket(w, "pass", NoUser)
  BY <1>3 DEF Change
<1>4. CASE Enter(w)
  <2>1. /\ sender[w].pc = "entering" /\ sender' = [sender EXCEPT ![w].pc = "locking"]
        /\ UNCHANGED <<network, mutex, begun, writes, lock>>
    BY <1>4 DEF Enter
  <2>2. /\ sender[w] \in Senders /\ SenderOK(w) /\ writes \in 0..MaxWrites
        /\ sender \in [Workers -> Senders]
    BY DEF TypeInv, SendersInv, StreamsInv
  <2>3. PICK r \in Senders : r = [sender[w] EXCEPT !.pc = "locking"]
    BY <2>2 DEF Senders
  <2>4. /\ r.pc = "locking" /\ r.job = sender[w].job /\ r.to = sender[w].to
        /\ r.written = sender[w].written /\ r.total_sent = sender[w].total_sent
    BY <2>2, <2>3 DEF Senders
  <2>5. Resting(sender[w])
    BY <2>1, <2>2 DEF SenderOK, Writes
  <2>6. Resting(r)
    BY <2>1, <2>4, <2>5 DEF Resting
  <2>7. sender' = [sender EXCEPT ![w] = r]
    BY <2>1, <2>2, <2>3
  <2> QED
    BY <2>1, <2>2, <2>6, <2>7
<1>5. CASE Change(w)
  BY <1>1, <1>3, <1>5, Onwards
<1>6. CASE \E job \in Jobs : Begin(w, job)
  BY <1>1, <1>2, <1>6, Onwards
<1> QED
  BY <1>4, <1>5, <1>6 DEF Aside

LEMMA LockType ==
  ASSUME TypeInv, NEW w \in Workers, Lock(w)
  PROVE  TypeInv'
<1> DEFINE u == sender[w].to
<1>1. /\ sender[w].pc = "locking" /\ mutex[u] = NoWorker
      /\ mutex' = [mutex EXCEPT ![u] = w] /\ sender' = [sender EXCEPT ![w].pc = "sending"]
      /\ begun' = [begun EXCEPT ![u] = Append(@, sender[w].written)]
      /\ UNCHANGED <<network, writes, lock>>
  BY DEF Lock, BeginSending
<1>2. /\ sender \in [Workers -> Senders] /\ mutex \in [Users -> Workers \cup {NoWorker}]
  BY DEF TypeInv, SendersInv
<1>3. /\ u \in placed /\ u \in Users /\ sender[w].written \in Written /\ sender[w] \in Senders
      /\ w # NoWorker /\ u # NoUser /\ sender[w].job \in Jobs /\ sender[w].total_sent = 0
  BY <1>1, InWrite, SendPathAssumption
<1>4. PICK r \in Senders : r = [sender[w] EXCEPT !.pc = "sending"]
  BY <1>3 DEF Senders
<1>5. /\ r.pc = "sending" /\ r.to = u /\ r.written = sender[w].written /\ r.job = sender[w].job
      /\ r.total_sent = sender[w].total_sent
  BY <1>3, <1>4 DEF Senders
<1>6. sender' = [sender EXCEPT ![w] = r] /\ sender'[w] = r /\ mutex'[u] = w
  BY <1>1, <1>2, <1>3, <1>4
<1>7. SenderOK(w)'
  <2>1. r.total_sent = 0 /\ Len(r.written.frame) \in Nat
    BY <1>3, <1>5, WrittenType
  <2>2. placed' = placed
    BY <1>1 DEF lock
  <2>3. r.total_sent <= Len(r.written.frame)
    BY <2>1
  <2>4. Writes(w)'
    BY <1>3, <1>5, <1>6, <2>2, <2>3 DEF Writes
  <2> QED
    BY <2>4 DEF SenderOK
<1>9. \A v \in Workers \ {w} : sender[v].pc = "sending" => sender[v].to # u
  BY <1>1, SendPathAssumption, InWrite DEF Writes
<1>10. \A x \in Users \ {u} : mutex[x] # w
  BY <1>1, <1>3 DEF TypeInv, SendersInv, HolderOK
<1>11. SendersInv'
  <2>1. PICK x \in Users, m \in Workers \cup {NoWorker} : x = u /\ m = w
    BY <1>3
  <2>2. SendersInv /\ placed' = placed
    BY <1>1 DEF TypeInv, lock
  <2>3. mutex' = [mutex EXCEPT ![x] = m] /\ sender' = [sender EXCEPT ![w] = r]
    BY <1>1, <1>6, <2>1
  <2>4. SenderOK(w)' /\ HolderOK(x)'
    BY <1>5, <1>6, <1>7, <2>1 DEF HolderOK
  <2>5. /\ \A v \in Workers \ {w} : sender[v].pc = "sending" => sender[v].to # x
        /\ \A y \in Users \ {x} : mutex[y] # w
    BY <1>9, <1>10, <2>1
  <2> HIDE DEF u
  <2> QED
    BY <2>2, <2>3, <2>4, <2>5, OneSender, Zenon
<1>12. PlacesInv'
  BY <1>1 DEF TypeInv, PlacesInv, network, lock
<1>13. StreamsInv'
  <2>1. begun \in [Users -> Seq(Written)]
    BY DEF TypeInv, StreamsInv
  <2>2. Append(begun[u], sender[w].written) \in Seq(Written)
    BY <1>3, <2>1, AppendProperties
  <2>3. begun' \in [Users -> Seq(Written)]
    BY <1>1, <2>1, <2>2
  <2> QED
    BY <1>1, <2>3 DEF TypeInv, StreamsInv, network, lock
<1> QED
  BY <1>11, <1>12, <1>13 DEF TypeInv

\* A call of send: who gets how much.
LEMMA SendFacts ==
  ASSUME TypeInv, NEW w \in Workers, SendSome(w)
  PROVE  /\ sender[w].pc = "sending" /\ Peer(w) \in Users
         /\ \E n \in 1..Len(Rest(w)) :
              /\ n <= Room(Peer(w))
              /\ stream' = [stream EXCEPT ![Peer(w)] = @ \o Chunk(w, n)]
              /\ unread' = [unread EXCEPT ![Peer(w)] = @ + n]
              /\ sender' = [sender EXCEPT ![w].total_sent = @ + n]
         /\ UNCHANGED <<conn, mutex, begun, writes, lock>>
<1>1. sender[w].pc = "sending" /\ Peer(w) # NoUser /\ UNCHANGED <<conn, mutex, begun, writes, lock>>
  BY DEF SendSome
<1>2. Peer(w) \in Users
  <2>1. sender[w].to \in Users
    BY <1>1, InWrite
  <2>2. Handle[sender[w].to] \in Handles
    BY <2>1 DEF Handles
  <2>3. Peer(w) \in placed \cup {placing, NoUser}
    BY <2>2 DEF Peer, TypeInv, PlacesInv
  <2> QED
    BY <1>1, <2>3 DEF TypeInv, PlacesInv
<1>3. \E n \in 1..Len(Rest(w)) :
        /\ n <= Room(Peer(w))
        /\ stream' = [stream EXCEPT ![Peer(w)] = @ \o Chunk(w, n)]
        /\ unread' = [unread EXCEPT ![Peer(w)] = @ + n]
        /\ sender' = [sender EXCEPT ![w].total_sent = @ + n]
  BY DEF SendSome, Chunk
<1> QED
  BY <1>1, <1>2, <1>3

LEMMA SendSomeType ==
  ASSUME TypeInv, NEW w \in Workers, SendSome(w)
  PROVE  TypeInv'
<1>1. /\ sender[w].pc = "sending" /\ Peer(w) \in Users
      /\ UNCHANGED <<conn, mutex, begun, writes, lock>>
  BY SendFacts
<1>2. PICK n \in 1..Len(Rest(w)) :
        /\ n <= Room(Peer(w))
        /\ stream' = [stream EXCEPT ![Peer(w)] = @ \o Chunk(w, n)]
        /\ unread' = [unread EXCEPT ![Peer(w)] = @ + n]
        /\ sender' = [sender EXCEPT ![w].total_sent = @ + n]
  BY SendFacts
<1>3. PICK u \in Users : u = sender[w].to
  BY <1>1, InWrite
<1>4. /\ sender \in [Workers -> Senders] /\ mutex \in [Users -> Workers \cup {NoWorker}]
      /\ Writes(w) /\ HolderOK(u) /\ sender[w] \in Senders /\ w # NoWorker
  BY <1>1, InWrite DEF TypeInv, SendersInv
<1>5. PICK t \in Nat : t = sender[w].total_sent
  BY <1>4 DEF Senders
<1>6. t + n \in Nat /\ t + n <= Len(sender[w].written.frame)
  BY <1>1, <1>5, RestFacts, InWrite
<1>7. PICK r \in Senders : r = [sender[w] EXCEPT !.total_sent = t + n]
  BY <1>4, <1>6 DEF Senders
<1>8. /\ r.pc = "sending" /\ r.to = u /\ r.written = sender[w].written /\ r.total_sent = t + n
      /\ r.job = sender[w].job
  BY <1>1, <1>3, <1>4, <1>7 DEF Senders
<1>9. sender' = [sender EXCEPT ![w] = r] /\ sender'[w] = r
  BY <1>2, <1>4, <1>5, <1>7
<1>10. mutex[u] = w /\ mutex' = mutex /\ placed' = placed /\ u \in placed
       /\ sender[w].written \in Written /\ sender[w].job \in Jobs
  BY <1>1, <1>3, <1>4 DEF Writes, lock
<1>11. SenderOK(w)'
  <2>1. Writes(w)'
    BY <1>6, <1>8, <1>9, <1>10 DEF Writes
  <2> QED
    BY <2>1 DEF SenderOK
<1>12. HolderOK(u)'
  BY <1>8, <1>9, <1>10 DEF HolderOK
<1>13. \A v \in Workers \ {w} : sender[v].pc = "sending" => sender[v].to # u
  BY <1>10, InWrite DEF Writes
<1>14. \A x \in Users \ {u} : mutex[x] # w
  BY <1>3, <1>4 DEF TypeInv, SendersInv, HolderOK
<1>15. SendersInv'
  <2>1. SendersInv /\ placed' = placed /\ w \in Workers \cup {NoWorker}
    BY <1>10 DEF TypeInv
  <2>2. mutex' = [mutex EXCEPT ![u] = w]
    BY <1>4, <1>10
  <2> QED
    BY <1>9, <1>11, <1>12, <1>13, <1>14, <2>1, <2>2, OneSender, Zenon
<1>16. PlacesInv'
  BY <1>1 DEF TypeInv, PlacesInv, lock
<1>17. StreamsInv'
  <2> PICK p \in Users : p = Peer(w)
    BY <1>1
  <2>1. stream \in [Users -> Seq(Bytes)] /\ unread \in [Users -> 0..SendBuffer]
    BY DEF TypeInv, StreamsInv
  <2>2. stream[p] \o Chunk(w, n) \in Seq(Bytes)
    BY <1>1, <2>1, ChunkFacts, ConcatProperties
  <2>3. unread[p] + n \in 0..SendBuffer
    <3>1. n <= SendBuffer - unread[p] /\ unread[p] \in 0..SendBuffer
      BY <1>2, <2>1 DEF Room
    <3>2. SendBuffer \in Nat /\ n \in Nat
      BY SendPathAssumption
    <3> QED
      BY <3>1, <3>2
  <2>4. stream' \in [Users -> Seq(Bytes)] /\ unread' \in [Users -> 0..SendBuffer]
    BY <1>2, <2>1, <2>2, <2>3
  <2> QED
    BY <1>1, <2>4 DEF TypeInv, StreamsInv, lock
<1> QED
  BY <1>15, <1>16, <1>17 DEF TypeInv

\* After write() the worker has another packet, waits to change a table, or is done.
LEMMA EndFacts ==
  ASSUME TypeInv, NEW w \in Workers, EndWrite(w)
  PROVE  /\ sender[w].pc = "sending" /\ (Rest(w) = <<>> \/ GivesUp(w))
         /\ mutex' = [mutex EXCEPT ![sender[w].to] = NoWorker]
         /\ UNCHANGED <<network, begun, lock>>
         /\ \E r \in Senders : /\ Resting(r) /\ sender' = [sender EXCEPT ![w] = r]
                               /\ writes' \in 0..MaxWrites
<1>1. /\ sender[w].pc = "sending" /\ (Rest(w) = <<>> \/ GivesUp(w))
      /\ mutex' = [mutex EXCEPT ![sender[w].to] = NoWorker]
      /\ UNCHANGED <<network, begun, lock>>
  BY DEF EndWrite
<1>2. /\ sender[w].to \in Users /\ sender[w].job \in Jobs /\ sender[w] \in Senders
      /\ writes \in 0..MaxWrites
  BY <1>1, InWrite DEF TypeInv, StreamsInv
<1>3. sender[w].about \in Users \cup {NoUser}
  BY <1>2 DEF Senders
<1>4. CASE EndJob(w) \/ NextPacket(w, sender[w].job, sender[w].about)
  <2>1. PICK job \in Jobs, x \in Users \cup {NoUser} : job = sender[w].job /\ x = sender[w].about
    BY <1>2, <1>3
  <2>2. EndJob(w) \/ NextPacket(w, job, x)
    BY <1>4, <2>1
  <2> QED
    BY <1>1, <2>2, Onwards
<1>5. CASE /\ sender' = [sender EXCEPT ![w] = [Idle EXCEPT !.job = "pass", !.pc = "changing",
                                                           !.about = sender[w].to]]
           /\ UNCHANGED writes
  <2>1. PICK r : r = [Idle EXCEPT !.job = "pass", !.pc = "changing", !.about = sender[w].to]
    OBVIOUS
  <2>2. r \in Senders /\ r.job = "pass" /\ r.pc = "changing" /\ r.to = NoUser
    BY <1>2, <2>1 DEF Idle, Senders, Jobs
  <2>3. Resting(r)
    BY <2>2 DEF Resting
  <2> QED
    BY <1>1, <1>2, <1>5, <2>1, <2>2, <2>3
<1> QED
  BY <1>4, <1>5 DEF EndWrite

LEMMA EndWriteType ==
  ASSUME TypeInv, NEW w \in Workers, EndWrite(w)
  PROVE  TypeInv'
<1>1. /\ sender[w].pc = "sending"
      /\ mutex' = [mutex EXCEPT ![sender[w].to] = NoWorker]
      /\ UNCHANGED <<network, begun, lock>>
  BY EndFacts
<1>2. PICK u \in Users : u = sender[w].to
  BY <1>1, InWrite
<1>3. /\ sender \in [Workers -> Senders] /\ mutex \in [Users -> Workers \cup {NoWorker}]
      /\ Writes(w) /\ w # NoWorker
  BY <1>1, InWrite DEF TypeInv, SendersInv
<1>4. PICK r \in Senders :
        Resting(r) /\ sender' = [sender EXCEPT ![w] = r] /\ writes' \in 0..MaxWrites
  BY EndFacts
<1>5. placed' = placed /\ sender'[w] = r
  BY <1>1, <1>3, <1>4 DEF lock
<1>7. mutex' = [mutex EXCEPT ![u] = NoWorker] /\ mutex'[u] = NoWorker
  BY <1>1, <1>2, <1>3
<1>8. SenderOK(w)'
  <2>1. Resting(sender[w])'
    BY <1>4, <1>5 DEF Resting
  <2> QED
    BY <2>1 DEF SenderOK
<1>9. HolderOK(u)'
  BY <1>7 DEF HolderOK
<1>10. mutex[u] = w
  BY <1>2, <1>3 DEF Writes
<1>11. \A v \in Workers \ {w} : sender[v].pc = "sending" => sender[v].to # u
  BY <1>10, InWrite DEF Writes
<1>12. \A x \in Users \ {u} : mutex[x] # w
  BY <1>2, <1>3 DEF TypeInv, SendersInv, HolderOK
<1>13. SendersInv'
  <2>1. SendersInv /\ placed' = placed /\ NoWorker \in Workers \cup {NoWorker}
    BY <1>5 DEF TypeInv
  <2> QED
    BY <1>4, <1>7, <1>8, <1>9, <1>11, <1>12, <2>1, OneSender, Zenon
<1>14. PlacesInv'
  BY <1>1 DEF TypeInv, PlacesInv, network, lock
<1>15. StreamsInv'
  BY <1>1, <1>4 DEF TypeInv, StreamsInv, network
<1> QED
  BY <1>13, <1>14, <1>15 DEF TypeInv

LEMMA CrashType ==
  ASSUME TypeInv, Crash
  PROVE  TypeInv'
<1>1. /\ sender' = [w \in Workers |-> Ended] /\ mutex' = [u \in Users |-> NoWorker]
      /\ conn' = [h \in Handles |-> NoUser] /\ placing' = NoUser
      /\ UNCHANGED <<stream, unread, begun, writes, placed>>
  BY DEF Crash
<1>2. \A w \in Workers : SenderOK(w)'
  <2> SUFFICES ASSUME NEW w \in Workers PROVE SenderOK(w)'
    OBVIOUS
  <2>1. sender'[w] = Ended
    BY <1>1
  <2>2. Resting(sender[w])'
    BY <2>1, IdleOrEnded DEF Resting
  <2> QED
    BY <2>2 DEF SenderOK
<1>3. \A u \in Users : HolderOK(u)'
  BY <1>1 DEF HolderOK
<1>4. sender' \in [Workers -> Senders] /\ mutex' \in [Users -> Workers \cup {NoWorker}]
  BY <1>1, IdleOrEnded
<1>5. SendersInv'
  BY <1>2, <1>3, <1>4 DEF SendersInv
<1>6. PlacesInv'
  BY <1>1 DEF TypeInv, PlacesInv
<1>7. StreamsInv'
  BY <1>1 DEF TypeInv, StreamsInv
<1> QED
  BY <1>5, <1>6, <1>7 DEF TypeInv

\* The steps, one by one.
LEMMA StepCases ==
  ASSUME [Next]_vars
  PROVE  \/ \E u \in Users : Connect(u) \/ Read(u) \/ Close(u)
         \/ Place
         \/ \E w \in Workers : Aside(w) \/ Lock(w) \/ SendSome(w) \/ EndWrite(w)
         \/ Crash
         \/ UNCHANGED vars
<1>1. CASE UNCHANGED vars
  BY <1>1
<1>2. CASE Next
  BY <1>2, Zenon DEF Next, Progress, Aside, Jobs
<1> QED
  BY <1>1, <1>2

LEMMA TypeStep == TypeInv /\ [Next]_vars => TypeInv'
<1> SUFFICES ASSUME TypeInv, [Next]_vars PROVE TypeInv'
  OBVIOUS
<1>1. CASE \E u \in Users : Connect(u) \/ Read(u) \/ Close(u)
  BY <1>1, ClientsType
<1>2. CASE Place
  BY <1>2, PlaceType
<1>3. ASSUME NEW w \in Workers, Lock(w) PROVE TypeInv'
  BY <1>3, LockType
<1>4. ASSUME NEW w \in Workers, SendSome(w) PROVE TypeInv'
  BY <1>4, SendSomeType
<1>5. ASSUME NEW w \in Workers, EndWrite(w) PROVE TypeInv'
  BY <1>5, EndWriteType
<1>6. ASSUME NEW w \in Workers, Aside(w) PROVE TypeInv'
  BY <1>6, AsideSteps, AsideType
<1>7. CASE Crash
  BY <1>7, CrashType
<1>8. CASE UNCHANGED vars
  BY <1>8 DEF vars, network, sending, lock, TypeInv, PlacesInv, StreamsInv, SendersInv,
              SenderOK, Resting, Writes, HolderOK
<1> QED
  BY <1>1, <1>2, <1>3, <1>4, <1>5, <1>6, <1>7, <1>8, StepCases

LEMMA TypeAlways == Spec => []TypeInv
<1>1. Init => TypeInv
  BY InitType
<1>2. TypeInv /\ [Next]_vars => TypeInv'
  BY TypeStep
<1> QED
  BY <1>1, <1>2, PTL DEF Spec

\* Type correctness, with what send_data_mutex is for: a worker that sends holds the mutex of
\* its user, and no other worker sends to this user meanwhile (outgoing_packets.cpp:228-235).
THEOREM TypeCorrect == Spec => []TypeOK
<1>1. TypeInv => TypeOK
  BY TypeInvImpliesTypeOK
<1> QED
  BY <1>1, TypeAlways, PTL

-----------------------------------------------------------------------------
(* The order of the bytes.                                                  *)

\* All but the last packet, and as much of the last one as its sender counts.
PartlySent(u) ==
  LET s == sender[mutex[u]] IN
  /\ begun[u] # <<>> /\ Last(begun[u]) = s.written
  /\ Own(u) = FramesOf(Front(begun[u])) \o SubSeq(s.written.frame, 1, s.total_sent)

\* A connection that is open has got all that was written to its user, but for the rest of the
\* packet that is being sent.  One that is closed gets nothing more.
OrderOK(u) ==
  /\ u \notin placed => begun[u] = <<>>
  /\ IsPrefix(Own(u), FramesOf(begun[u]))
  /\ IsOpen(u) /\ mutex[u] = NoWorker => Own(u) = FramesOf(begun[u])
  /\ IsOpen(u) /\ mutex[u] # NoWorker => PartlySent(u)

OrderInv == \A u \in Users : OrderOK(u)

LEMMA OwnType ==
  ASSUME TypeInv, NEW u \in Users
  PROVE  /\ begun[u] \in Seq(Written) /\ stream[u] \in Seq(Bytes)
         /\ Own(u) \in Seq(Byte) /\ FramesOf(begun[u]) \in Seq(Byte)
<1>1. begun[u] \in Seq(Written) /\ stream[u] \in Seq(Bytes)
  BY DEF TypeInv, StreamsInv
<1> QED
  BY <1>1, AssemblesAll, ForType DEF Own

LEMMA OrderImpliesBytesInOrder == TypeInv /\ OrderInv => OwnBytesInOrder
<1> SUFFICES ASSUME TypeInv, OrderInv, NEW u \in Users
             PROVE  /\ IsPrefix(Own(u), FramesOf(begun[u]))
                    /\ IsOpen(u) /\ begun[u] # <<>> =>
                         Len(Own(u)) >= Len(FramesOf(Front(begun[u])))
  BY DEF OwnBytesInOrder
<1>1. OrderOK(u)
  BY DEF OrderInv
<1>2. ASSUME IsOpen(u), begun[u] # <<>>
      PROVE  Len(Own(u)) >= Len(FramesOf(Front(begun[u])))
  <2>1. begun[u] \in Seq(Written)
    BY OwnType
  <2>2. PICK ps \in Seq(Written), p \in Written :
          ps = Front(begun[u]) /\ p = Last(begun[u]) /\ begun[u] = Append(ps, p)
    BY <1>2, <2>1, FrontAndLast
  <2>3. PICK a \in Seq(Byte), f \in Seq(Byte) : a = FramesOf(ps) /\ f = p.frame
    BY AssemblesAll, WrittenType
  <2>4. \E r \in Seq(Byte) : Own(u) = a \o r
    <3>1. CASE mutex[u] = NoWorker
      BY <1>1, <1>2, <2>2, <2>3, <3>1, AllAppend DEF OrderOK
    <3>2. CASE mutex[u] # NoWorker
      <4>1. PartlySent(u)
        BY <1>1, <1>2, <3>2 DEF OrderOK
      <4>2. PICK w \in Workers : w = mutex[u] /\ sender[w].pc = "sending"
        BY <3>2 DEF TypeInv, SendersInv, HolderOK
      <4>3. sender[w].written = p /\ sender[w].total_sent \in 0..Len(f)
        BY <2>2, <2>3, <4>1, <4>2, RestFacts DEF PartlySent, Frame
      <4>4. SubSeq(f, 1, sender[w].total_sent) \in Seq(Byte)
        BY <4>3, SubSeqOf
      <4> QED
        BY <2>2, <2>3, <4>1, <4>2, <4>3, <4>4 DEF PartlySent
    <3> QED
      BY <3>1, <3>2
  <2>5. PICK r \in Seq(Byte) : Own(u) = a \o r
    BY <2>4
  <2>6. Len(a \o r) = Len(a) + Len(r) /\ Len(a) \in Nat /\ Len(r) \in Nat
    BY ConcatProperties
  <2>7. Len(a \o r) >= Len(a)
    BY <2>6
  <2> QED
    BY <2>2, <2>3, <2>5, <2>7
<1> QED
  BY <1>1, <1>2 DEF OrderOK

LEMMA InitOrder == Init => OrderInv
<1> SUFFICES ASSUME Init, NEW u \in Users PROVE OrderOK(u)
  BY DEF OrderInv
<1>1. begun[u] = <<>> /\ stream[u] = <<>> /\ mutex[u] = NoWorker
  BY DEF Init
<1>2. <<>> \in Seq(Bytes) /\ <<>> \in Seq(Byte) /\ <<>> \o <<>> = <<>>
  BY ConcatEmptySeq
<1>3. Own(u) = <<>>
  <2>1. \A i \in 1..Len(<<>>) : <<>>[i].to # u
    OBVIOUS
  <2> QED
    BY <1>1, <1>2, <2>1, ForNone DEF Own
<1>4. FramesOf(begun[u]) = <<>>
  BY <1>1, AllNone
<1>5. IsPrefix(<<>>, <<>>)
  BY <1>2, PrefixOfConcat
<1> QED
  BY <1>1, <1>3, <1>4, <1>5 DEF OrderOK

\* A step that does not concern u.
LEMMA OrderKept ==
  ASSUME NEW u \in Users, OrderOK(u), Own(u)' = Own(u), begun'[u] = begun[u],
         mutex'[u] = mutex[u], mutex[u] # NoWorker => sender'[mutex[u]] = sender[mutex[u]],
         IsOpen(u)' => IsOpen(u), placed \subseteq placed'
  PROVE  OrderOK(u)'
<1>1. ASSUME mutex[u] # NoWorker, PartlySent(u) PROVE PartlySent(u)'
  BY <1>1 DEF PartlySent
<1>2. u \notin placed' => begun'[u] = <<>>
  BY DEF OrderOK
<1>3. IsPrefix(Own(u)', FramesOf(begun'[u]))
  BY DEF OrderOK
<1>4. IsOpen(u)' /\ mutex'[u] = NoWorker => Own(u)' = FramesOf(begun'[u])
  BY DEF OrderOK
<1>5. IsOpen(u)' /\ mutex'[u] # NoWorker => PartlySent(u)'
  BY <1>1 DEF OrderOK
<1> QED
  BY <1>2, <1>3, <1>4, <1>5 DEF OrderOK

LEMMA ClientsOrder ==
  ASSUME TypeInv, OrderInv, NEW x \in Users, Connect(x) \/ Read(x) \/ Close(x)
  PROVE  OrderInv'
<1> SUFFICES ASSUME NEW u \in Users PROVE OrderOK(u)'
  BY DEF OrderInv
<1>1. OrderOK(u) /\ conn \in [Handles -> placed \cup {placing, NoUser}] /\ u # NoUser
      /\ Handle[u] \in Handles /\ Handle[x] \in Handles
  BY SendPathAssumption DEF OrderInv, TypeInv, PlacesInv, Handles
<1>2. UNCHANGED <<stream, begun, mutex, sender, placed>>
  BY DEF Connect, Read, Close, sending, lock
<1>3. Own(u)' = Own(u)
  BY <1>2 DEF Own
<1>4. CASE Connect(x) /\ u = x
  <2>1. u \notin placed
    BY <1>4 DEF Connect
  <2>2. begun[u] = <<>>
    BY <1>1, <2>1 DEF OrderOK
  <2>3. mutex[u] = NoWorker
    <3> SUFFICES ASSUME mutex[u] # NoWorker PROVE FALSE
      OBVIOUS
    <3>1. PICK w \in Workers : w = mutex[u] /\ sender[w].pc = "sending" /\ sender[w].to = u
      BY DEF TypeInv, SendersInv, HolderOK
    <3> QED
      BY <2>1, <3>1, InWrite
  <2>4. FramesOf(begun[u]) = <<>> /\ Own(u) \in Seq(Byte)
    BY <2>2, AllNone, OwnType
  <2>5. Own(u) = <<>>
    <3>1. IsPrefix(Own(u), <<>>)
      BY <1>1, <2>4 DEF OrderOK
    <3>2. PICK r \in Seq(Byte) : <<>> = Own(u) \o r
      <4>1. <<>> \in Seq(Byte)
        OBVIOUS
      <4> QED
        BY <2>4, <3>1, <4>1, PrefixHasRest
    <3> QED
      BY <2>4, <3>2, ConcatEqualIffEmpty
  <2> QED
    BY <1>1, <1>2, <1>3, <2>2, <2>3, <2>4, <2>5 DEF OrderOK
<1>5. CASE ~(Connect(x) /\ u = x)
  <2>1. IsOpen(u)' => IsOpen(u)
    <3>1. CASE Connect(x)
      BY <1>1, <1>5, <3>1 DEF Connect, IsOpen
    <3>2. CASE Read(x)
      BY <3>2 DEF Read, IsOpen
    <3>3. CASE Close(x)
      BY <1>1, <3>3 DEF Close, IsOpen
    <3> QED
      BY <3>1, <3>2, <3>3
  <2> QED
    BY <1>1, <1>2, <1>3, <2>1, OrderKept
<1> QED
  BY <1>4, <1>5

LEMMA PlaceOrder ==
  ASSUME TypeInv, OrderInv, Place
  PROVE  OrderInv'
<1> SUFFICES ASSUME NEW u \in Users PROVE OrderOK(u)'
  BY DEF OrderInv
<1>1. OrderOK(u)
  BY DEF OrderInv
<1>2. UNCHANGED <<stream, begun, mutex, conn, sender>> /\ placed \subseteq placed'
  BY DEF Place, network, sending
<1>3. Own(u)' = Own(u) /\ (IsOpen(u)' <=> IsOpen(u))
  BY <1>2 DEF Own, IsOpen
<1> QED
  BY <1>1, <1>2, <1>3, OrderKept

LEMMA AsideOrder ==
  ASSUME TypeInv, OrderInv, NEW w \in Workers, Aside(w)
  PROVE  OrderInv'
<1> SUFFICES ASSUME NEW u \in Users PROVE OrderOK(u)'
  BY DEF OrderInv
<1>1. sender[w].pc # "sending" /\ UNCHANGED <<network, mutex, begun, lock>>
  BY AsideSteps
<1>2. PICK r \in Senders : sender' = [sender EXCEPT ![w] = r]
  BY AsideSteps
<1>3. OrderOK(u) /\ UNCHANGED <<stream, begun, mutex, conn, placed>>
  BY <1>1 DEF OrderInv, network, lock
<1>4. Own(u)' = Own(u) /\ (IsOpen(u)' <=> IsOpen(u))
  BY <1>3 DEF Own, IsOpen
<1>5. mutex[u] # NoWorker => sender'[mutex[u]] = sender[mutex[u]]
  <2>1. mutex[u] # NoWorker => mutex[u] # w
    BY <1>1 DEF TypeInv, SendersInv, HolderOK
  <2>2. \A v \in Workers : v # w => sender'[v] = sender[v]
    BY <1>2 DEF TypeInv, SendersInv
  <2>3. mutex[u] \in Workers \cup {NoWorker}
    BY DEF TypeInv, SendersInv
  <2> QED
    BY <2>1, <2>2, <2>3
<1> QED
  BY <1>3, <1>4, <1>5, OrderKept

\* When the process ends every connection is closed.
LEMMA CrashOrder ==
  ASSUME TypeInv, OrderInv, Crash
  PROVE  OrderInv'
<1> SUFFICES ASSUME NEW u \in Users PROVE OrderOK(u)'
  BY DEF OrderInv
<1>1. OrderOK(u)
  BY DEF OrderInv
<1>2. conn' = [h \in Handles |-> NoUser] /\ UNCHANGED <<stream, begun, placed>>
  BY DEF Crash
<1>3. Own(u)' = Own(u)
  BY <1>2 DEF Own
<1>4. ~IsOpen(u)'
  BY <1>2, SendPathAssumption DEF IsOpen, Handles
<1> QED
  BY <1>1, <1>2, <1>3, <1>4 DEF OrderOK

LEMMA LockOrder ==
  ASSUME TypeInv, OrderInv, NEW w \in Workers, Lock(w)
  PROVE  OrderInv'
<1> SUFFICES ASSUME NEW u \in Users PROVE OrderOK(u)'
  BY DEF OrderInv
<1>1. PICK x \in Users : x = sender[w].to
  BY InWrite DEF Lock
<1>2. /\ sender[w].pc = "locking" /\ mutex[x] = NoWorker
      /\ mutex' = [mutex EXCEPT ![x] = w] /\ sender' = [sender EXCEPT ![w].pc = "sending"]
      /\ begun' = [begun EXCEPT ![x] = Append(@, sender[w].written)]
      /\ UNCHANGED <<network, writes, lock>>
  BY <1>1 DEF Lock, BeginSending
<1>3. OrderOK(u) /\ sender \in [Workers -> Senders] /\ mutex \in [Users -> Workers \cup {NoWorker}]
      /\ begun \in [Users -> Seq(Written)]
  BY DEF OrderInv, TypeInv, SendersInv, StreamsInv
<1>4. Own(u)' = Own(u) /\ (IsOpen(u)' <=> IsOpen(u)) /\ placed' = placed
  BY <1>2 DEF Own, IsOpen, network, lock
<1>5. CASE u # x
  <2>1. mutex'[u] = mutex[u] /\ begun'[u] = begun[u]
    BY <1>2, <1>3, <1>5
  <2>2. mutex[u] # NoWorker => mutex[u] # w
    BY <1>2 DEF TypeInv, SendersInv, HolderOK
  <2>3. mutex[u] # NoWorker => sender'[mutex[u]] = sender[mutex[u]]
    BY <1>2, <1>3, <2>2
  <2> QED
    BY <1>3, <1>4, <2>1, <2>3, OrderKept
<1>6. CASE u = x
  <2>1. PICK p \in Written : p = sender[w].written /\ x \in placed /\ sender[w].total_sent = 0
    BY <1>1, <1>2, InWrite
  <2>2. begun'[u] = Append(begun[u], p) /\ begun[u] \in Seq(Written) /\ mutex'[u] = w
    BY <1>2, <1>3, <1>6, <2>1
  <2>3. sender'[w].written = p /\ sender'[w].total_sent = 0
    <3>1. sender[w] \in Senders /\ sender'[w] = [sender[w] EXCEPT !.pc = "sending"]
      BY <1>2, <1>3
    <3> QED
      BY <2>1, <3>1 DEF Senders
  <2>4. PICK a \in Seq(Byte), f \in Seq(Byte) : a = FramesOf(begun[u]) /\ f = p.frame
    BY <2>2, AssemblesAll, WrittenType
  <2>5. FramesOf(begun'[u]) = a \o f
    BY <2>2, <2>4, AllAppend
  <2>6. IsPrefix(Own(u)', FramesOf(begun'[u]))
    <3>1. Own(u) \in Seq(Byte) /\ IsPrefix(Own(u), a)
      BY <1>3, <2>4, OwnType DEF OrderOK
    <3>2. PICK r \in Seq(Byte) : a = Own(u) \o r
      BY <3>1, PrefixHasRest
    <3>3. r \o f \in Seq(Byte) /\ a \o f = Own(u) \o (r \o f)
      BY <3>1, <3>2, ConcatAssociative, ConcatProperties
    <3> QED
      BY <1>4, <2>5, <3>1, <3>3, PrefixOfConcat
  <2>7. ASSUME IsOpen(u)' PROVE PartlySent(u)'
    <3>1. Own(u) = a
      BY <1>2, <1>3, <1>4, <1>6, <2>4, <2>7 DEF OrderOK
    <3>2. Front(begun'[u]) = begun[u] /\ Last(begun'[u]) = p /\ begun'[u] # <<>>
      BY <2>2, FrontOfAppend
    <3>3. SubSeq(f, 1, 0) = <<>> /\ a \o <<>> = a
      BY SubSeqEmpty, ConcatEmptySeq
    <3>4. Own(u)' = FramesOf(Front(begun'[u])) \o SubSeq(p.frame, 1, 0)
      BY <1>4, <2>4, <3>1, <3>2, <3>3
    <3> QED
      BY <2>2, <2>3, <3>2, <3>4 DEF PartlySent
  <2>8. mutex'[u] # NoWorker /\ u \in placed'
    BY <1>4, <1>6, <2>1, <2>2, SendPathAssumption
  <2> QED
    BY <2>6, <2>7, <2>8 DEF OrderOK
<1> QED
  BY <1>5, <1>6

LEMMA Regroup ==
  \A a, b, c \in Seq(Byte) : (a \o b) \o c = a \o (b \o c)
<1> SUFFICES ASSUME NEW a \in Seq(Byte), NEW b \in Seq(Byte), NEW c \in Seq(Byte)
             PROVE  (a \o b) \o c = a \o (b \o c)
  OBVIOUS
<1> QED
  BY ConcatAssociative

LEMMA SendSomeOrder ==
  ASSUME TypeInv, OrderInv, NEW w \in Workers, SendSome(w)
  PROVE  OrderInv'
<1> SUFFICES ASSUME NEW u \in Users PROVE OrderOK(u)'
  BY DEF OrderInv
<1>1. PICK peer \in Users : peer = Peer(w)
  BY SendFacts
<1>2. /\ sender[w].pc = "sending"
      /\ UNCHANGED <<conn, mutex, begun, writes, lock>>
  BY SendFacts
<1>3. PICK n \in 1..Len(Rest(w)) :
        /\ stream' = [stream EXCEPT ![peer] = @ \o Chunk(w, n)]
        /\ sender' = [sender EXCEPT ![w].total_sent = @ + n]
  BY <1>1, SendFacts
<1>4. PICK x \in Users : x = sender[w].to
  BY <1>2, InWrite
<1>5. PICK c \in Seq(Bytes) : c = Chunk(w, n) /\ Len(c) = n
  BY <1>2, ChunkFacts
<1>6. \A i \in 1..n : c[i].to = x /\ c[i].byte = Rest(w)[i]
  BY <1>2, <1>4, <1>5, ChunkFacts
<1>7. OrderOK(u) /\ sender \in [Workers -> Senders] /\ mutex[x] = w /\ w # NoWorker
      /\ stream \in [Users -> Seq(Bytes)]
  BY <1>2, <1>4, InWrite DEF OrderInv, TypeInv, SendersInv, StreamsInv, Writes
<1>8. (IsOpen(u)' <=> IsOpen(u)) /\ placed' = placed /\ mutex' = mutex /\ begun' = begun
  BY <1>2 DEF IsOpen, lock
<1>9. ASSUME u # x \/ peer # x PROVE Own(u)' = Own(u)
  <2>1. CASE u # peer
    BY <1>3, <1>7, <2>1 DEF Own
  <2>2. CASE u = peer
    <3>1. \A i \in 1..Len(c) : c[i].to # u
      BY <1>5, <1>6, <1>9, <2>2
    <3>2. stream'[u] = stream[u] \o c /\ stream[u] \in Seq(Bytes)
      BY <1>3, <1>5, <1>7, <2>2
    <3>3. BytesFor(u, stream[u] \o c) = BytesFor(u, stream[u]) \o BytesFor(u, c)
      BY <3>2, ForConcat
    <3>4. BytesFor(u, c) = <<>> /\ BytesFor(u, stream[u]) \in Seq(Byte)
      BY <3>1, <3>2, ForNone, ForType
    <3>5. BytesFor(u, stream[u]) \o <<>> = BytesFor(u, stream[u])
      BY <3>4, ConcatEmptySeq
    <3> QED
      BY <3>2, <3>3, <3>4, <3>5 DEF Own
  <2> QED
    BY <2>1, <2>2
<1>10. CASE u # x
  <2>1. mutex[u] # NoWorker => mutex[u] # w
    BY <1>4, <1>10 DEF TypeInv, SendersInv, HolderOK
  <2>2. mutex[u] # NoWorker => sender'[mutex[u]] = sender[mutex[u]]
    <3>1. mutex[u] \in Workers \cup {NoWorker}
      BY DEF TypeInv, SendersInv
    <3> QED
      BY <1>3, <1>7, <2>1, <3>1
  <2> QED
    BY <1>7, <1>8, <1>9, <1>10, <2>2, OrderKept
<1>11. CASE u = x /\ peer # x
  <2>1. ~IsOpen(u)
    BY <1>1, <1>4, <1>11 DEF IsOpen, Peer
  <2>2. Own(u)' = Own(u)
    BY <1>9, <1>11
  <2> QED
    BY <1>7, <1>8, <2>1, <2>2 DEF OrderOK
<1>12. CASE u = x /\ peer = x
  <2>1. IsOpen(u) /\ mutex[u] = w
    BY <1>1, <1>4, <1>7, <1>12 DEF IsOpen, Peer
  <2>2. PartlySent(u)
    BY <1>7, <2>1 DEF OrderOK
  <2>3. PICK p \in Written : p = sender[w].written
    BY <1>2, InWrite
  <2>4. PICK f \in Seq(Byte) : f = p.frame
    BY WrittenType
  <2>5. PICK t \in Nat : t = sender[w].total_sent
    BY <1>2, InWrite
  <2>6. PICK ps \in Seq(Written) : ps = Front(begun[u]) /\ begun[u] = Append(ps, p)
    <3>1. begun[u] # <<>> /\ Last(begun[u]) = p
      BY <2>1, <2>2, <2>3 DEF PartlySent
    <3>2. begun[u] \in Seq(Written)
      BY OwnType
    <3> QED
      BY <3>1, <3>2, FrontAndLast
  <2>7. PICK a \in Seq(Byte) : a = FramesOf(ps)
    BY AssemblesAll
  <2>8. n \in Nat \ {0} /\ t + n <= Len(f) /\ t \in 0..Len(f) /\ Len(f) \in Nat
    <3>1. Frame(w) = f /\ Len(f) \in Nat
      BY <2>3, <2>4 DEF Frame
    <3>2. Len(Rest(w)) = Len(f) - t /\ t \in 0..Len(f)
      BY <1>2, <2>5, <3>1, RestFacts
    <3>3. n \in 1..Len(f) - t
      BY <3>2
    <3> QED
      BY <3>1, <3>2, <3>3
  <2>9. PICK g \in Seq(Byte) : g = SubSeq(f, t + 1, t + n)
    <3>1. t + 1 \in Nat \ {0} /\ t + n \in 0..Len(f)
      BY <2>8
    <3> QED
      BY <3>1, SubSeqOf
  <2>10. BytesFor(u, c) = g
    <3>1. \A i \in 1..Len(c) : c[i].to = u
      BY <1>5, <1>6, <1>12
    <3>2. BytesFor(u, c) = BytesOf(c) /\ BytesFor(u, c) \in Seq(Byte)
      BY <3>1, ForAll, ForType
    <3>3. Len(BytesOf(c)) = n /\ \A i \in 1..n : BytesOf(c)[i] = Rest(w)[i]
      BY <1>5, <1>6, <2>8 DEF BytesOf
    <3>4. Len(g) = n /\ \A i \in 1..n : g[i] = f[t + i]
      BY <2>8, <2>9
    <3>5. \A i \in 1..n : Rest(w)[i] = f[t + i]
      <4>1. \A i \in 1..Len(Rest(w)) : Rest(w)[i] = f[t + i]
        BY <1>2, <2>3, <2>4, <2>5, RestFacts DEF Frame
      <4>2. Len(Rest(w)) \in Nat
        BY <1>2, RestFacts
      <4> QED
        BY <4>1, <4>2
    <3> QED
      BY <3>2, <3>3, <3>4, <3>5, SeqEqual
  <2>11. PICK h \in Seq(Byte) : h = SubSeq(f, 1, t)
    <3>1. 1 \in Nat \ {0} /\ t \in 0..Len(f)
      BY <2>8
    <3>2. SubSeq(f, 1, t) \in Seq(Byte)
      BY <3>1, SubSeqOf
    <3> QED
      BY <3>2
  <2>12. Own(u) = a \o h
    BY <2>1, <2>2, <2>3, <2>4, <2>5, <2>6, <2>7, <2>11 DEF PartlySent
  <2>13. Own(u)' = (a \o h) \o g
    <3>1. stream'[u] = stream[u] \o c /\ stream[u] \in Seq(Bytes)
      BY <1>3, <1>5, <1>7, <1>12
    <3>2. BytesFor(u, stream[u] \o c) = BytesFor(u, stream[u]) \o BytesFor(u, c)
      BY <3>1, ForConcat
    <3> QED
      BY <2>10, <2>12, <3>1, <3>2 DEF Own
  <2>14. h \o g = SubSeq(f, 1, t + n)
    BY <2>8, <2>9, <2>11, SubSeqOn
  <2>15. Own(u)' = a \o SubSeq(f, 1, t + n)
    <3>1. (a \o h) \o g = a \o (h \o g)
      BY Regroup
    <3> QED
      BY <2>13, <2>14, <3>1
  <2>16. sender'[w].written = p /\ sender'[w].total_sent = t + n
    <3>1. sender[w] \in Senders /\ sender'[w] = [sender[w] EXCEPT !.total_sent = t + n]
      BY <1>3, <1>7, <2>5
    <3> QED
      BY <2>3, <3>1 DEF Senders
  <2>17. PartlySent(u)'
    <3>1. begun[u] # <<>> /\ Last(begun[u]) = p
      BY <2>1, <2>2, <2>3 DEF PartlySent
    <3>2. Own(u)' = FramesOf(Front(begun'[u])) \o SubSeq(p.frame, 1, t + n)
      BY <1>8, <2>4, <2>6, <2>7, <2>15
    <3> QED
      BY <1>8, <2>1, <2>16, <3>1, <3>2 DEF PartlySent
  <2>18. IsPrefix(Own(u)', FramesOf(begun'[u]))
    <3>1. PICK m \in Nat : m = t + n /\ m <= Len(f)
      BY <2>8
    <3>2. PICK k \in Seq(Byte), r \in Seq(Byte) :
            k = SubSeq(f, 1, m) /\ r = SubSeq(f, m + 1, Len(f))
      <4>1. m \in 0..Len(f) /\ m + 1 \in Nat \ {0} /\ 1 \in Nat \ {0} /\ Len(f) \in 0..Len(f)
        BY <2>8, <3>1
      <4>2. SubSeq(f, 1, m) \in Seq(Byte)
        BY <4>1, SubSeqOf
      <4>3. SubSeq(f, m + 1, Len(f)) \in Seq(Byte)
        BY <4>1, SubSeqOf
      <4> QED
        BY <4>2, <4>3
    <3>3. k \o r = f
      <4>1. Len(f) - m \in Nat /\ m + (Len(f) - m) = Len(f)
        BY <2>8, <3>1
      <4>2. PICK l \in Nat : l = Len(f) - m /\ m + l = Len(f)
        BY <4>1
      <4>3. SubSeq(f, 1, m) \o SubSeq(f, m + 1, m + l) = SubSeq(f, 1, m + l)
        <5>1. m + l <= Len(f)
          BY <2>8, <4>2
        <5> QED
          BY <5>1, SubSeqOn
      <4>4. SubSeq(f, 1, Len(f)) = f
        BY SubSeqFull
      <4> QED
        BY <3>2, <4>2, <4>3, <4>4
    <3>4. FramesOf(begun[u]) = a \o (k \o r)
      BY <2>4, <2>6, <2>7, <3>3, AllAppend
    <3>5. a \o (k \o r) = (a \o k) \o r /\ a \o k \in Seq(Byte)
      <4>1. (a \o k) \o r = a \o (k \o r)
        BY Regroup
      <4>2. a \o k \in Seq(Byte)
        BY ConcatProperties
      <4> QED
        BY <4>1, <4>2
    <3>6. Own(u)' = a \o k
      BY <2>15, <3>1, <3>2
    <3> QED
      BY <1>8, <3>4, <3>5, <3>6, PrefixOfConcat
  <2> QED
    BY <1>7, <1>8, <2>1, <2>17, <2>18 DEF OrderOK
<1> QED
  BY <1>10, <1>11, <1>12

LEMMA EndWriteOrder ==
  ASSUME TypeInv, OrderInv, NEW w \in Workers, EndWrite(w)
  PROVE  OrderInv'
<1> SUFFICES ASSUME NEW u \in Users PROVE OrderOK(u)'
  BY DEF OrderInv
<1>1. /\ sender[w].pc = "sending" /\ (Rest(w) = <<>> \/ GivesUp(w))
      /\ mutex' = [mutex EXCEPT ![sender[w].to] = NoWorker]
      /\ UNCHANGED <<network, begun, lock>>
  BY EndFacts
<1>0. PICK r \in Senders : sender' = [sender EXCEPT ![w] = r]
  BY EndFacts
<1>2. PICK x \in Users : x = sender[w].to
  BY <1>1, InWrite
<1>3. OrderOK(u) /\ sender \in [Workers -> Senders] /\ mutex \in [Users -> Workers \cup {NoWorker}]
      /\ mutex[x] = w /\ w # NoWorker
  BY <1>1, <1>2, InWrite DEF OrderInv, TypeInv, SendersInv, Writes
<1>4. /\ Own(u)' = Own(u) /\ (IsOpen(u)' <=> IsOpen(u)) /\ placed' = placed /\ begun' = begun
  BY <1>1 DEF Own, IsOpen, network, lock
<1>5. CASE u # x
  <2>1. mutex[u] # NoWorker => mutex[u] # w
    BY <1>2, <1>5 DEF TypeInv, SendersInv, HolderOK
  <2>2. mutex[u] # NoWorker => sender'[mutex[u]] = sender[mutex[u]]
    BY <1>0, <1>3, <2>1
  <2>3. mutex'[u] = mutex[u]
    BY <1>1, <1>2, <1>3, <1>5
  <2> QED
    BY <1>3, <1>4, <2>2, <2>3, OrderKept
<1>6. CASE u = x
  <2>1. mutex'[u] = NoWorker
    BY <1>1, <1>2, <1>3, <1>6
  <2>2. ASSUME IsOpen(u) PROVE Own(u) = FramesOf(begun[u])
    <3>1. PartlySent(u)
      BY <1>3, <1>6, <2>2 DEF OrderOK
    <3>2. PICK p \in Written : p = sender[w].written
      BY <1>1, InWrite
    <3>3. PICK f \in Seq(Byte) : f = p.frame
      BY WrittenType
    <3>4. Rest(w) = <<>>
      <4>1. Peer(w) = u /\ u # NoUser
        BY <1>2, <1>6, <2>2, SendPathAssumption DEF IsOpen, Peer
      <4> QED
        BY <1>1, <4>1 DEF GivesUp
    <3>5. sender[w].total_sent = Len(f)
      BY <1>1, <3>2, <3>3, <3>4, RestFacts DEF Frame
    <3>6. SubSeq(f, 1, Len(f)) = f
      BY SubSeqFull
    <3>7. Own(u) = FramesOf(Front(begun[u])) \o f /\ begun[u] # <<>> /\ Last(begun[u]) = p
      BY <1>3, <1>6, <3>1, <3>2, <3>3, <3>5, <3>6 DEF PartlySent
    <3>8. begun[u] \in Seq(Written)
      BY OwnType
    <3>9. PICK ps \in Seq(Written) : ps = Front(begun[u]) /\ begun[u] = Append(ps, p)
      BY <3>7, <3>8, FrontAndLast
    <3> QED
      BY <3>3, <3>7, <3>9, AllAppend
  <2> QED
    BY <1>3, <1>4, <2>1, <2>2 DEF OrderOK
<1> QED
  BY <1>5, <1>6

LEMMA OrderStep == TypeInv /\ OrderInv /\ [Next]_vars => OrderInv'
<1> SUFFICES ASSUME TypeInv, OrderInv, [Next]_vars PROVE OrderInv'
  OBVIOUS
<1>1. CASE \E u \in Users : Connect(u) \/ Read(u) \/ Close(u)
  BY <1>1, ClientsOrder
<1>2. CASE Place
  BY <1>2, PlaceOrder
<1>3. ASSUME NEW w \in Workers, Lock(w) PROVE OrderInv'
  BY <1>3, LockOrder
<1>4. ASSUME NEW w \in Workers, SendSome(w) PROVE OrderInv'
  BY <1>4, SendSomeOrder
<1>5. ASSUME NEW w \in Workers, EndWrite(w) PROVE OrderInv'
  BY <1>5, EndWriteOrder
<1>6. ASSUME NEW w \in Workers, Aside(w) PROVE OrderInv'
  BY <1>6, AsideOrder
<1>7. CASE Crash
  BY <1>7, CrashOrder
<1>8. CASE UNCHANGED vars
  BY <1>8 DEF vars, network, sending, lock, OrderInv, OrderOK, PartlySent, Own, IsOpen
<1> QED
  BY <1>1, <1>2, <1>3, <1>4, <1>5, <1>6, <1>7, <1>8, StepCases

LEMMA OrderAlways == Spec => [](TypeInv /\ OrderInv)
<1>1. Init => TypeInv /\ OrderInv
  BY InitType, InitOrder
<1>2. TypeInv /\ OrderInv /\ [Next]_vars => (TypeInv /\ OrderInv)'
  BY TypeStep, OrderStep
<1> QED
  BY <1>1, <1>2, PTL DEF Spec

\* What is written to a user arrives in the order of its send_data_mutex, without a gap and
\* without two packets mixed, and while its connection is open nothing but the end of the last
\* packet is missing: the mutex is held for all the calls of send that a packet takes
\* (outgoing_packets.cpp:228-258).
THEOREM BytesInOrder == Spec => []OwnBytesInOrder
<1>1. TypeInv /\ OrderInv => OwnBytesInOrder
  BY OrderImpliesBytesInOrder
<1> QED
  BY <1>1, OrderAlways, PTL

-----------------------------------------------------------------------------
(* The client decodes what was written.                                     *)

\* Two ways to cut the same sequence agree from the front.
LEMMA AtFront ==
  ASSUME NEW S, NEW d \in Seq(S), NEW u \in Seq(S), NEW e \in Seq(S), NEW r \in Seq(S),
         d \o u = e \o r
  PROVE  /\ \A i \in 1..Len(d) : i <= Len(e) => d[i] = e[i]
         /\ Len(e) <= Len(d) => SubSeq(d, Len(e) + 1, Len(d)) \o u = r
<1>0. Len(d) \in Nat /\ Len(u) \in Nat /\ Len(e) \in Nat /\ Len(r) \in Nat
  OBVIOUS
<1>1. /\ Len(d) + Len(u) = Len(e) + Len(r)
      /\ \A i \in 1..Len(d) + Len(u) : (d \o u)[i] = IF i <= Len(d) THEN d[i] ELSE u[i - Len(d)]
      /\ \A i \in 1..Len(d) + Len(u) : (d \o u)[i] = IF i <= Len(e) THEN e[i] ELSE r[i - Len(e)]
  BY ConcatProperties
<1>2. ASSUME NEW i \in 1..Len(d), i <= Len(e) PROVE d[i] = e[i]
  <2>1. i \in 1..Len(d) + Len(u) /\ i <= Len(d)
    BY <1>0
  <2> QED
    BY <1>1, <1>2, <2>1
<1>3. ASSUME Len(e) <= Len(d) PROVE SubSeq(d, Len(e) + 1, Len(d)) \o u = r
  <2> DEFINE t == SubSeq(d, Len(e) + 1, Len(d))
  <2>1. /\ t \in Seq(S) /\ Len(t) = Len(d) - Len(e)
        /\ \A i \in 1..Len(d) - Len(e) : t[i] = d[Len(e) + i]
    BY <1>0, <1>3
  <2> HIDE DEF t
  <2>2. /\ t \o u \in Seq(S) /\ Len(t \o u) = Len(r)
        /\ \A i \in 1..Len(t) + Len(u) : (t \o u)[i] = IF i <= Len(t) THEN t[i] ELSE u[i - Len(t)]
    BY <1>0, <1>1, <2>1, ConcatProperties
  <2>3. ASSUME NEW i \in 1..Len(r) PROVE (t \o u)[i] = r[i]
    <3>1. PICK j \in Int : j = i + Len(e)
      BY <1>0
    <3>2. j \in 1..Len(d) + Len(u) /\ ~(j <= Len(e)) /\ j - Len(e) = i
      BY <1>0, <1>1, <3>1
    <3>3. r[i] = IF j <= Len(d) THEN d[j] ELSE u[j - Len(d)]
      BY <1>1, <3>2
    <3>4. i \in 1..Len(t) + Len(u) /\ (i <= Len(t) <=> j <= Len(d)) /\ i - Len(t) = j - Len(d)
      BY <1>0, <1>1, <2>1, <3>1
    <3>5. i <= Len(t) => t[i] = d[j]
      BY <1>0, <2>1, <3>1, <3>4
    <3> QED
      BY <2>2, <3>3, <3>4, <3>5
  <2>4. t \o u = r
    BY <2>2, <2>3, SeqEqual
  <2> QED
    BY <2>4 DEF t
<1> QED
  BY <1>2, <1>3

LEMMA Sizes == \A id \in DOMAIN FrameSize : FrameSize[id] \in -2..36
  BY SMT DEF FrameSize

\* A packet of the table: what its functions of outgoing_packets.cpp write is as long as its
\* framing says, or short enough for the bytes that its size has.
WithinSize(p) ==
  /\ p.id \in DOMAIN FrameSize
  /\ FrameSize[p.id] = -1 => Len(p.payload) < 256
  /\ FrameSize[p.id] = -2 => Len(p.payload) < 65536
  /\ FrameSize[p.id] >= 0 => Len(p.payload) = FrameSize[p.id]

AllFramed == \A p \in Packets : WithinSize(p)

LEMMA TakeNone ==
  ASSUME NEW d, d.left = <<>>
  PROVE  Take(d) = d
<1>1. Len(d.left) = 0
  OBVIOUS
<1> QED
  BY <1>1 DEF Take

\* What taking a packet of n bytes after a header leaves, if all of it is there.
Taken(d, l, head, n) ==
  IF Len(l) < head \/ Len(l) < head + n THEN d
  ELSE [packets |-> Append(d.packets, [id |-> l[1], payload |-> SubSeq(l, head + 1, head + n)]),
        left    |-> SubSeq(l, head + n + 1, Len(l))]

SizeOf(l)   == FrameSize[l[1]]
HeadOf(l)   == IF SizeOf(l) < 0 THEN 1 - SizeOf(l) ELSE 1
Tells(l, n) ==
  /\ SizeOf(l) = -1 => n = l[2]
  /\ SizeOf(l) = -2 => n = read_unsigned_short(Tail(l))
  /\ SizeOf(l) >= 0 => n = SizeOf(l)

LEMMA TakeSome ==
  ASSUME NEW d, NEW l \in Seq(Byte), d.left = l, l # <<>>, l[1] \in DOMAIN FrameSize
  PROVE  /\ Len(l) < HeadOf(l) => Take(d) = d
         /\ \A n \in Nat : Tells(l, n) => Take(d) = Taken(d, l, HeadOf(l), n)
<1>0. PICK size \in -2..36 : size = SizeOf(l)
  BY Sizes DEF SizeOf
<1>4. PICK head \in 1..3 : head = HeadOf(l)
  <2>1. HeadOf(l) = IF size < 0 THEN 1 - size ELSE 1
    BY <1>0 DEF HeadOf
  <2>2. (IF size < 0 THEN 1 - size ELSE 1) \in 1..3
    OBVIOUS
  <2> QED
    BY <2>1, <2>2
<1> DEFINE Count == CASE size = -1 -> l[2]
                      [] size = -2 -> read_unsigned_short(Tail(l))
                      [] OTHER -> size
<1>1. Take(d) = Taken(d, l, head, Count)
  <2>1. size = FrameSize[l[1]] /\ head = IF size < 0 THEN 1 - size ELSE 1
    BY <1>0, <1>4 DEF SizeOf, HeadOf
  <2> QED
    BY <2>1 DEF Take, Taken
<1> HIDE DEF Count
<1>2. ASSUME Len(l) < HeadOf(l) PROVE Take(d) = d
  BY <1>1, <1>2, <1>4 DEF Taken
<1>3. ASSUME NEW n \in Nat, Tells(l, n) PROVE Take(d) = Taken(d, l, HeadOf(l), n)
  <2>1. CASE size = -1
    BY <1>0, <1>1, <1>3, <1>4, <2>1 DEF Tells, Count
  <2>2. CASE size = -2
    BY <1>0, <1>1, <1>3, <1>4, <2>2 DEF Tells, Count
  <2>3. CASE size >= 0
    BY <1>0, <1>1, <1>3, <1>4, <2>3 DEF Tells, Count
  <2>4. size = -1 \/ size = -2 \/ size >= 0
    OBVIOUS
  <2> QED
    BY <2>1, <2>2, <2>3, <2>4
<1> QED
  BY <1>2, <1>3

\* The header tells how long the packet is.
LEMMA HeadTells ==
  ASSUME NEW q \in Packets, WithinSize(q), NEW l \in Seq(Byte), Len(l) >= HeadLen(q.id),
         \A i \in 1..HeadLen(q.id) : l[i] = FrameHead(q.id, Len(q.payload))[i]
  PROVE  /\ FrameSize[q.id] = -1 => Len(q.payload) = l[2]
         /\ FrameSize[q.id] = -2 => Len(q.payload) = read_unsigned_short(Tail(l))
         /\ FrameSize[q.id] >= 0 => Len(q.payload) = FrameSize[q.id]
<1>1. PICK n \in Nat : n = Len(q.payload)
  BY PacketType
<1>2. q.id \in Byte
  BY PacketType
<1>3. ASSUME FrameSize[q.id] = -1 PROVE n = l[2]
  <2>1. HeadLen(q.id) = 2 /\ FrameHead(q.id, n) = <<q.id, n % 256>> /\ n < 256
    BY <1>1, <1>3 DEF HeadLen, FrameHead, WithinSize
  <2>2. n % 256 = n
    BY <2>1
  <2>3. l[2] = <<q.id, n % 256>>[2]
    <3>1. 2 \in 1..HeadLen(q.id)
      BY <2>1
    <3>2. l[2] = FrameHead(q.id, n)[2]
      BY <1>1, <3>1
    <3> QED
      BY <2>1, <3>2
  <2> QED
    BY <2>2, <2>3
<1>4. ASSUME FrameSize[q.id] = -2 PROVE n = read_unsigned_short(Tail(l))
  <2>1. HeadLen(q.id) = 3 /\ FrameHead(q.id, n) = <<q.id>> \o write_short(n) /\ n < 65536
    BY <1>1, <1>4 DEF HeadLen, FrameHead, WithinSize
  <2>2. PICK a \in Byte, b \in Byte : a = (n \div 256) % 256 /\ b = n % 256
    BY ShortBytes
  <2>3. write_short(n) = <<a, b>>
    BY <2>2 DEF write_short
  <2>4. FrameHead(q.id, n) = <<q.id, a, b>>
    BY <1>2, <2>1, <2>3, Tuples
  <2>5. l[2] = a /\ l[3] = b /\ Len(l) >= 3
    <3>1. <<q.id, a, b>>[2] = a /\ <<q.id, a, b>>[3] = b
      BY <1>2, Tuples
    <3>2. 2 \in 1..HeadLen(q.id) /\ 3 \in 1..HeadLen(q.id) /\ Len(l) >= 3
      BY <2>1
    <3>3. l[2] = FrameHead(q.id, n)[2] /\ l[3] = FrameHead(q.id, n)[3]
      BY <1>1, <3>2
    <3> QED
      BY <2>4, <3>1, <3>2, <3>3
  <2>6. l # <<>> /\ Tail(l)[1] = l[2] /\ Tail(l)[2] = l[3]
    BY <2>5
  <2>7. read_unsigned_short(Tail(l)) = 256 * a + b
    BY <2>5, <2>6 DEF read_unsigned_short
  <2>8. read_unsigned_short(write_short(n)) = 256 * a + b
    <3>1. <<a, b>>[1] = a /\ <<a, b>>[2] = b
      BY Tuples
    <3> QED
      BY <2>3, <3>1 DEF read_unsigned_short
  <2>9. n \in Short
    BY <2>1 DEF Short
  <2> QED
    BY <2>7, <2>8, <2>9, SizeRoundTrip
<1> QED
  BY <1>1, <1>3, <1>4 DEF WithinSize

\* What the client is to decode of what is written.
Decoded     == [id : Byte, payload : Seq(Byte)]
PacketOf(x) == [id |-> x.packet.id, payload |-> x.packet.payload]

LEMMA SoundWritten == \A ps \in Seq(Sound) : ps \in Seq(Written)
  BY DEF Sound

LEMMA PacketsType ==
  ASSUME NEW ps \in Seq(Written)
  PROVE  /\ PacketsOf(ps) \in Seq(Decoded) /\ Len(PacketsOf(ps)) = Len(ps)
         /\ \A i \in 1..Len(ps) : PacketsOf(ps)[i] = PacketOf(ps[i])
<1>1. PacketsOf(ps) = [i \in 1..Len(ps) |-> PacketOf(ps[i])]
  BY DEF PacketsOf, PacketOf
<1>2. ASSUME NEW i \in 1..Len(ps) PROVE PacketOf(ps[i]) \in Decoded
  <2>1. ps[i] \in Written
    OBVIOUS
  <2>2. ps[i].packet.id \in Byte /\ ps[i].packet.payload \in Seq(Byte)
    BY <2>1, WrittenType, PacketType
  <2> QED
    BY <2>2 DEF PacketOf, Decoded
<1> QED
  BY <1>1, <1>2

LEMMA PacketsConcat ==
  ASSUME NEW ps \in Seq(Written), NEW qs \in Seq(Written)
  PROVE  PacketsOf(ps \o qs) = PacketsOf(ps) \o PacketsOf(qs)
<1>1. /\ ps \o qs \in Seq(Written) /\ Len(ps \o qs) = Len(ps) + Len(qs)
      /\ Len(ps) \in Nat /\ Len(qs) \in Nat
      /\ \A i \in 1..Len(ps) + Len(qs) :
           (ps \o qs)[i] = IF i <= Len(ps) THEN ps[i] ELSE qs[i - Len(ps)]
  BY ConcatProperties
<1>2. PICK a \in Seq(Decoded), b \in Seq(Decoded), c \in Seq(Decoded) :
        a = PacketsOf(ps) /\ b = PacketsOf(qs) /\ c = PacketsOf(ps \o qs)
  BY <1>1, PacketsType
<1>3. /\ Len(a) = Len(ps) /\ Len(b) = Len(qs) /\ Len(c) = Len(ps) + Len(qs)
      /\ \A i \in 1..Len(ps) : a[i] = PacketOf(ps[i])
      /\ \A i \in 1..Len(qs) : b[i] = PacketOf(qs[i])
      /\ \A i \in 1..Len(ps) + Len(qs) : c[i] = PacketOf((ps \o qs)[i])
  BY <1>1, <1>2, PacketsType
<1>4. /\ a \o b \in Seq(Decoded) /\ Len(a \o b) = Len(ps) + Len(qs)
      /\ \A i \in 1..Len(ps) + Len(qs) :
           (a \o b)[i] = IF i <= Len(ps) THEN a[i] ELSE b[i - Len(ps)]
  <2>1. /\ a \o b \in Seq(Decoded) /\ Len(a \o b) = Len(a) + Len(b)
        /\ \A i \in 1..Len(a) + Len(b) : (a \o b)[i] = IF i <= Len(a) THEN a[i] ELSE b[i - Len(a)]
    BY ConcatProperties
  <2>2. Len(a) = Len(ps) /\ Len(b) = Len(qs)
    BY <1>3
  <2> QED
    BY <2>1, <2>2
<1>5. ASSUME NEW i \in 1..Len(ps) + Len(qs) PROVE c[i] = (a \o b)[i]
  <2>1. CASE i <= Len(ps)
    <3>1. i \in 1..Len(ps)
      BY <1>1, <2>1
    <3> QED
      BY <1>1, <1>3, <1>4, <2>1, <3>1
  <2>2. CASE ~(i <= Len(ps))
    <3>1. PICK k \in 1..Len(qs) : k = i - Len(ps)
      BY <1>1, <2>2
    <3> QED
      BY <1>1, <1>3, <1>4, <2>2, <3>1
  <2> QED
    BY <2>1, <2>2
<1> QED
  BY <1>2, <1>3, <1>4, <1>5, SeqEqual

LEMMA PacketsAppend ==
  ASSUME NEW ps \in Seq(Written), NEW x \in Written
  PROVE  PacketsOf(Append(ps, x)) = Append(PacketsOf(ps), PacketOf(x))
<1>1. <<x>> \in Seq(Written) /\ Len(<<x>>) = 1 /\ <<x>>[1] = x /\ Append(ps, x) = ps \o <<x>>
  BY AppendIsConcat
<1>2. PacketsOf(<<x>>) = <<PacketOf(x)>>
  <2>1. PICK y \in Seq(Written) : y = <<x>> /\ Len(y) = 1 /\ y[1] = x
    BY <1>1
  <2>2. PICK a \in Seq(Decoded) : a = PacketsOf(y)
    BY PacketsType
  <2>3. Len(a) = 1
    BY <2>1, <2>2, PacketsType
  <2>4. a[1] = PacketOf(x)
    <3>1. \A i \in 1..Len(y) : a[i] = PacketOf(y[i])
      BY <2>2, PacketsType
    <3>2. 1 \in 1..Len(y)
      BY <2>1
    <3>3. a[1] = PacketOf(y[1])
      BY <3>1, <3>2
    <3> QED
      BY <2>1, <3>3
  <2> QED
    BY <2>1, <2>2, <2>3, <2>4
<1>3. PICK a \in Seq(Decoded) : a = PacketsOf(ps)
  BY PacketsType
<1>4. PICK e \in Decoded : e = PacketOf(x)
  <2>1. x.packet.id \in Byte /\ x.packet.payload \in Seq(Byte)
    BY WrittenType, PacketType
  <2> QED
    BY <2>1 DEF PacketOf, Decoded
<1>5. Append(a, e) = a \o <<e>>
  BY <1>4, AppendIsConcat
<1> QED
  BY <1>1, <1>2, <1>3, <1>4, <1>5, PacketsConcat

\* Some of what is written is decoded; the bytes left, with r after them, are the others' frames.
Parses(d, bs, r) ==
  \E ps, qs \in Seq(Sound), l \in Seq(Byte) :
    bs = ps \o qs /\ d = [packets |-> PacketsOf(ps), left |-> l] /\ l \o r = FramesOf(qs)

\* The first of what is left.
LEMMA FirstLeft ==
  ASSUME NEW qs \in Seq(Sound), qs # <<>>
  PROVE  \E q \in Sound, t \in Seq(Sound) :
           qs = <<q>> \o t /\ FramesOf(qs) = q.frame \o FramesOf(t)
<1>1. PICK q \in Sound, t \in Seq(Sound) : q = Head(qs) /\ t = Tail(qs)
  BY HeadTailProperties
<1>2. qs = <<q>> \o t /\ <<q>> \in Seq(Sound)
  <2>1. <<q>> \in Seq(Sound) /\ Len(<<q>>) = 1 /\ <<q>>[1] = q
    OBVIOUS
  <2>2. /\ <<q>> \o t \in Seq(Sound) /\ Len(<<q>> \o t) = 1 + Len(t)
        /\ \A i \in 1..1 + Len(t) : (<<q>> \o t)[i] = IF i <= 1 THEN q ELSE t[i - 1]
    BY <2>1, ConcatProperties
  <2>3. /\ Len(t) \in Nat /\ Len(qs) = Len(t) + 1 /\ q = qs[1]
        /\ \A i \in 1..Len(t) : t[i] = qs[i + 1]
    BY <1>1, HeadTailProperties
  <2>4. ASSUME NEW i \in 1..Len(qs) PROVE qs[i] = (<<q>> \o t)[i]
    <3>1. CASE i = 1
      BY <2>2, <2>3, <3>1
    <3>2. CASE i # 1
      <4>1. i - 1 \in 1..Len(t) /\ (i - 1) + 1 = i /\ ~(i <= 1) /\ i \in 1..1 + Len(t)
        BY <2>3, <3>2
      <4> QED
        BY <2>2, <2>3, <4>1
    <3> QED
      BY <3>1, <3>2
  <2>5. Len(qs) = Len(<<q>> \o t)
    BY <2>2, <2>3
  <2> QED
    BY <2>1, <2>2, <2>4, <2>5, SeqEqual
<1>3. q \in Written /\ <<q>> \in Seq(Written) /\ t \in Seq(Written)
  BY SoundWritten DEF Sound
<1> QED
  BY <1>2, <1>3, AllConcat, AllOne

LEMMA NextOne ==
  ASSUME NEW S, NEW s \in Seq(S), NEW e \in S, NEW t \in Seq(S)
  PROVE  s \o (<<e>> \o t) = Append(s, e) \o t /\ Append(s, e) \in Seq(S)
<1>1. <<e>> \in Seq(S)
  OBVIOUS
<1>2. Append(s, e) = s \o <<e>>
  BY AppendIsConcat
<1>3. s \o (<<e>> \o t) = (s \o <<e>>) \o t
  BY <1>1, ConcatAssociative
<1> QED
  BY <1>2, <1>3, AppendProperties

LEMMA NoPackets == PacketsOf(<<>>) = <<>>
<1>1. <<>> \in Seq(Written) /\ Len(<<>>) = 0
  OBVIOUS
<1>2. PICK a \in Seq(Decoded) : a = PacketsOf(<<>>) /\ Len(a) = 0
  BY <1>1, PacketsType
<1> QED
  BY <1>2, EmptySeq

\* Each step of the client's keeps that.
LEMMA TakeNext ==
  ASSUME AllFramed, NEW ps \in Seq(Sound), NEW qs \in Seq(Sound), NEW l \in Seq(Byte),
         NEW r \in Seq(Byte), NEW d, d = [packets |-> PacketsOf(ps), left |-> l],
         l \o r = FramesOf(qs)
  PROVE  Parses(Take(d), ps \o qs, r)
<1>1. Parses(d, ps \o qs, r)
  BY DEF Parses
<1>2. d.left = l /\ d.packets = PacketsOf(ps) /\ Len(l) \in Nat /\ Len(r) \in Nat
  OBVIOUS
<1>3. CASE l = <<>>
  BY <1>1, <1>2, <1>3, TakeNone
<1>4. CASE l # <<>> /\ qs = <<>>
  <2>1. l \o r = <<>>
    BY <1>1, <1>4, AllNone
  <2>2. Len(l) + Len(r) = 0
    BY <2>1, ConcatProperties, EmptySeq
  <2> QED
    BY <1>2, <1>4, <2>2, EmptySeq
<1>5. CASE l # <<>> /\ qs # <<>>
  <2>1. PICK x \in Sound, t \in Seq(Sound) :
          qs = <<x>> \o t /\ FramesOf(qs) = x.frame \o FramesOf(t)
    BY <1>5, FirstLeft
  <2>0. PICK q \in Packets : q = x.packet /\ x \in Written /\ t \in Seq(Written)
    BY WrittenType, SoundWritten DEF Sound
  <2>2. PICK id \in Byte, s \in Seq(Byte), a \in Seq(Byte), n \in Nat :
          id = q.id /\ s = q.payload /\ a = FramesOf(t) /\ n = Len(s)
    BY <2>0, PacketType, AssemblesAll
  <2>20. PICK h \in Seq(Byte), head \in 1..3 :
           h = FrameHead(id, n) /\ head = HeadLen(id) /\ Len(h) = head /\ h[1] = id
    BY <2>2, Assembling
  <2>3. head = HeadLen(q.id) /\ Len(h) = head
    BY <2>2, <2>20
  <2>4. PICK e \in Seq(Byte) : e = h \o s
    BY ConcatProperties
  <2>5. /\ Len(e) = head + n /\ x.frame = e
        /\ \A i \in 1..head + n : e[i] = IF i <= head THEN h[i] ELSE s[i - head]
    <3>1. x.frame = h \o s
      BY <2>0, <2>2, <2>20, SoundFrame
    <3>2. /\ Len(h \o s) = Len(h) + Len(s)
          /\ \A i \in 1..Len(h) + Len(s) : (h \o s)[i] = IF i <= Len(h) THEN h[i] ELSE s[i - Len(h)]
      BY ConcatProperties
    <3>3. Len(h) = head /\ Len(s) = n
      BY <2>2, <2>3
    <3> QED
      BY <2>4, <3>1, <3>2, <3>3
  <2>6. l \o r = e \o a
    BY <1>1, <2>1, <2>2, <2>5
  <2>7. /\ \A i \in 1..Len(l) : i <= Len(e) => l[i] = e[i]
        /\ Len(e) <= Len(l) => SubSeq(l, Len(e) + 1, Len(l)) \o r = a
    BY <2>6, AtFront
  <2>8. ASSUME NEW i \in 1..head, i <= Len(l) PROVE l[i] = h[i]
    <3>1. i \in 1..Len(l) /\ i <= Len(e) /\ i \in 1..head + n /\ i <= head
      BY <1>2, <2>3, <2>5, <2>8
    <3> QED
      BY <2>5, <2>7, <3>1
  <2>9. l[1] = q.id
    <3>1. 1 \in 1..head /\ 1 <= Len(l)
      BY <1>2, <1>5, EmptySeq
    <3> QED
      BY <2>2, <2>8, <2>20, <3>1
  <2>10. WithinSize(q)
    BY DEF AllFramed
  <2>11. l[1] \in DOMAIN FrameSize /\ SizeOf(l) = FrameSize[q.id] /\ SizeOf(l) \in -2..36
    BY <2>9, <2>10, Sizes DEF WithinSize, SizeOf
  <2>12. head = HeadOf(l)
    <3>1. PICK size \in -2..36 : size = SizeOf(l)
      BY <2>11
    <3>2. head = IF size = -1 THEN 2 ELSE IF size = -2 THEN 3 ELSE 1
      BY <2>3, <2>11, <3>1 DEF HeadLen
    <3>3. HeadOf(l) = IF size < 0 THEN 1 - size ELSE 1
      BY <3>1 DEF HeadOf
    <3>4. size = -1 \/ size = -2 \/ size >= 0
      OBVIOUS
    <3> QED
      BY <3>2, <3>3, <3>4
  <2>13. CASE Len(l) < head
    <3>1. Take(d) = d
      BY <1>2, <1>5, <2>11, <2>12, <2>13, TakeSome
    <3> QED
      BY <1>1, <3>1
  <2>14. CASE Len(l) >= head
    <3>1. Tells(l, n)
      <4>1. \A i \in 1..HeadLen(q.id) : l[i] = FrameHead(q.id, Len(q.payload))[i]
        <5>1. Len(q.payload) = n /\ q.id = id
          BY <2>2
        <5>2. FrameHead(q.id, Len(q.payload)) = h /\ HeadLen(q.id) = head
          BY <2>20, <5>1
        <5>3. \A i \in 1..head : l[i] = h[i]
          BY <1>2, <2>8, <2>14
        <5> QED
          BY <5>2, <5>3
      <4>2. Len(l) >= HeadLen(q.id)
        BY <2>3, <2>14
      <4>3. n = Len(q.payload)
        BY <2>2
      <4> QED
        BY <2>10, <2>11, <4>1, <4>2, <4>3, HeadTells DEF Tells
    <3>2. Take(d) = Taken(d, l, head, n)
      <4>1. d.left = l /\ l # <<>> /\ l[1] \in DOMAIN FrameSize
        BY <1>2, <1>5, <2>11
      <4>2. Take(d) = Taken(d, l, HeadOf(l), n)
        BY <3>1, <4>1, TakeSome
      <4> QED
        BY <2>12, <4>2
    <3>3. CASE Len(l) < head + n
      <4>1. Take(d) = d
        BY <3>2, <3>3 DEF Taken
      <4> QED
        BY <1>1, <4>1
    <3>4. CASE Len(l) >= head + n
      <4>1. SubSeq(l, head + 1, head + n) = s
        <5>1. PICK p \in Seq(Byte) : p = SubSeq(l, head + 1, head + n)
          <6>1. head + 1 \in Nat \ {0} /\ head + n \in 0..Len(l)
            BY <1>2, <3>4
          <6> QED
            BY <6>1, SubSeqOf
        <5>2. Len(p) = n /\ \A i \in 1..n : p[i] = l[head + i]
          <6>1. head + 1 \in Nat \ {0} /\ head + n \in 0..Len(l)
            BY <1>2, <3>4
          <6>2. Len(p) = IF head + 1 <= head + n THEN (head + n) - (head + 1) + 1 ELSE 0
            BY <5>1, <6>1, SubSeqOf
          <6>3. \A i \in 1..Len(p) : p[i] = l[(head + 1) + i - 1]
            BY <5>1, <6>1, SubSeqOf
          <6>4. Len(p) = n
            BY <6>2
          <6>5. \A i \in 1..n : (head + 1) + i - 1 = head + i
            OBVIOUS
          <6> QED
            BY <6>3, <6>4, <6>5
        <5>3. ASSUME NEW i \in 1..n PROVE p[i] = s[i]
          <6>1. /\ head + i \in 1..Len(l) /\ head + i <= Len(e) /\ head + i \in 1..head + n
                /\ ~(head + i <= head) /\ (head + i) - head = i
            <7>1. Len(e) = head + n /\ head + n <= Len(l) /\ Len(l) \in Nat
              BY <1>2, <2>5, <3>4
            <7> QED
              BY <7>1
          <6> QED
            BY <2>5, <2>7, <5>2, <6>1
        <5>4. p = s
          BY <2>2, <5>2, <5>3, SeqEqual
        <5> QED
          BY <5>1, <5>4
      <4>2. PICK m \in Seq(Byte) : m = SubSeq(l, head + n + 1, Len(l))
        <5>1. head + n + 1 \in Nat \ {0} /\ Len(l) \in 0..Len(l)
          BY <1>2
        <5> QED
          BY <5>1, SubSeqOf
      <4>3. m \o r = a
        BY <2>5, <2>7, <3>4, <4>2
      <4>4. Take(d) = [packets |-> Append(PacketsOf(ps), PacketOf(x)), left |-> m]
        <5>1. [id |-> l[1], payload |-> SubSeq(l, head + 1, head + n)] = PacketOf(x)
          BY <2>0, <2>2, <2>9, <4>1 DEF PacketOf
        <5>2. ~(Len(l) < head \/ Len(l) < head + n)
          BY <1>2, <2>14, <3>4
        <5> QED
          BY <1>2, <3>2, <4>2, <5>1, <5>2 DEF Taken
      <4>5. ps \o qs = Append(ps, x) \o t /\ Append(ps, x) \in Seq(Sound)
        <5>1. ps \o (<<x>> \o t) = Append(ps, x) \o t /\ Append(ps, x) \in Seq(Sound)
          BY NextOne
        <5> QED
          BY <1>1, <2>1, <5>1
      <4>6. Append(PacketsOf(ps), PacketOf(x)) = PacketsOf(Append(ps, x))
        BY <2>0, SoundWritten, PacketsAppend
      <4> QED
        BY <2>2, <4>3, <4>4, <4>5, <4>6 DEF Parses
    <3> QED
      BY <1>2, <3>3, <3>4
  <2> QED
    BY <1>2, <2>13, <2>14
<1> QED
  BY <1>3, <1>4, <1>5

LEMMA TakeStep ==
  ASSUME AllFramed, NEW bs, NEW r \in Seq(Byte), NEW d, Parses(d, bs, r)
  PROVE  Parses(Take(d), bs, r)
<1>1. PICK ps \in Seq(Sound), qs \in Seq(Sound), l \in Seq(Byte) :
        bs = ps \o qs /\ d = [packets |-> PacketsOf(ps), left |-> l] /\ l \o r = FramesOf(qs)
  BY DEF Parses
<1> QED
  BY <1>1, TakeNext

\* The function by which Decode(s) is defined: what the client has after each step.
Steps(s) == CHOOSE f : f = [n \in 0..Len(s) |-> IF n = 0 THEN [packets |-> <<>>, left |-> s]
                                                ELSE Take(f[n - 1])]

LEMMA StepsAre ==
  ASSUME AllFramed, NEW s \in Seq(Byte), NEW bs \in Seq(Sound), NEW r \in Seq(Byte),
         s \o r = FramesOf(bs)
  PROVE  \A n \in 0..Len(s) :
           Steps(s)[n] = IF n = 0 THEN [packets |-> <<>>, left |-> s] ELSE Take(Steps(s)[n - 1])
<1> DEFINE D     == {d \in [packets : Seq(Decoded), left : Seq(Byte)] : Parses(d, bs, r)}
           start == [packets |-> <<>>, left |-> s]
           next  == [i \in 1..Len(s) |-> [d \in D |-> Take(d)]]
           Is(f) == f = [n \in 0..Len(s) |-> IF n = 0 THEN start ELSE Take(f[n - 1])]
<1>0. Len(s) \in Nat
  OBVIOUS
<1>1. ASSUME NEW d \in D PROVE Take(d) \in D
  <2>1. Parses(Take(d), bs, r)
    BY TakeStep
  <2>2. PICK ps \in Seq(Sound), l \in Seq(Byte) : Take(d) = [packets |-> PacketsOf(ps), left |-> l]
    BY <2>1 DEF Parses
  <2>3. PacketsOf(ps) \in Seq(Decoded)
    BY SoundWritten, PacketsType
  <2> QED
    BY <2>1, <2>2, <2>3
<1>2. start \in D
  <2>1. <<>> \in Seq(Sound) /\ bs = <<>> \o bs /\ PacketsOf(<<>>) = <<>> /\ <<>> \in Seq(Decoded)
    BY ConcatEmptySeq, NoPackets
  <2>2. Parses(start, bs, r)
    BY <2>1 DEF Parses
  <2> QED
    BY <2>1, <2>2
<1> HIDE DEF D
<1>3. next \in [1..Len(s) -> [D -> D]]
  BY <1>1
<1>4. \A i \in 1..Len(s) : \A d \in D : next[i][d] = Take(d)
  OBVIOUS
<1> HIDE DEF next, start
<1>5. PICK f : f \in Runs(D, start, Len(s), next)
  BY <1>0, <1>2, <1>3, Recursion
<1>6. /\ f \in [0..Len(s) -> D] /\ f[0] = start
      /\ \A i \in 1..Len(s) : f[i] = next[i][f[i - 1]]
  BY <1>5 DEF Runs
<1>7. ASSUME NEW n \in 0..Len(s) PROVE f[n] = IF n = 0 THEN start ELSE Take(f[n - 1])
  <2>1. CASE n = 0
    BY <1>6, <2>1
  <2>2. CASE n # 0
    <3>1. n \in 1..Len(s) /\ n - 1 \in 0..Len(s)
      BY <1>0, <2>2
    <3> QED
      BY <1>4, <1>6, <2>2, <3>1
  <2> QED
    BY <2>1, <2>2
<1>8. Is(f)
  BY <1>6, <1>7
<1>9. Steps(s) = CHOOSE g : Is(g)
  BY DEF Steps, start
<1>10. Is(Steps(s))
  <2> HIDE DEF Is
  <2> QED
    BY <1>8, <1>9
<1>11. \A n \in 0..Len(s) : Steps(s)[n] = IF n = 0 THEN start ELSE Take(Steps(s)[n - 1])
  <2> DEFINE g == Steps(s)
  <2>1. g = [n \in 0..Len(s) |-> IF n = 0 THEN start ELSE Take(g[n - 1])]
    BY <1>10
  <2> HIDE DEF g
  <2>2. \A n \in 0..Len(s) : g[n] = IF n = 0 THEN start ELSE Take(g[n - 1])
    BY <2>1, Zenon
  <2> QED
    BY <2>2 DEF g
<1> QED
  BY <1>11 DEF start

\* What is decoded of the frames of what is written is a prefix of it.
LEMMA DecodesPrefix ==
  ASSUME AllFramed, NEW bs \in Seq(Sound), NEW s \in Seq(Byte), IsPrefix(s, FramesOf(bs))
  PROVE  IsPrefix(Decode(s), PacketsOf(bs))
<1>1. PICK r \in Seq(Byte) : s \o r = FramesOf(bs)
  BY SoundWritten, AssemblesAll, PrefixHasRest
<1>2. \A n \in 0..Len(s) :
        Steps(s)[n] = IF n = 0 THEN [packets |-> <<>>, left |-> s] ELSE Take(Steps(s)[n - 1])
  BY <1>1, StepsAre
<1> DEFINE Good == {n \in Nat : n <= Len(s) => Parses(Steps(s)[n], bs, r)}
<1>3. Len(s) \in Nat
  OBVIOUS
<1>4. 0 \in Good
  <2>1. Steps(s)[0] = [packets |-> <<>>, left |-> s]
    BY <1>2, <1>3
  <2>2. <<>> \in Seq(Sound) /\ bs = <<>> \o bs /\ PacketsOf(<<>>) = <<>>
    BY ConcatEmptySeq, NoPackets
  <2> QED
    BY <1>1, <2>1, <2>2 DEF Parses
<1>5. ASSUME NEW n \in Nat, n \in Good PROVE n + 1 \in Good
  <2> SUFFICES ASSUME n + 1 <= Len(s) PROVE Parses(Steps(s)[n + 1], bs, r)
    OBVIOUS
  <2>1. n + 1 \in 0..Len(s) /\ n + 1 # 0 /\ (n + 1) - 1 = n /\ n <= Len(s)
    BY <1>3
  <2>2. Parses(Steps(s)[n], bs, r)
    BY <1>5, <2>1
  <2>3. Steps(s)[n + 1] = Take(Steps(s)[n])
    BY <1>2, <2>1
  <2> QED
    BY <2>2, <2>3, TakeStep
<1>6. Len(s) \in Good
  <2> HIDE DEF Good
  <2> QED
    BY <1>3, <1>4, <1>5, Induction
<1>7. Parses(Steps(s)[Len(s)], bs, r)
  BY <1>3, <1>6
<1>8. PICK ps \in Seq(Sound), qs \in Seq(Sound) :
        bs = ps \o qs /\ Steps(s)[Len(s)].packets = PacketsOf(ps)
  <2>1. PICK d : d = Steps(s)[Len(s)] /\ Parses(d, bs, r)
    BY <1>7
  <2>2. PICK ps \in Seq(Sound), qs \in Seq(Sound), l \in Seq(Byte) :
          bs = ps \o qs /\ d = [packets |-> PacketsOf(ps), left |-> l]
    BY <2>1 DEF Parses
  <2>3. d.packets = PacketsOf(ps)
    BY <2>2
  <2> QED
    BY <2>1, <2>2, <2>3
<1>9. Decode(s) = Steps(s)[Len(s)].packets
  BY DEF Decode, Steps
<1>10. PICK a \in Seq(Decoded), b \in Seq(Decoded) :
         a = PacketsOf(ps) /\ b = PacketsOf(qs) /\ PacketsOf(bs) = a \o b
  BY <1>8, SoundWritten, PacketsType, PacketsConcat
<1> QED
  BY <1>8, <1>9, <1>10, PrefixOfConcat

\* A client that is sent nothing but its own decodes a prefix of what was written to it, packet
\* by packet, whenever it looks: the sizes that end_frame_var_size fills in agree with what
\* follows them, if the payload is short enough for the size, as long as every packet fits the
\* buffer that it is assembled on, or this grows in time (basic_stream.cpp:229-306).
THEOREM Decoding == ASSUME AllFramed PROVE Spec => []ClientDecodes
<1>1. ASSUME TypeInv, OrderInv PROVE ClientDecodes
  <2> SUFFICES ASSUME ~Damaged, NEW u \in Users,
                      \A i \in 1..Len(stream[u]) : stream[u][i].to = u
               PROVE  IsPrefix(Decode(BytesOf(stream[u])), PacketsOf(begun[u]))
    BY DEF ClientDecodes
  <2>1. /\ begun[u] \in Seq(Written) /\ stream[u] \in Seq(Bytes) /\ Own(u) \in Seq(Byte)
    BY <1>1, OwnType
  <2>2. IsPrefix(Own(u), FramesOf(begun[u]))
    BY <1>1 DEF OrderInv, OrderOK
  <2>3. BytesOf(stream[u]) = Own(u)
    BY <2>1, ForAll DEF Own
  <2>4. begun[u] \in Seq(Sound)
    <3>1. ASSUME NEW n \in 1..Len(begun[u]) PROVE begun[u][n] \in Sound
      <4>1. begun[u][n] \in Written /\ n \in DOMAIN begun[u]
        BY <2>1
      <4>2. begun[u][n] \notin Overrunning
        BY <4>1 DEF Damaged
      <4> QED
        BY <4>1, <4>2 DEF Overrunning, Sound
    <3> QED
      BY <2>1, <3>1
  <2> QED
    BY <2>1, <2>2, <2>3, <2>4, DecodesPrefix
<1>2. TypeInv /\ OrderInv => ClientDecodes
  BY <1>1
<1> QED
  BY <1>2, OrderAlways, PTL
=============================================================================
