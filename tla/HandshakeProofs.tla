--------------------------- MODULE HandshakeProofs ----------------------------
(***************************************************************************)
(* Proofs about Handshake, for every length of the parts, of the key, of   *)
(* the digest and of the offsets, and for every set of byte values: the    *)
(* fields that were put together to a message are cut out of it again, a   *)
(* digest is accepted where it was put and nowhere else, and so the        *)
(* server understands every genuine C1 and answers with an S1 that can be  *)
(* read.                                                                   *)
(***************************************************************************)
EXTENDS Handshake, SequenceTheorems, WellFoundedInduction, TLAPS

(* Induction over the natural numbers: a set that holds 0 and with a number  *)
(* the next one holds them all.                                              *)
LEMMA SetInduction ==
    ASSUME NEW T, 0 \in T, \A n \in Nat : n \in T => n + 1 \in T
    PROVE  Nat \subseteq T
<1> SUFFICES ASSUME NEW x \in Nat, x \notin T PROVE FALSE
    OBVIOUS
<1> DEFINE R == OpToRel(<, Nat)
           U == Nat \ T
<1>1. IsWellFoundedOn(R, Nat)
    BY NatLessThanWellFounded
<1>2. \A a, b \in Nat : a < b => <<a, b>> \in R
    BY DEF OpToRel
<1> HIDE DEF R
<1>3. PICK m \in U : \A y \in U : ~(<<y, m>> \in R)
    BY <1>1, WFMin
<1>4. m # 0 /\ m - 1 \in Nat /\ m - 1 < m
    BY <1>3
<1>5. m - 1 \in T
    BY <1>2, <1>3, <1>4
<1>6. (m - 1) + 1 = m
    BY <1>3
<1> QED
    BY <1>3, <1>4, <1>5, <1>6

-----------------------------------------------------------------------------
(* Cells, and what they count as.                                            *)
PlainCell == {<<b>> : b \in Nat}

OpaqueCell == {"player30", "player36", "dh"} \X Seq(PlainCell) \X Nat

Cell == PlainCell \cup OpaqueCell

(* The partial sums of SumOf: there are such, for any number of bytes.       *)
AreSums(sum, s, n) ==
    sum = [i \in 0..n |-> IF i = 0 THEN 0 ELSE sum[i - 1] + Value(s[i])]

LEMMA SumsExist ==
    ASSUME NEW s, NEW n \in Nat
    PROVE  \E sum : AreSums(sum, s, n)
<1> DEFINE T == {k \in Nat : \E sum : AreSums(sum, s, k)}
<1>1. 0 \in T
    <2> DEFINE r == [i \in 0..0 |-> 0]
    <2>1. r = [i \in 0..0 |-> IF i = 0 THEN 0 ELSE r[i - 1] + Value(s[i])]
        OBVIOUS
    <2>2. AreSums(r, s, 0)
        BY <2>1, Zenon DEF AreSums
    <2> QED
        BY <2>2
<1>2. ASSUME NEW k \in Nat, k \in T PROVE k + 1 \in T
    <2>1. PICK r : r = [i \in 0..k |-> IF i = 0 THEN 0 ELSE r[i - 1] + Value(s[i])]
        BY <1>2, Zenon DEF AreSums
    <2> DEFINE q == [i \in 0..k + 1 |-> IF i = k + 1 THEN r[k] + Value(s[k + 1]) ELSE r[i]]
    <2>2. ASSUME NEW i \in 0..k + 1
          PROVE  q[i] = IF i = 0 THEN 0 ELSE q[i - 1] + Value(s[i])
        <3>1. CASE i = k + 1
            BY <3>1
        <3>2. CASE i # k + 1 /\ i # 0
            <4>1. i \in 0..k /\ i - 1 \in 0..k
                BY <3>2
            <4>2. r[i] = r[i - 1] + Value(s[i])
                BY <2>1, <3>2, <4>1
            <4> QED
                BY <3>2, <4>1, <4>2
        <3>3. CASE i = 0
            BY <2>1, <3>3
        <3> QED
            BY <3>1, <3>2, <3>3
    <2>3. q = [i \in 0..k + 1 |-> q[i]]
        OBVIOUS
    <2> HIDE DEF q
    <2>4. q = [i \in 0..k + 1 |-> IF i = 0 THEN 0 ELSE q[i - 1] + Value(s[i])]
        BY <2>2, <2>3
    <2>5. AreSums(q, s, k + 1)
        BY <2>4, Zenon DEF AreSums
    <2> QED
        BY <2>5
<1>3. Nat \subseteq T
    BY <1>1, <1>2, SetInduction
<1> QED
    BY <1>3

(* The bytes of an offset add up to a number.                                *)
LEMMA SumIsNat ==
    ASSUME NEW s \in Seq(PlainCell)
    PROVE  SumOf(s) \in Nat
<1>1. \E r : r = [i \in 0..Len(s) |-> IF i = 0 THEN 0 ELSE r[i - 1] + Value(s[i])]
    <2> DEFINE n == Len(s)
    <2>1. n \in Nat
        OBVIOUS
    <2> HIDE DEF n
    <2>2. \E r : AreSums(r, s, n)
        BY <2>1, SumsExist
    <2> QED
        BY <2>2, Zenon DEF n, AreSums
<1> DEFINE sum[i \in 0..Len(s)] == IF i = 0 THEN 0 ELSE sum[i - 1] + Value(s[i])
           T == {i \in Nat : i <= Len(s) => sum[i] \in Nat}
<1>2. sum = [i \in 0..Len(s) |-> IF i = 0 THEN 0 ELSE sum[i - 1] + Value(s[i])]
    BY <1>1, Zenon
<1>3. SumOf(s) = sum[Len(s)]
    BY Zenon DEF SumOf
<1> HIDE DEF sum
<1>4. Len(s) \in Nat
    OBVIOUS
<1>5. 0 \in T
    BY <1>2, <1>4
<1>6. ASSUME NEW n \in Nat, n \in T PROVE n + 1 \in T
    <2> SUFFICES ASSUME n + 1 <= Len(s) PROVE sum[n + 1] \in Nat
        OBVIOUS
    <2>1. sum[n] \in Nat /\ n + 1 \in 1..Len(s)
        BY <1>4, <1>6
    <2>2. s[n + 1] \in PlainCell
        BY <2>1, ElementOfSeq
    <2>3. Value(s[n + 1]) \in Nat
        BY <2>2 DEF PlainCell, Value
    <2>4. sum[n + 1] = sum[n] + Value(s[n + 1])
        BY <1>2, <1>4, <2>1
    <2> QED
        BY <2>1, <2>3, <2>4
<1>7. Nat \subseteq T
    BY <1>5, <1>6, SetInduction
<1> QED
    BY <1>3, <1>4, <1>7

(* Wherever the bytes of an offset point, the key and the digest fit behind  *)
(* it.                                                                       *)
LEMMA OffsetsFit ==
    ASSUME NEW off \in Seq(PlainCell)
    PROVE  /\ calc_valid_key_offset(off) \in 0..(PartLen - KeyLen - OffsetLen - 1)
           /\ calc_valid_digest_offset(off) \in 0..(PartLen - DigestLen - OffsetLen - 1)
<1> DEFINE sum == SumOf(off)
<1>1. sum \in Nat
    BY SumIsNat
<1> HIDE DEF sum
<1>2. \A m \in Nat \ {0} : sum % m \in 0..(m - 1)
    BY <1>1
<1>3. /\ PartLen - KeyLen - OffsetLen \in Nat \ {0}
      /\ PartLen - DigestLen - OffsetLen \in Nat \ {0}
    BY LengthAssumption
<1> QED
    BY <1>2, <1>3 DEF calc_valid_key_offset, calc_valid_digest_offset, sum

(* Bytes made up and bytes computed are cells.                               *)
LEMMA RepeatIsPlain ==
    ASSUME NEW b \in Nat, NEW n \in Nat
    PROVE  Repeat(b, n) \in Seq(PlainCell) /\ Len(Repeat(b, n)) = n
BY DEF Repeat, PlainCell

LEMMA OpaqueIsCells ==
    ASSUME NEW name \in {"player30", "player36", "dh"}, NEW of \in Seq(PlainCell),
           NEW n \in Nat
    PROVE  Opaque(name, of, n) \in Seq(Cell) /\ Len(Opaque(name, of, n)) = n
<1>1. \A i \in 1..n : <<name, of, i>> \in Cell
    BY DEF Cell, OpaqueCell
<1> QED
    BY <1>1 DEF Opaque

LEMMA PlainIsCells ==
    ASSUME NEW s \in Seq(PlainCell)
    PROVE  s \in Seq(Cell)
BY SeqMonotonic DEF Cell

-----------------------------------------------------------------------------
(* Cutting.                                                                  *)

(* What stands in s behind `from` bytes is cut out of it.                    *)
LEMMA CutIs ==
    ASSUME NEW S, NEW s \in Seq(S), NEW t \in Seq(S), NEW from \in Nat,
           from + Len(t) <= Len(s), \A i \in 1..Len(t) : s[from + i] = t[i]
    PROVE  Cut(s, from, Len(t)) = t
<1> DEFINE c == Cut(s, from, Len(t))
<1>1. Len(t) \in Nat /\ Len(s) \in Nat
    OBVIOUS
<1>2. \A i \in from + 1..from + Len(t) : i \in 1..Len(s)
    BY <1>1
<1>3. \A i \in from + 1..from + Len(t) : s[i] \in S
    BY <1>2, ElementOfSeq
<1>4. /\ c \in Seq(S)
      /\ Len(c) = (IF from + 1 <= from + Len(t) THEN from + Len(t) - (from + 1) + 1 ELSE 0)
      /\ \A i \in 1..(from + Len(t) - (from + 1) + 1) : c[i] = s[from + 1 + i - 1]
    BY <1>1, <1>3, SubSeqProperties DEF Cut
<1> HIDE DEF c
<1>5. Len(c) = Len(t) /\ \A i \in 1..Len(t) : c[i] = s[from + i]
    BY <1>1, <1>4
<1>6. c = t
    BY <1>4, <1>5, SeqEqual
<1> QED
    BY <1>6 DEF c

(* What is cut out of a sequence of S is one.                                *)
LEMMA CutIsSeq ==
    ASSUME NEW S, NEW s \in Seq(S), NEW from \in Nat, NEW n \in Nat, from + n <= Len(s)
    PROVE  Cut(s, from, n) \in Seq(S) /\ Len(Cut(s, from, n)) = n
<1>1. Len(s) \in Nat
    OBVIOUS
<1>2. \A i \in from + 1..from + n : i \in 1..Len(s)
    BY <1>1
<1>3. \A i \in from + 1..from + n : s[i] \in S
    BY <1>2, ElementOfSeq
<1>4. /\ Cut(s, from, n) \in Seq(S)
      /\ Len(Cut(s, from, n)) = (IF from + 1 <= from + n THEN from + n - (from + 1) + 1 ELSE 0)
    BY <1>3, SubSeqProperties DEF Cut
<1> QED
    BY <1>4

LEMMA FirstOfCut ==
    ASSUME NEW S, NEW s \in Seq(S), Len(s) >= 2
    PROVE  Cut(s, 0, 2)[1] = s[1]
<1>1. s[1] \in S /\ s[2] \in S
    BY ElementOfSeq
<1>2. \A i \in 1..2 : s[i] \in S
    BY <1>1
<1>3. \A i \in 1..2 - 1 + 1 : SubSeq(s, 1, 2)[i] = s[1 + i - 1]
    BY <1>2, SubSeqProperties
<1>4. SubSeq(s, 1, 2)[1] = s[1]
    BY <1>3
<1> QED
    BY <1>4 DEF Cut

(* Concatenation under a name of its own, so that the lemmas about it are     *)
(* what the provers reason from.                                             *)
Join(a, b) == a \o b

LEMMA JoinIsSeq ==
    ASSUME NEW S, NEW a \in Seq(S), NEW b \in Seq(S)
    PROVE  Join(a, b) \in Seq(S) /\ Len(Join(a, b)) = Len(a) + Len(b)
BY ConcatProperties DEF Join

LEMMA JoinIsAssociative ==
    ASSUME NEW a \in Seq(Cell), NEW b \in Seq(Cell), NEW c \in Seq(Cell)
    PROVE  Join(Join(a, b), c) = Join(a, Join(b, c))
BY ConcatAssociative DEF Join

LEMMA JoinEmpty ==
    ASSUME NEW a \in Seq(Cell)
    PROVE  Join(a, <<>>) = a /\ Join(<<>>, a) = a
BY ConcatEmptySeq DEF Join

(* The middle one of three sequences is cut out of the three.                *)
LEMMA CutMiddle ==
    ASSUME NEW a \in Seq(Cell), NEW b \in Seq(Cell), NEW c \in Seq(Cell)
    PROVE  Cut(Join(Join(a, b), c), Len(a), Len(b)) = b
<1> DEFINE ab == a \o b
           s  == ab \o c
<1>1. Len(a) \in Nat /\ Len(b) \in Nat /\ Len(c) \in Nat
    OBVIOUS
<1>2. /\ ab \in Seq(Cell) /\ Len(ab) = Len(a) + Len(b)
      /\ \A i \in 1..Len(a) + Len(b) : ab[i] = IF i <= Len(a) THEN a[i] ELSE b[i - Len(a)]
    BY ConcatProperties
<1>3. ab \in Seq(Cell)
    BY <1>2
<1> HIDE DEF ab
<1>4. /\ s \in Seq(Cell) /\ Len(s) = Len(ab) + Len(c)
      /\ \A i \in 1..Len(ab) + Len(c) : s[i] = IF i <= Len(ab) THEN ab[i] ELSE c[i - Len(ab)]
    BY <1>3, ConcatProperties
<1> HIDE DEF s
<1>5. ASSUME NEW i \in 1..Len(b) PROVE s[Len(a) + i] = b[i]
    <2>1. Len(a) + i \in 1..Len(a) + Len(b) /\ ~(Len(a) + i <= Len(a)) /\ Len(a) + i - Len(a) = i
        BY <1>1
    <2>2. ab[Len(a) + i] = b[i]
        BY <1>2, <2>1
    <2>3. Len(a) + i \in 1..Len(ab) + Len(c) /\ Len(a) + i <= Len(ab)
        BY <1>1, <1>2, <2>1
    <2> QED
        BY <1>4, <2>2, <2>3
<1>6. Len(a) + Len(b) <= Len(s)
    BY <1>1, <1>2, <1>4
<1>7. Cut(s, Len(a), Len(b)) = b
    BY <1>1, <1>4, <1>5, <1>6, CutIs
<1> QED
    BY <1>7 DEF s, ab, Join

(* The two ways to read a message of four.                                   *)
LEMMA JoinFour ==
    ASSUME NEW a \in Seq(Cell), NEW b \in Seq(Cell), NEW c \in Seq(Cell), NEW d \in Seq(Cell)
    PROVE  /\ Join(Join(Join(a, b), c), d) = Join(Join(a, b), Join(c, d))
           /\ Join(Join(Join(a, b), c), d) = Join(a, Join(b, Join(c, d)))
           /\ Join(Join(Join(a, b), c), d) = Join(a, Join(Join(b, c), d))
<1>1. Join(a, b) \in Seq(Cell) /\ Join(c, d) \in Seq(Cell)
    BY JoinIsSeq
<1>2. Join(Join(Join(a, b), c), d) = Join(Join(a, b), Join(c, d))
    BY <1>1, JoinIsAssociative
<1>3. Join(Join(a, b), Join(c, d)) = Join(a, Join(b, Join(c, d)))
    BY <1>1, JoinIsAssociative
<1>4. Join(Join(b, c), d) = Join(b, Join(c, d))
    BY JoinIsAssociative
<1> QED
    BY <1>2, <1>3, <1>4

(* s is made of four fields.                                                 *)
FourFields(s, a, b, c, d) ==
    /\ s \in Seq(Cell)
    /\ Len(s) = Len(a) + Len(b) + Len(c) + Len(d)
    /\ Cut(s, 0, Len(a)) = a
    /\ Cut(s, Len(a), Len(b)) = b
    /\ Cut(s, Len(a) + Len(b), Len(c)) = c
    /\ Cut(s, Len(a) + Len(b) + Len(c), Len(d)) = d

LEMMA CutFour ==
    ASSUME NEW a \in Seq(Cell), NEW b \in Seq(Cell), NEW c \in Seq(Cell), NEW d \in Seq(Cell),
           NEW s, s = Join(Join(Join(a, b), c), d)
    PROVE  FourFields(s, a, b, c, d)
<1>1. /\ Join(a, b) \in Seq(Cell) /\ Len(Join(a, b)) = Len(a) + Len(b)
      /\ Join(c, d) \in Seq(Cell)
    BY JoinIsSeq
<1>2. /\ Join(Join(a, b), c) \in Seq(Cell)
      /\ Len(Join(Join(a, b), c)) = Len(Join(a, b)) + Len(c)
    BY <1>1, JoinIsSeq, Zenon
<1>3. Join(b, Join(c, d)) \in Seq(Cell)
    BY <1>1, JoinIsSeq, Zenon
<1>4. s \in Seq(Cell) /\ Len(s) = Len(Join(Join(a, b), c)) + Len(d)
    BY <1>2, JoinIsSeq, Zenon
<1>5. <<>> \in Seq(Cell) /\ Len(<<>>) = 0
    BY EmptySeq
<1>6. /\ s = Join(Join(<<>>, a), Join(b, Join(c, d)))
      /\ s = Join(Join(a, b), Join(c, d))
      /\ s = Join(s, <<>>)
    BY <1>4, JoinFour, JoinEmpty
<1>7. Cut(Join(Join(<<>>, a), Join(b, Join(c, d))), Len(<<>>), Len(a)) = a
    BY <1>5, <1>3, CutMiddle, Zenon
<1>8. Cut(s, Len(a), Len(b)) = b
    BY <1>1, <1>6, CutMiddle
<1>9. Cut(s, Len(Join(a, b)), Len(c)) = c
    BY <1>1, CutMiddle
<1>10. Cut(Join(s, <<>>), Len(Join(Join(a, b), c)), Len(d)) = d
    BY <1>2, <1>5, CutMiddle, Zenon
<1> QED
    BY <1>1, <1>2, <1>4, <1>5, <1>6, <1>7, <1>8, <1>9, <1>10 DEF FourFields

-----------------------------------------------------------------------------
(* Parsing.                                                                  *)

(* The fields that were put together to a key part are found again: the      *)
(* random bytes in front of the key are as many as the offset says.          *)
LEMMA ParseKey ==
    ASSUME NEW off \in Seq(PlainCell), NEW r0 \in Seq(Cell), NEW key \in Seq(Cell),
           NEW r1 \in Seq(Cell),
           Len(off) = OffsetLen, Len(key) = KeyLen, Len(r0) = calc_valid_key_offset(off),
           Len(r1) = PartLen - Len(r0) - KeyLen - OffsetLen
    PROVE  /\ KeyPart(r0, key, r1, off) \in Seq(Cell)
           /\ Len(KeyPart(r0, key, r1, off)) = PartLen
           /\ parse_key(KeyPart(r0, key, r1, off))
                = [off |-> off, r0 |-> r0, key |-> key, r1 |-> r1]
<1> DEFINE d == r0 \o key \o r1 \o off
           n == Len(r0)
<1>1. off \in Seq(Cell)
    BY PlainIsCells
<1>2. d = Join(Join(Join(r0, key), r1), off)
    BY DEF Join
<1> HIDE DEF d
<1>3. FourFields(d, r0, key, r1, off)
    BY <1>1, <1>2, CutFour
<1>4. /\ d \in Seq(Cell)
      /\ Len(d) = Len(r0) + Len(key) + Len(r1) + Len(off)
      /\ Cut(d, 0, Len(r0)) = r0
      /\ Cut(d, Len(r0), Len(key)) = key
      /\ Cut(d, Len(r0) + Len(key), Len(r1)) = r1
      /\ Cut(d, Len(r0) + Len(key) + Len(r1), Len(off)) = off
    BY <1>3 DEF FourFields
<1>5. /\ n \in Nat /\ PartLen \in Nat /\ KeyLen \in Nat /\ OffsetLen \in Nat
      /\ Len(r0) + Len(key) + Len(r1) = PartLen - OffsetLen
    BY LengthAssumption
<1>6. /\ Len(d) = PartLen
      /\ Cut(d, PartLen - OffsetLen, OffsetLen) = off
      /\ Cut(d, 0, n) = r0
      /\ Cut(d, n, KeyLen) = key
      /\ Cut(d, n + KeyLen, PartLen - n - KeyLen - OffsetLen) = r1
    BY <1>4, <1>5
<1>7. n = calc_valid_key_offset(off)
    OBVIOUS
<1> HIDE DEF n
<1>8. parse_key(d) = [off |-> off, r0 |-> r0, key |-> key, r1 |-> r1]
    BY <1>6, <1>7 DEF parse_key
<1> QED
    BY <1>4, <1>6, <1>8 DEF KeyPart, d

(* So are the fields of a digest part.                                       *)
LEMMA ParseDigest ==
    ASSUME NEW off \in Seq(PlainCell), NEW r0 \in Seq(Cell), NEW digest \in Seq(Cell),
           NEW r1 \in Seq(Cell),
           Len(off) = OffsetLen, Len(digest) = DigestLen,
           Len(r0) = calc_valid_digest_offset(off),
           Len(r1) = PartLen - OffsetLen - Len(r0) - DigestLen
    PROVE  /\ DigestPart(off, r0, digest, r1) \in Seq(Cell)
           /\ Len(DigestPart(off, r0, digest, r1)) = PartLen
           /\ parse_digest(DigestPart(off, r0, digest, r1))
                = [off |-> off, r0 |-> r0, digest |-> digest, r1 |-> r1]
<1> DEFINE d == off \o r0 \o digest \o r1
           n == Len(r0)
<1>1. off \in Seq(Cell)
    BY PlainIsCells
<1>2. d = Join(Join(Join(off, r0), digest), r1)
    BY DEF Join
<1> HIDE DEF d
<1>3. FourFields(d, off, r0, digest, r1)
    BY <1>1, <1>2, CutFour
<1>4. /\ d \in Seq(Cell)
      /\ Len(d) = Len(off) + Len(r0) + Len(digest) + Len(r1)
      /\ Cut(d, 0, Len(off)) = off
      /\ Cut(d, Len(off), Len(r0)) = r0
      /\ Cut(d, Len(off) + Len(r0), Len(digest)) = digest
      /\ Cut(d, Len(off) + Len(r0) + Len(digest), Len(r1)) = r1
    BY <1>3 DEF FourFields
<1>5. n \in Nat /\ PartLen \in Nat /\ DigestLen \in Nat /\ OffsetLen \in Nat
    BY LengthAssumption
<1>6. /\ Len(d) = PartLen
      /\ Cut(d, 0, OffsetLen) = off
      /\ Cut(d, OffsetLen, n) = r0
      /\ Cut(d, OffsetLen + n, DigestLen) = digest
      /\ Cut(d, OffsetLen + n + DigestLen, PartLen - OffsetLen - n - DigestLen) = r1
    BY <1>4, <1>5
<1>7. n = calc_valid_digest_offset(off)
    OBVIOUS
<1> HIDE DEF n
<1>8. parse_digest(d) = [off |-> off, r0 |-> r0, digest |-> digest, r1 |-> r1]
    BY <1>6, <1>7 DEF parse_digest
<1> QED
    BY <1>4, <1>6, <1>8 DEF DigestPart, d

(* C1 and S1 are two bytes of a head and the two parts, in either order.     *)
TwoParts(s, head, a, b) ==
    /\ s \in Seq(Cell) /\ Len(s) = C1Len
    /\ Cut(s, 0, 2) = head
    /\ Cut(s, 2, PartLen) = a
    /\ Cut(s, 2 + PartLen, PartLen) = b

LEMMA Halves ==
    ASSUME NEW head \in Seq(Cell), NEW a \in Seq(Cell), NEW b \in Seq(Cell),
           Len(head) = 2, Len(a) = PartLen, Len(b) = PartLen,
           NEW s, s = Join(Join(head, a), b)
    PROVE  TwoParts(s, head, a, b)
<1>1. <<>> \in Seq(Cell) /\ Len(<<>>) = 0
    BY EmptySeq
<1>2. s = Join(Join(Join(head, a), b), <<>>)
    BY JoinIsSeq, JoinEmpty
<1>3. FourFields(s, head, a, b, <<>>)
    BY <1>1, <1>2, CutFour
<1>4. /\ s \in Seq(Cell)
      /\ Len(s) = Len(head) + Len(a) + Len(b) + Len(<<>>)
      /\ Cut(s, 0, Len(head)) = head
      /\ Cut(s, Len(head), Len(a)) = a
      /\ Cut(s, Len(head) + Len(a), Len(b)) = b
    BY <1>3 DEF FourFields
<1>5. 2 + PartLen + PartLen + 0 = C1Len
    BY LengthAssumption DEF C1Len
<1> QED
    BY <1>1, <1>4, <1>5 DEF TwoParts

Layouts == {"key_first", "digest_first"}

Message(layout, head, kp, dp) ==
    IF layout = "key_first" THEN Join(Join(head, kp), dp) ELSE Join(Join(head, dp), kp)

HasParts(layout, d, head, kp, dp) ==
    /\ d \in Seq(Cell) /\ Len(d) = C1Len
    /\ Cut(d, 0, 2) = head
    /\ KeyPartOf(layout, d) = kp
    /\ DigestPartOf(layout, d) = dp
    /\ layout = "key_first" => DigestPartOf("digest_first", d) = kp

LEMMA PartsOf ==
    ASSUME NEW layout \in Layouts, NEW head \in Seq(Cell), NEW kp \in Seq(Cell),
           NEW dp \in Seq(Cell), Len(head) = 2, Len(kp) = PartLen, Len(dp) = PartLen,
           NEW d, d = Message(layout, head, kp, dp)
    PROVE  HasParts(layout, d, head, kp, dp)
<1>1. CASE layout = "key_first"
    <2>1. d = Join(Join(head, kp), dp)
        BY <1>1 DEF Message
    <2>2. TwoParts(d, head, kp, dp)
        BY <2>1, Halves
    <2> QED
        BY <1>1, <2>2 DEF HasParts, TwoParts, KeyPartOf, DigestPartOf
<1>2. CASE layout = "digest_first"
    <2>1. d = Join(Join(head, dp), kp)
        BY <1>2 DEF Message
    <2>2. TwoParts(d, head, dp, kp)
        BY <2>1, Halves
    <2> QED
        BY <1>2, <2>2 DEF HasParts, TwoParts, KeyPartOf, DigestPartOf
<1> QED
    BY <1>1, <1>2 DEF Layouts

-----------------------------------------------------------------------------
(* The check of the digest.                                                  *)

(* How many bytes stand in front of the digest part.                         *)
Before(layout) == IF layout = "key_first" THEN 2 + PartLen ELSE 2

(* What is checked is the digest that stands between p and q against the     *)
(* bytes of p and q.                                                         *)
LEMMA DigestIsChecked ==
    ASSUME NEW layout \in Layouts, NEW p \in Seq(Cell), NEW digest \in Seq(Cell),
           NEW q \in Seq(Cell), NEW d, d = Join(Join(p, digest), q),
           Len(d) = C1Len, Len(digest) = DigestLen,
           NEW g, g = parse_digest(DigestPartOf(layout, d)),
           g.digest = digest, Len(p) = Before(layout) + OffsetLen + Len(g.r0)
    PROVE  check_digest_valid(layout, d) <=> digest = hmac_sha256("player30", Join(p, q))
<1>1. <<>> \in Seq(Cell) /\ Len(<<>>) = 0
    BY EmptySeq
<1>2. d = Join(d, <<>>)
    BY JoinIsSeq, JoinEmpty
<1>3. FourFields(d, p, digest, q, <<>>)
    BY <1>1, <1>2, CutFour
<1>4. Len(p) \in Nat /\ Len(q) \in Nat /\ DigestLen \in Nat
    BY LengthAssumption
<1>5. /\ Cut(d, 0, Len(p)) = p
      /\ Cut(d, Len(p) + DigestLen, Len(q)) = q
      /\ C1Len = Len(p) + DigestLen + Len(q) + 0
    BY <1>1, <1>3 DEF FourFields
<1>6. Len(q) = C1Len - Len(p) - DigestLen
    <2> HIDE DEF C1Len
    <2> QED
        BY <1>4, <1>5
<1>7. Cut(d, Len(p) + DigestLen, C1Len - Len(p) - DigestLen) = q
    BY <1>5, <1>6
<1>8. check_digest_valid(layout, d)
        <=> digest = hmac_sha256("player30", Cut(d, 0, Len(p))
                        \o Cut(d, Len(p) + DigestLen, C1Len - Len(p) - DigestLen))
    BY DEF check_digest_valid, Before
<1> QED
    BY <1>5, <1>7, <1>8 DEF Join

(* Bytes that were made up are no digest.                                    *)
LEMMA PlainIsRefused ==
    ASSUME NEW layout, NEW d,
           DigestPartOf(layout, d) \in Seq(PlainCell), Len(DigestPartOf(layout, d)) = PartLen
    PROVE  ~check_digest_valid(layout, d)
<1> DEFINE part == DigestPartOf(layout, d)
           off  == Cut(part, 0, OffsetLen)
           n    == calc_valid_digest_offset(off)
           dig  == Cut(part, OffsetLen + n, DigestLen)
<1>1. part \in Seq(PlainCell) /\ Len(part) = PartLen
    OBVIOUS
<1>2. parse_digest(part).digest = dig
    BY DEF parse_digest
<1>3. \E x : check_digest_valid(layout, d)
                => parse_digest(part).digest = Opaque("player30", x, DigestLen)
    BY DEF check_digest_valid, hmac_sha256
<1> HIDE DEF part
<1>4. /\ PartLen \in Nat /\ OffsetLen \in Nat /\ DigestLen \in Nat \ {0}
      /\ 0 + OffsetLen <= PartLen
    BY LengthAssumption
<1>5. off \in Seq(PlainCell)
    BY <1>1, <1>4, CutIsSeq
<1> HIDE DEF off
<1>6. n \in 0..(PartLen - DigestLen - OffsetLen - 1)
    BY <1>5, OffsetsFit
<1> HIDE DEF n
<1>7. OffsetLen + n \in Nat /\ OffsetLen + n + DigestLen <= PartLen
    BY <1>4, <1>6
<1>8. dig \in Seq(PlainCell) /\ Len(dig) = DigestLen
    BY <1>1, <1>4, <1>7, CutIsSeq
<1> HIDE DEF dig
<1>9. 1 \in 1..Len(dig)
    BY <1>4, <1>8
<1>10. dig[1] \in PlainCell
    BY <1>8, <1>9, ElementOfSeq
<1>11. ASSUME NEW x PROVE dig # Opaque("player30", x, DigestLen)
    <2>1. Opaque("player30", x, DigestLen)[1] = <<"player30", x, 1>>
        BY <1>4 DEF Opaque
    <2>2. <<"player30", x, 1>> \notin PlainCell
        BY DEF PlainCell
    <2> QED
        BY <1>10, <2>1, <2>2
<1> QED
    BY <1>2, <1>3, <1>11

-----------------------------------------------------------------------------
(* What parse_c1 makes of a genuine C1.                                      *)

(* The parts of a C1 that has the key in it.                                 *)
KeyFields(k, key) ==
    /\ k.off \in Seq(PlainCell) /\ k.r0 \in Seq(PlainCell) /\ k.r1 \in Seq(PlainCell)
    /\ Len(k.off) = OffsetLen
    /\ Len(k.r0) = calc_valid_key_offset(k.off)
    /\ Len(k.r1) = PartLen - Len(k.r0) - KeyLen - OffsetLen
    /\ k.key = key /\ key \in PeerKeys

DigestFields(g) ==
    /\ g.off \in Seq(PlainCell) /\ g.r0 \in Seq(PlainCell) /\ g.r1 \in Seq(PlainCell)
    /\ Len(g.off) = OffsetLen
    /\ Len(g.r0) = calc_valid_digest_offset(g.off)
    /\ Len(g.r1) = PartLen - OffsetLen - Len(g.r0) - DigestLen

(* parse_c1 found a layout in which the key and the digest of the peer stand *)
(* where the offsets say.                                                    *)
Understood(c1, key, digest, p) ==
    /\ p.ok = TRUE
    /\ p.schema \in {"SCHEMA0", "SCHEMA1"}
    /\ KeyFields(p.c1.key, key)
    /\ DigestFields(p.c1.digest)
    /\ p.c1.digest.digest = digest
    /\ digest # <<>>
    /\ c1[1] \in PlainCell

LEMMA PeerKeyIsPlain ==
    ASSUME NEW key \in PeerKeys
    PROVE  key \in Seq(PlainCell) /\ Len(key) = KeyLen
<1>1. KeyLen \in Nat /\ 0 \in Nat /\ 7 \in Nat
    BY LengthAssumption
<1>2. key = Repeat(7, KeyLen) \/ key = Repeat(0, KeyLen)
    BY DEF PeerKeys
<1>3. \A b \in Nat : Repeat(b, KeyLen) \in Seq(PlainCell) /\ Len(Repeat(b, KeyLen)) = KeyLen
    BY <1>1, RepeatIsPlain
<1> QED
    BY <1>1, <1>2, <1>3

(* A digest that is the hash of the bytes around it is accepted, in either   *)
(* layout.                                                                   *)
Signed(layout, head, kp, g) ==
    IF layout = "key_first" THEN Join(Join(Join(Join(head, kp), g.off), g.r0), g.r1)
                            ELSE Join(Join(Join(Join(head, g.off), g.r0), g.r1), kp)

LEMMA SignedIsPlain ==
    ASSUME NEW layout \in Layouts, NEW head \in Seq(PlainCell), NEW kp \in Seq(PlainCell),
           NEW g, DigestFields(g)
    PROVE  Signed(layout, head, kp, g) \in Seq(PlainCell)
<1> DEFINE P == Seq(PlainCell)
           off == g.off
           r0  == g.r0
           r1  == g.r1
<1>1. off \in P /\ r0 \in P /\ r1 \in P
    BY DEF DigestFields
<1>2. \A x, y \in P : Join(x, y) \in P
    BY JoinIsSeq
<1>3. /\ Join(Join(Join(Join(head, kp), off), r0), r1) \in P
      /\ Join(Join(Join(Join(head, off), r0), r1), kp) \in P
    <2> HIDE DEF P, off, r0, r1
    <2>1. head \in P /\ kp \in P
        BY DEF P
    <2> QED
        BY <1>1, <1>2, <2>1
<1> QED
    BY <1>3 DEF Signed

Accepted(layout, d, kp, g, digest) ==
    /\ check_digest_valid(layout, d)
    /\ KeyPartOf(layout, d) = kp
    /\ parse_digest(DigestPartOf(layout, d))
         = [off |-> g.off, r0 |-> g.r0, digest |-> digest, r1 |-> g.r1]
    /\ layout = "key_first" => ~check_digest_valid("digest_first", d)
    /\ d[1] \in PlainCell
    /\ digest # <<>>

LEMMA SignedIsAccepted ==
    ASSUME NEW layout \in Layouts, NEW head \in Seq(PlainCell), NEW kp \in Seq(PlainCell),
           Len(head) = 2, Len(kp) = PartLen,
           NEW g, DigestFields(g),
           NEW digest, digest = hmac_sha256("player30", Signed(layout, head, kp, g)),
           NEW dp, dp = DigestPart(g.off, g.r0, digest, g.r1),
           NEW d, d = Message(layout, head, kp, dp)
    PROVE  Accepted(layout, d, kp, g, digest)
<1> DEFINE off == g.off
           r0  == g.r0
           r1  == g.r1
           C   == Seq(Cell)
<1>1. /\ off \in Seq(PlainCell) /\ r0 \in Seq(PlainCell) /\ r1 \in Seq(PlainCell)
      /\ Len(off) = OffsetLen
      /\ Len(r0) = calc_valid_digest_offset(off)
      /\ Len(r1) = PartLen - OffsetLen - Len(r0) - DigestLen
      /\ dp = DigestPart(off, r0, digest, r1)
    BY DEF DigestFields
<1>2. digest \in C /\ Len(digest) = DigestLen
    BY SignedIsPlain, OpaqueIsCells, LengthAssumption DEF hmac_sha256
<1>3. head \in C /\ kp \in C
    BY PlainIsCells
<1> HIDE DEF off, r0, r1
<1>4. off \in C /\ r0 \in C /\ r1 \in C
    BY <1>1, PlainIsCells
<1>5. /\ dp \in C /\ Len(dp) = PartLen
      /\ parse_digest(dp) = [off |-> off, r0 |-> r0, digest |-> digest, r1 |-> r1]
    BY <1>1, <1>2, <1>4, ParseDigest
<1>6. HasParts(layout, d, head, kp, dp)
    BY <1>3, <1>5, PartsOf
<1>7. /\ d \in C /\ Len(d) = C1Len
      /\ Cut(d, 0, 2) = head
      /\ KeyPartOf(layout, d) = kp
      /\ DigestPartOf(layout, d) = dp
      /\ layout = "key_first" => DigestPartOf("digest_first", d) = kp
    BY <1>6 DEF HasParts
<1>8. digest # <<>>
    BY <1>2, LengthAssumption
<1>9. d[1] \in PlainCell
    <2>1. C1Len >= 2
        BY LengthAssumption DEF C1Len
    <2>2. head[1] = d[1]
        BY <1>7, <2>1, FirstOfCut
    <2>3. 1 \in 1..Len(head)
        OBVIOUS
    <2>4. head[1] \in PlainCell
        BY <2>3, ElementOfSeq
    <2> QED
        BY <2>2, <2>4
<1>10. layout = "key_first" => ~check_digest_valid("digest_first", d)
    BY <1>7, PlainIsRefused
<1>11. dp = Join(Join(Join(off, r0), digest), r1)
    BY <1>1 DEF DigestPart, Join
<1> DEFINE Pars == parse_digest(DigestPartOf(layout, d))
<1>12. Pars.digest = digest /\ Pars.r0 = r0
    BY <1>5, <1>7
<1>13. CASE layout = "key_first"
    <2> DEFINE hk == Join(head, kp)
               p  == Join(Join(hk, off), r0)
    <2>1. hk \in C /\ Len(hk) = 2 + PartLen
        BY <1>3, JoinIsSeq
    <2>2. d = Join(hk, dp)
        BY <1>13 DEF Message
    <2>3. Signed(layout, head, kp, g) = Join(p, r1)
        BY <1>13 DEF Signed, off, r0, r1
    <2> HIDE DEF hk
    <2>4. Join(hk, off) \in C /\ Len(Join(hk, off)) = Len(hk) + Len(off)
        BY <1>4, <2>1, JoinIsSeq
    <2>5. p \in C /\ Len(p) = Len(Join(hk, off)) + Len(r0)
        BY <1>4, <2>4, JoinIsSeq
    <2>6. Join(Join(p, digest), r1) = d
        <3>1. Join(Join(Join(hk, off), r0), digest) = Join(hk, Join(Join(off, r0), digest))
            BY <1>2, <1>4, <2>1, JoinFour
        <3>2. Join(off, r0) \in C
            BY <1>4, JoinIsSeq
        <3>3. Join(Join(off, r0), digest) \in C
            BY <1>2, <3>2, JoinIsSeq
        <3>4. Join(Join(hk, Join(Join(off, r0), digest)), r1)
                = Join(hk, Join(Join(Join(off, r0), digest), r1))
            BY <1>4, <2>1, <3>3, JoinIsAssociative
        <3> QED
            BY <1>11, <2>2, <3>1, <3>4
    <2>7. Len(p) = Before(layout) + OffsetLen + Len(Pars.r0)
        BY <1>1, <1>12, <1>13, <2>1, <2>4, <2>5 DEF Before
    <2> HIDE DEF p, Pars
    <2>8. check_digest_valid(layout, d) <=> digest = hmac_sha256("player30", Join(p, r1))
        <3>1. Pars = parse_digest(DigestPartOf(layout, d))
            BY DEF Pars
        <3>2. /\ p \in Seq(Cell) /\ digest \in Seq(Cell) /\ r1 \in Seq(Cell)
              /\ d = Join(Join(p, digest), r1)
              /\ Len(d) = C1Len /\ Len(digest) = DigestLen
              /\ Pars.digest = digest
              /\ Len(p) = Before(layout) + OffsetLen + Len(Pars.r0)
            BY <1>2, <1>4, <1>7, <1>12, <2>5, <2>6, <2>7
        <3> HIDE DEF C
        <3> QED
            BY <3>1, <3>2, DigestIsChecked
    <2> QED
        BY <1>5, <1>7, <1>8, <1>10, <1>9, <2>3, <2>8 DEF Accepted, off, r0, r1
<1>14. CASE layout = "digest_first"
    <2> DEFINE p == Join(Join(head, off), r0)
               q == Join(r1, kp)
    <2>1. q \in C
        BY <1>3, <1>4, JoinIsSeq
    <2>2. d = Join(Join(head, dp), kp)
        BY <1>14 DEF Message
    <2>3. Join(head, off) \in C /\ Len(Join(head, off)) = 2 + Len(off)
        BY <1>3, <1>4, JoinIsSeq
    <2>4. p \in C /\ Len(p) = Len(Join(head, off)) + Len(r0)
        BY <1>4, <2>3, JoinIsSeq
    <2>5. Signed(layout, head, kp, g) = Join(p, q)
        <3>1. Signed(layout, head, kp, g) = Join(Join(p, r1), kp)
            BY <1>14 DEF Signed, off, r0, r1
        <3> HIDE DEF p
        <3> QED
            BY <1>3, <1>4, <2>4, <3>1, JoinIsAssociative
    <2>6. Join(Join(p, digest), q) = d
        <3>1. Join(Join(Join(head, off), r0), digest) = Join(head, Join(Join(off, r0), digest))
            BY <1>2, <1>3, <1>4, JoinFour
        <3>2. Join(off, r0) \in C
            BY <1>4, JoinIsSeq
        <3>3. Join(Join(off, r0), digest) \in C
            BY <1>2, <3>2, JoinIsSeq
        <3>4. Join(Join(head, Join(Join(off, r0), digest)), r1)
                = Join(head, Join(Join(Join(off, r0), digest), r1))
            BY <1>3, <1>4, <3>3, JoinIsAssociative
        <3>5. Join(p, digest) \in C
            BY <1>2, <2>4, JoinIsSeq
        <3>6. Join(Join(Join(p, digest), r1), kp) = Join(Join(p, digest), q)
            BY <1>3, <1>4, <3>5, JoinIsAssociative
        <3> QED
            BY <1>11, <2>2, <3>1, <3>4, <3>6
    <2>7. Len(p) = Before(layout) + OffsetLen + Len(Pars.r0)
        BY <1>1, <1>12, <1>14, <2>3, <2>4 DEF Before
    <2> HIDE DEF p, q, Pars
    <2>8. check_digest_valid(layout, d) <=> digest = hmac_sha256("player30", Join(p, q))
        <3>1. Pars = parse_digest(DigestPartOf(layout, d))
            BY DEF Pars
        <3>2. /\ p \in Seq(Cell) /\ digest \in Seq(Cell) /\ q \in Seq(Cell)
              /\ d = Join(Join(p, digest), q)
              /\ Len(d) = C1Len /\ Len(digest) = DigestLen
              /\ Pars.digest = digest
              /\ Len(p) = Before(layout) + OffsetLen + Len(Pars.r0)
            BY <1>2, <1>7, <1>12, <2>1, <2>4, <2>6, <2>7
        <3> HIDE DEF C
        <3> QED
            BY <3>1, <3>2, DigestIsChecked
    <2> QED
        BY <1>5, <1>7, <1>8, <1>10, <1>9, <2>5, <2>8 DEF Accepted, off, r0, r1
<1> QED
    BY <1>13, <1>14 DEF Layouts

LEMMA OffsetIsPlain ==
    ASSUME NEW off \in Offsets
    PROVE  off \in Seq(PlainCell) /\ Len(off) = OffsetLen
<1>1. off \in [1..OffsetLen -> PlainCell]
    BY LengthAssumption DEF Offsets, PlainCell
<1>2. OffsetLen \in Nat
    BY LengthAssumption
<1> QED
    BY <1>1, <1>2

LEMMA KeyPartIsPlain ==
    ASSUME NEW k, NEW key, KeyFields(k, key)
    PROVE  KeyPart(k.r0, k.key, k.r1, k.off) \in Seq(PlainCell)
<1> DEFINE P == Seq(PlainCell)
           a == k.r0
           b == k.key
           c == k.r1
           d == k.off
<1>1. a \in P /\ b \in P /\ c \in P /\ d \in P
    BY PeerKeyIsPlain DEF KeyFields
<1>2. \A x, y \in P : Join(x, y) \in P
    BY JoinIsSeq
<1> HIDE DEF P, a, b, c, d
<1>3. Join(Join(Join(a, b), c), d) \in P
    BY <1>1, <1>2
<1> QED
    BY <1>3 DEF KeyPart, Join, P, a, b, c, d

(* Wherever the offsets of a genuine C1 point, and in either layout, its key *)
(* and its digest are found.                                                 *)
LEMMA GenuineIsUnderstood ==
    ASSUME NEW layout \in Layouts, NEW key \in PeerKeys,
           NEW ko \in Offsets, NEW do \in Offsets, NEW fill \in Bytes,
           NEW pr, pr = Genuine(layout, key, ko, do, fill)
    PROVE  Understood(pr.c1, pr.key, pr.digest, parse_c1(pr.c1))
<1> DEFINE kn   == calc_valid_key_offset(ko)
           dn   == calc_valid_digest_offset(do)
           head == <<<<0>>, <<9>>>>
           k    == [off |-> ko, r0 |-> Repeat(fill, kn), key |-> key,
                    r1 |-> Repeat(fill, PartLen - kn - KeyLen - OffsetLen)]
           g    == [off |-> do, r0 |-> Repeat(fill, dn),
                    r1 |-> Repeat(fill, PartLen - OffsetLen - dn - DigestLen)]
           kp   == KeyPart(k.r0, k.key, k.r1, k.off)
           digest == hmac_sha256("player30", Signed(layout, head, kp, g))
           dp   == DigestPart(g.off, g.r0, digest, g.r1)
           d    == Message(layout, head, kp, dp)
<1>1. /\ ko \in Seq(PlainCell) /\ Len(ko) = OffsetLen
      /\ do \in Seq(PlainCell) /\ Len(do) = OffsetLen
      /\ fill \in Nat
    BY OffsetIsPlain, LengthAssumption
<1>2. /\ kn \in Nat /\ PartLen - kn - KeyLen - OffsetLen \in Nat
      /\ dn \in Nat /\ PartLen - OffsetLen - dn - DigestLen \in Nat
    <2>1. /\ kn \in 0..(PartLen - KeyLen - OffsetLen - 1)
          /\ dn \in 0..(PartLen - DigestLen - OffsetLen - 1)
        BY <1>1, OffsetsFit
    <2> HIDE DEF kn, dn
    <2> QED
        BY <2>1, LengthAssumption
<1>3. pr = [key |-> key, digest |-> digest, c1 |-> d]
    BY DEF Genuine, Signed, Message, Join
<1>4. KeyFields(k, key)
    <2>1. \A n \in Nat : Repeat(fill, n) \in Seq(PlainCell) /\ Len(Repeat(fill, n)) = n
        BY <1>1, RepeatIsPlain
    <2> QED
        BY <1>1, <1>2, <2>1 DEF KeyFields
<1>5. DigestFields(g)
    <2>1. \A n \in Nat : Repeat(fill, n) \in Seq(PlainCell) /\ Len(Repeat(fill, n)) = n
        BY <1>1, RepeatIsPlain
    <2> QED
        BY <1>1, <1>2, <2>1 DEF DigestFields
<1>6. head \in Seq(PlainCell) /\ Len(head) = 2
    BY DEF PlainCell
<1>7. k = [off |-> k.off, r0 |-> k.r0, key |-> k.key, r1 |-> k.r1]
    OBVIOUS
<1> HIDE DEF k, g, head
<1>8. kp \in Seq(PlainCell)
    BY <1>4, KeyPartIsPlain
<1>9. Len(kp) = PartLen /\ parse_key(kp) = k
    <2>1. k.key \in Seq(PlainCell) /\ Len(k.key) = KeyLen
        BY <1>4, PeerKeyIsPlain DEF KeyFields
    <2>2. /\ k.off \in Seq(PlainCell) /\ k.r0 \in Seq(Cell) /\ k.r1 \in Seq(Cell)
          /\ k.key \in Seq(Cell)
          /\ Len(k.off) = OffsetLen
          /\ Len(k.r0) = calc_valid_key_offset(k.off)
          /\ Len(k.r1) = PartLen - Len(k.r0) - KeyLen - OffsetLen
        BY <1>4, <2>1, PlainIsCells DEF KeyFields
    <2> QED
        BY <1>7, <2>1, <2>2, ParseKey
<1> HIDE DEF kp, digest, dp, d
<1>10. Accepted(layout, d, kp, g, digest)
    <2>1. /\ digest = hmac_sha256("player30", Signed(layout, head, kp, g))
          /\ dp = DigestPart(g.off, g.r0, digest, g.r1)
          /\ d = Message(layout, head, kp, dp)
        BY DEF digest, dp, d
    <2> QED
        BY <1>5, <1>6, <1>8, <1>9, <2>1, SignedIsAccepted
<1> DEFINE gd == [off |-> g.off, r0 |-> g.r0, digest |-> digest, r1 |-> g.r1]
           p  == parse_c1(d)
<1>11. Parse(layout, d) = [key |-> k, digest |-> gd]
    BY <1>9, <1>10 DEF Accepted, Parse
<1>12. p.ok = TRUE /\ p.schema \in {"SCHEMA0", "SCHEMA1"} /\ p.c1 = Parse(layout, d)
    <2>1. CASE layout = "key_first"
        BY <1>10, <2>1 DEF Accepted, parse_c1
    <2>2. CASE layout = "digest_first"
        BY <1>10, <2>2 DEF Accepted, parse_c1
    <2> QED
        BY <2>1, <2>2 DEF Layouts
<1>13. DigestFields(gd) /\ gd.digest = digest
    BY <1>5 DEF DigestFields
<1> HIDE DEF gd, p
<1>14. p.c1.key = k /\ p.c1.digest = gd
    BY <1>11, <1>12
<1>15. Understood(d, key, digest, p)
    BY <1>4, <1>10, <1>12, <1>13, <1>14 DEF Understood, Accepted
<1> QED
    BY <1>3, <1>15 DEF p

(* A C1 without a digest is refused.                                         *)
LEMMA PlainPeerIsRefused ==
    ASSUME NEW b \in Bytes, NEW pr, pr = Plain(b)
    PROVE  pr.digest = <<>> /\ parse_c1(pr.c1) = [ok |-> FALSE]
<1> DEFINE d == Repeat(b, C1Len)
<1>1. pr.digest = <<>> /\ pr.c1 = d
    BY DEF Plain
<1>2. b \in Nat /\ C1Len \in Nat /\ PartLen \in Nat /\ C1Len = 2 + PartLen + PartLen
    BY LengthAssumption DEF C1Len
<1>3. d \in Seq(PlainCell) /\ Len(d) = C1Len
    BY <1>2, RepeatIsPlain
<1> HIDE DEF d
<1>4. /\ Cut(d, 2, PartLen) \in Seq(PlainCell)
      /\ Len(Cut(d, 2, PartLen)) = PartLen
    BY <1>2, <1>3, CutIsSeq
<1>5. /\ Cut(d, 2 + PartLen, PartLen) \in Seq(PlainCell)
      /\ Len(Cut(d, 2 + PartLen, PartLen)) = PartLen
    BY <1>2, <1>3, CutIsSeq
<1>6. /\ DigestPartOf("digest_first", d) = Cut(d, 2, PartLen)
      /\ DigestPartOf("key_first", d) = Cut(d, 2 + PartLen, PartLen)
    BY DEF DigestPartOf
<1>7. ~check_digest_valid("digest_first", d) /\ ~check_digest_valid("key_first", d)
    BY <1>4, <1>5, <1>6, PlainIsRefused
<1>8. parse_c1(d) = [ok |-> FALSE]
    BY <1>7 DEF parse_c1
<1> QED
    BY <1>1, <1>8

(* The reader of S1 uses the layout the server wrote.                        *)
LayoutOfS1(p) == IF p.schema = "SCHEMA0" THEN "key_first" ELSE "digest_first"

Readable(s, key, p) ==
    LET q == Parse(LayoutOfS1(p), s)
    IN  /\ Len(s) = C1Len
        /\ q.key.key = SharedKey(key)
        /\ q.digest.digest = make_s1_digest(SubSeq(s, 1, 2), p.c1.key, p.c1.digest)

(* The S1 that answers to a C1 that was understood is readable.              *)
LEMMA S1IsReadable ==
    ASSUME NEW c1, NEW key, NEW dg, NEW p, Understood(c1, key, dg, p),
           NEW s, s = make_s1(c1, p)
    PROVE  Readable(s, key, p)
<1> DEFINE k      == p.c1.key
           g      == p.c1.digest
           head   == <<c1[1], <<5>>>>
           kpart  == KeyPart(k.r0, k.key, k.r1, k.off)
           digest == make_s1_digest(head, k, g)
           sk     == SharedKey(key)
           kp     == KeyPart(k.r0, sk, k.r1, k.off)
           dp     == DigestPart(g.off, g.r0, digest, g.r1)
           layout == LayoutOfS1(p)
<1>1. KeyFields(k, key) /\ DigestFields(g) /\ c1[1] \in PlainCell /\ p.schema \in {"SCHEMA0", "SCHEMA1"}
    BY DEF Understood
<1>2. head \in Seq(PlainCell) /\ Len(head) = 2
    BY <1>1 DEF PlainCell
<1>3. s = Message(layout, head, kp, dp)
    <2>1. k.key = key
        BY <1>1 DEF KeyFields
    <2> QED
        BY <1>1, <2>1 DEF make_s1, Message, LayoutOfS1, make_key, make_digest, Join
<1> HIDE DEF k, g, head
<1>4. digest = hmac_sha256("player36", Signed("key_first", head, kpart, g))
    BY DEF make_s1_digest, Signed, Join
<1>5. Signed("key_first", head, kpart, g) \in Seq(PlainCell)
    <2>1. kpart \in Seq(PlainCell)
        BY <1>1, KeyPartIsPlain
    <2> HIDE DEF kpart
    <2> QED
        BY <1>1, <1>2, <2>1, SignedIsPlain DEF Layouts
<1>6. digest \in Seq(Cell) /\ Len(digest) = DigestLen
    BY <1>4, <1>5, OpaqueIsCells, LengthAssumption DEF hmac_sha256
<1>7. sk \in Seq(Cell) /\ Len(sk) = KeyLen
    <2>1. key \in Seq(PlainCell)
        BY <1>1, PeerKeyIsPlain DEF KeyFields
    <2> QED
        BY <2>1, OpaqueIsCells, LengthAssumption DEF SharedKey
<1>8. layout \in Layouts
    BY DEF LayoutOfS1, Layouts
<1> HIDE DEF digest, sk, layout
<1>9. /\ kp \in Seq(Cell) /\ Len(kp) = PartLen
      /\ parse_key(kp) = [off |-> k.off, r0 |-> k.r0, key |-> sk, r1 |-> k.r1]
    <2>1. /\ k.off \in Seq(PlainCell) /\ k.r0 \in Seq(Cell) /\ k.r1 \in Seq(Cell)
          /\ Len(k.off) = OffsetLen
          /\ Len(k.r0) = calc_valid_key_offset(k.off)
          /\ Len(k.r1) = PartLen - Len(k.r0) - KeyLen - OffsetLen
        BY <1>1, PlainIsCells DEF KeyFields
    <2> QED
        BY <1>7, <2>1, ParseKey
<1>10. /\ dp \in Seq(Cell) /\ Len(dp) = PartLen
       /\ parse_digest(dp) = [off |-> g.off, r0 |-> g.r0, digest |-> digest, r1 |-> g.r1]
    <2>1. /\ g.off \in Seq(PlainCell) /\ g.r0 \in Seq(Cell) /\ g.r1 \in Seq(Cell)
          /\ Len(g.off) = OffsetLen
          /\ Len(g.r0) = calc_valid_digest_offset(g.off)
          /\ Len(g.r1) = PartLen - OffsetLen - Len(g.r0) - DigestLen
        BY <1>1, PlainIsCells DEF DigestFields
    <2> QED
        BY <1>6, <2>1, ParseDigest
<1> HIDE DEF kp, dp
<1>11. head \in Seq(Cell)
    BY <1>2, PlainIsCells
<1>12. HasParts(layout, s, head, kp, dp)
    BY <1>2, <1>3, <1>8, <1>9, <1>10, <1>11, PartsOf
<1>13. /\ Len(s) = C1Len
       /\ Parse(layout, s).key.key = sk
       /\ Parse(layout, s).digest.digest = digest
    BY <1>9, <1>10, <1>12 DEF HasParts, Parse
<1>14. SubSeq(s, 1, 2) = head
    BY <1>12 DEF HasParts, Cut
<1> QED
    BY <1>13, <1>14 DEF Readable, layout, sk, digest, k, g

-----------------------------------------------------------------------------
(* The invariant: what was parsed and sent is a function of the peer's C1,   *)
(* from the moment C0 and C1 are complete.                                   *)
Parsed == parsed = parse_c1(peer.c1)

Answered ==
    /\ parsed.ok /\ DH_compute_key(parsed.c1.key.key)
    /\ s1 = make_s1(peer.c1, parsed)
    /\ s2 = create_by_digest(parsed.c1.digest.digest)

IInv ==
    /\ peer \in Peers
    /\ phase \in {"initial", "c2", "connect", "closed"}
    /\ phase = "initial" => parsed = [ok |-> FALSE] /\ s1 = <<>>
    /\ phase \in {"c2", "connect"} => Parsed /\ Answered
    /\ phase = "closed" =>
          /\ Parsed /\ s1 = <<>>
          /\ parsed.ok => ~DH_compute_key(parsed.c1.key.key) \/ openssl = "failed"

LEMMA InitInv == Init => IInv
BY DEF Init, IInv

LEMMA StepInv == IInv /\ [Next]_vars => IInv'
<1> SUFFICES ASSUME IInv, [Next]_vars PROVE IInv'
    OBVIOUS
<1>1. CASE handle_c0c1
    <2>1. phase = "initial" /\ peer' = peer /\ peer \in Peers
        BY <1>1 DEF handle_c0c1, IInv
    <2>2. CASE UNCHANGED <<phase, parsed, s1, s2, openssl>>
        BY <2>1, <2>2 DEF IInv
    <2>3. CASE ~UNCHANGED <<phase, parsed, s1, s2, openssl>>
        <3> DEFINE p == parse_c1(peer.c1)
        <3>1. /\ parsed' = p
              /\ \/ p.ok /\ send_s0s1s2(p)
                 \/ ~p.ok /\ phase' = "closed" /\ UNCHANGED <<s1, s2, openssl>>
            BY <1>1, <2>3 DEF handle_c0c1
        <3>2. Parsed'
            BY <2>1, <3>1 DEF Parsed
        <3> HIDE DEF p
        <3>3. CASE p.ok /\ send_s0s1s2(p)
            <4>1. CASE phase' = "c2"
                BY <2>1, <3>1, <3>2, <3>3, <4>1 DEF IInv, Answered, send_s0s1s2
            <4>2. CASE phase' = "closed"
                BY <2>1, <3>1, <3>2, <3>3, <4>2 DEF IInv, send_s0s1s2
            <4> QED
                BY <3>3, <4>1, <4>2 DEF send_s0s1s2
        <3>4. CASE ~p.ok /\ phase' = "closed" /\ UNCHANGED <<s1, s2, openssl>>
            BY <2>1, <3>1, <3>2, <3>4 DEF IInv
        <3> QED
            BY <3>1, <3>3, <3>4
    <2> QED
        BY <2>2, <2>3
<1>2. CASE handle_c2
    BY <1>2 DEF handle_c2, IInv, Parsed, Answered
<1>3. CASE UNCHANGED vars
    BY <1>3 DEF vars, IInv, Parsed, Answered
<1> QED
    BY <1>1, <1>2, <1>3 DEF Next

LEMMA InvHolds == Spec => []IInv
BY InitInv, StepInv, PTL DEF Spec

(* A peer either has a digest and is understood or has none and is refused.  *)
LEMMA PeerIsDecided ==
    ASSUME NEW pr \in Peers
    PROVE  \/ Understood(pr.c1, pr.key, pr.digest, parse_c1(pr.c1))
           \/ pr.digest = <<>> /\ parse_c1(pr.c1) = [ok |-> FALSE]
<1>1. CASE \E l \in Layouts, key \in PeerKeys, ko \in Offsets, do \in Offsets, fill \in Bytes :
              pr = Genuine(l, key, ko, do, fill)
    BY <1>1, GenuineIsUnderstood
<1>2. CASE \E b \in Bytes : pr = Plain(b)
    BY <1>2, PlainPeerIsRefused
<1> QED
    BY <1>1, <1>2 DEF Peers, Layouts

(* Whatever the lengths of the parts, the offsets and the layout, and however *)
(* the bytes arrive: the server accepts exactly the C1s that carry a digest  *)
(* and a key Diffie-Hellman takes, unless OpenSSL fails; it goes on with the *)
(* key and the digest the peer put into it, and signs S2 for that digest     *)
(* (parse_c1, check_digest_valid, parse_key, parse_digest, send_s0s1s2).     *)
THEOREM C1IsUnderstoodHolds == Spec => []C1IsUnderstood
<1>1. ASSUME IInv PROVE C1IsUnderstood
    <2> DEFINE p == parse_c1(peer.c1)
    <2>1. \/ Understood(peer.c1, peer.key, peer.digest, p)
          \/ peer.digest = <<>> /\ p = [ok |-> FALSE]
        BY <1>1, PeerIsDecided DEF IInv
    <2>2. Understood(peer.c1, peer.key, peer.digest, p)
            => /\ p.ok = TRUE /\ peer.digest # <<>>
               /\ p.c1.key.key = peer.key
               /\ p.c1.digest.digest = peer.digest
        BY DEF Understood, KeyFields
    <2>3. p = [ok |-> FALSE] => p.ok = FALSE
        OBVIOUS
    <2> HIDE DEF p
    <2>4. CASE phase = "initial"
        <3>1. parsed.ok = FALSE
            BY <1>1, <2>4 DEF IInv
        <3> QED
            BY <2>4, <3>1 DEF C1IsUnderstood, C1Decides, Acceptable, FieldsAreFound
    <2>5. CASE phase \in {"c2", "connect"}
        <3>1. /\ parsed = p /\ p.ok /\ DH_compute_key(p.c1.key.key)
              /\ s2 = create_by_digest(p.c1.digest.digest)
            BY <1>1, <2>5 DEF IInv, Parsed, Answered, p
        <3>2. Understood(peer.c1, peer.key, peer.digest, p)
            BY <2>1, <2>3, <3>1
        <3> QED
            BY <2>2, <2>5, <3>1, <3>2 DEF C1IsUnderstood, C1Decides, Acceptable, FieldsAreFound
    <2>6. CASE phase = "closed"
        <3>1. /\ parsed = p
              /\ p.ok => ~DH_compute_key(p.c1.key.key) \/ openssl = "failed"
            BY <1>1, <2>6 DEF IInv, Parsed, p
        <3>2. CASE Understood(peer.c1, peer.key, peer.digest, p)
            BY <2>2, <2>6, <3>1, <3>2 DEF C1IsUnderstood, C1Decides, Acceptable, FieldsAreFound
        <3>3. CASE peer.digest = <<>> /\ p = [ok |-> FALSE]
            BY <2>3, <2>6, <3>1, <3>3 DEF C1IsUnderstood, C1Decides, Acceptable, FieldsAreFound
        <3> QED
            BY <2>1, <3>2, <3>3
    <2> QED
        BY <1>1, <2>4, <2>5, <2>6 DEF IInv
<1> QED
    BY InvHolds, <1>1, PTL

(* Whatever the lengths and the offsets, a peer that reads S1 in the layout  *)
(* the server wrote finds the shared key and the digest of S1 where the      *)
(* offsets say, in a message of the length of C1 (make_s1, make_key,         *)
(* make_digest).                                                             *)
THEOREM S1ParsesHolds == Spec => []S1Parses
<1>1. ASSUME IInv PROVE S1Parses
    <2> SUFFICES ASSUME s1 # <<>> PROVE Readable(s1, peer.key, parsed)
        BY DEF S1Parses, Readable, LayoutOfS1
    <2>1. phase \in {"c2", "connect"}
        BY <1>1 DEF IInv
    <2>2. parsed = parse_c1(peer.c1) /\ parsed.ok /\ s1 = make_s1(peer.c1, parsed)
        BY <1>1, <2>1 DEF IInv, Parsed, Answered
    <2>3. Understood(peer.c1, peer.key, peer.digest, parsed)
        BY <1>1, <2>2, PeerIsDecided DEF IInv
    <2> QED
        BY <2>2, <2>3, S1IsReadable
<1> QED
    BY InvHolds, <1>1, PTL
=============================================================================
