------------------------- MODULE RtcpCompoundProofs -------------------------
(* What RtcpCompound's run shows for a few packets and a few damaged bits,   *)
(* for any.                                                                  *)
EXTENDS RtcpCompound, SequenceTheorems, WellFoundedInduction, TLAPS

(* What the body parsers can return.                                         *)
Input == [type: Nat, count: Nat, content: Seq(Byte), padding: Nat]

Parsable == {ParseOne(in.type, in.count, in.content, in.padding)[1] : in \in Input}

SentType == [packet: Packet, end: Nat]

DamageType == [kind: {"none", "cut", "flip"}, at: Nat]

ParserType == [status: {"parsing", "done", "raised"}, offset: Nat,
               packets: Seq(Parsable)]

TypeOK ==
  /\ sent \in Seq(SentType)
  /\ phase \in {"building", "refused", "parsing"}
  /\ datagram \in Seq(Byte)
  /\ damage \in DamageType
  /\ parser \in [Mode -> ParserType]
  /\ \A m \in Mode :
       /\ parser[m].offset =< Len(datagram)
       /\ phase # "parsing" =>
            /\ parser[m].status = "parsing"
            /\ parser[m].offset = 0
            /\ parser[m].packets = <<>>

----------------------------------------------------------------------------
(* A turn of the loop: it ends the loop, passes over a packet or takes it.   *)

WholeAt(at) == at + HeaderSize =< Len(datagram) /\ PacketEnd(at) =< Len(datagram)

Refused(m) == IF m = "strict" THEN "raised" ELSE "done"

(* What strict mode raises on and lenient mode does not.                     *)
Improper(at) ==
  \/ Version(at) # 2
  \/ PaddingFlag(at) /\ ~PaddingFits(at)
  \/ ParsedAt(at) = Malformed

Stops(m) ==
  LET at == parser[m].offset
      status == parser'[m].status
  IN  /\ parser'[m].offset = at
      /\ parser'[m].packets = parser[m].packets
      /\ \/ Len(datagram) < HeaderSize /\ status = "raised"
         \/ HeaderSize =< Len(datagram) /\ at = Len(datagram) /\ status = "done"
         \/ /\ HeaderSize =< Len(datagram) /\ at # Len(datagram)
            /\ ~WholeAt(at) /\ status = Refused(m)
         \/ m = "strict" /\ at + HeaderSize =< Len(datagram)
            /\ Improper(at) /\ status = "raised"

Skips(m) ==
  LET at == parser[m].offset IN
  /\ m = "lenient"
  /\ WholeAt(at) /\ ParsedAt(at) = Malformed
  /\ parser'[m].status = "parsing"
  /\ parser'[m].offset = PacketEnd(at)
  /\ parser'[m].packets = parser[m].packets

Takes(m) ==
  LET at == parser[m].offset IN
  /\ WholeAt(at)
  /\ m = "strict" => ~Improper(at)
  /\ parser'[m].status = "parsing"
  /\ parser'[m].offset = PacketEnd(at)
  /\ \E p \in Parsable :
       /\ ParsedAt(at) = <<p>>
       /\ parser'[m].packets = Append(parser[m].packets, p)

Turn(m) ==
  /\ Running(m)
  /\ UNCHANGED <<sent, phase, datagram, damage>>
  /\ parser'[m] \in ParserType
  /\ parser' = [parser EXCEPT ![m] = parser'[m]]
  /\ parser'[m].offset =< Len(datagram)
  /\ Stops(m) \/ Skips(m) \/ Takes(m)

----------------------------------------------------------------------------
(* Bytes.                                                                    *)

LEMMA BytesAreNumbers ==
  ASSUME NEW s \in Seq(Byte)
  PROVE  Len(s) \in Nat /\ \A i \in 1 .. Len(s) : s[i] \in Byte /\ s[i] \in 0 .. 255
BY LenProperties, ElementOfSeq DEF Byte

LEMMA ConcatenationOfBytes ==
  ASSUME NEW s \in Seq(Byte), NEW t \in Seq(Byte)
  PROVE  /\ s \o t \in Seq(Byte)
         /\ Len(s \o t) = Len(s) + Len(t)
         /\ \A i \in 1 .. Len(s) : (s \o t)[i] = s[i]
         /\ \A i \in 1 .. Len(t) : (s \o t)[Len(s) + i] = t[i]
<1>1. Len(s) \in Nat /\ Len(t) \in Nat
  BY LenProperties
<1>2. /\ s \o t \in Seq(Byte)
      /\ Len(s \o t) = Len(s) + Len(t)
      /\ \A i \in 1 .. Len(s) + Len(t) :
           (s \o t)[i] = IF i =< Len(s) THEN s[i] ELSE t[i - Len(s)]
  BY ConcatProperties
<1>3. ASSUME NEW i \in 1 .. Len(t)
      PROVE  (s \o t)[Len(s) + i] = t[i]
  <2>1. /\ Len(s) + i \in 1 .. Len(s) + Len(t)
        /\ ~(Len(s) + i =< Len(s))
        /\ (Len(s) + i) - Len(s) = i
    BY <1>1
  <2> QED BY <1>2, <2>1
<1>4. ASSUME NEW i \in 1 .. Len(s)
      PROVE  (s \o t)[i] = s[i]
  <2>1. i \in 1 .. Len(s) + Len(t) /\ i =< Len(s)
    BY <1>1
  <2> QED BY <1>2, <2>1
<1> QED BY <1>2, <1>3, <1>4

LEMMA SliceOfBytes ==
  ASSUME NEW s \in Seq(Byte), NEW a \in Nat, NEW b \in Nat, b =< Len(s)
  PROVE  /\ SubSeq(s, a + 1, b) \in Seq(Byte)
         /\ Len(SubSeq(s, a + 1, b)) = IF b =< a THEN 0 ELSE b - a
         /\ \A i \in 1 .. b - a : SubSeq(s, a + 1, b)[i] = s[a + i]
<1>1. Len(s) \in Nat
  BY LenProperties
<1>2. \A i \in a + 1 .. b : s[i] \in Byte
  <2>1. \A i \in a + 1 .. b : i \in 1 .. Len(s)
    BY <1>1
  <2> QED BY <2>1, ElementOfSeq
<1> DEFINE m == a + 1
<1>3. m \in Int /\ b \in Int /\ \A i \in m .. b : s[i] \in Byte
  BY <1>2
<1>4. /\ SubSeq(s, m, b) \in Seq(Byte)
      /\ Len(SubSeq(s, m, b)) = IF m <= b THEN b - m + 1 ELSE 0
      /\ \A i \in 1 .. b - m + 1 : SubSeq(s, m, b)[i] = s[m + i - 1]
  <2> HIDE DEF m
  <2> QED BY <1>3, SubSeqProperties
<1>5. /\ b - m + 1 = b - a
      /\ m =< b <=> ~(b =< a)
      /\ \A i \in 1 .. b - a : m + i - 1 = a + i
  OBVIOUS
<1>6. \A i \in 1 .. b - a : SubSeq(s, m, b)[i] = s[a + i]
  BY <1>4, <1>5
<1> QED BY <1>4, <1>5, <1>6

LEMMA SliceIs ==
  ASSUME NEW s \in Seq(Byte), NEW a \in Nat, NEW u \in Seq(Byte),
         a + Len(u) =< Len(s), \A i \in 1 .. Len(u) : s[a + i] = u[i]
  PROVE  SubSeq(s, a + 1, a + Len(u)) = u
<1> DEFINE b == a + Len(u)
           v == SubSeq(s, a + 1, b)
<1>1. Len(u) \in Nat
  BY LenProperties
<1>2. b \in Nat /\ b =< Len(s) /\ b - a = Len(u)
  BY <1>1
<1> HIDE DEF b
<1>3. /\ v \in Seq(Byte)
      /\ Len(v) = IF b =< a THEN 0 ELSE b - a
      /\ \A i \in 1 .. b - a : v[i] = s[a + i]
  BY <1>2, SliceOfBytes
<1>4. IF b =< a THEN Len(u) = 0 ELSE TRUE
  BY <1>1, <1>2
<1> HIDE DEF v
<1>5. Len(v) = Len(u) /\ \A i \in 1 .. Len(v) : v[i] = u[i]
  BY <1>2, <1>3, <1>4
<1>6. v = u
  BY <1>3, <1>5, SeqEqual
<1> QED BY <1>6 DEF v, b

----------------------------------------------------------------------------
(* Every set of natural numbers that is not empty has a least element.       *)
LEMMA LeastNumber ==
  ASSUME NEW T, T \subseteq Nat, T # {}
  PROVE  \E n \in T : \A m \in T : n =< m
<1> DEFINE R == OpToRel(<, Nat)
<1>1. IsWellFoundedOn(R, Nat)
  BY NatLessThanWellFounded
<1> HIDE DEF R
<1>2. \E x \in T : \A y \in T : ~(<<y, x>> \in R)
  BY <1>1, WFMin
<1>3. \A x, y \in Nat : y < x => <<y, x>> \in R
  BY DEF R, OpToRel
<1>4. \E x \in T : \A y \in T : ~(y < x)
  BY <1>2, <1>3, Zenon
<1> QED BY <1>4

(* Induction over the natural numbers, for a set.                            *)
LEMMA Induction ==
  ASSUME NEW S, 0 \in S, \A n \in Nat : n \in S => n + 1 \in S
  PROVE  Nat \subseteq S
<1> DEFINE T == Nat \ S
<1>1. CASE T = {}
  BY <1>1
<1>2. CASE T # {}
  <2>1. PICK n \in T : \A m \in T : n =< m
    BY <1>2, LeastNumber
  <2>2. n - 1 \in Nat
    BY <2>1
  <2>3. n - 1 \in S
    BY <2>1, <2>2
  <2>4. (n - 1) + 1 \in S
    BY <2>2, <2>3
  <2> QED BY <2>1, <2>4
<1> QED BY <1>1, <1>2

----------------------------------------------------------------------------
(* t lies in s behind the first k bytes.                                     *)
Lies(s, k, t) == k + Len(t) =< Len(s) /\ \A i \in 1 .. Len(t) : s[k + i] = t[i]

(* The parts of a concatenation lie behind each other.                       *)
LEMMA JoinedLie ==
  ASSUME NEW s \in Seq(Byte), NEW t \in Seq(Byte)
  PROVE  /\ s \o t \in Seq(Byte)
         /\ Len(s \o t) = Len(s) + Len(t)
         /\ Lies(s \o t, 0, s)
         /\ Lies(s \o t, Len(s), t)
<1> DEFINE u == s \o t
<1>1. /\ u \in Seq(Byte)
      /\ Len(u) = Len(s) + Len(t)
      /\ \A i \in 1 .. Len(s) : u[i] = s[i]
      /\ \A i \in 1 .. Len(t) : u[Len(s) + i] = t[i]
  BY ConcatenationOfBytes
<1>2. Len(s) \in Nat /\ Len(t) \in Nat
  BY LenProperties
<1> HIDE DEF u
<1>3. Lies(u, 0, s) /\ Lies(u, Len(s), t)
  BY <1>1, <1>2 DEF Lies
<1> QED BY <1>1, <1>3 DEF u

(* What lies in a part lies in the whole.                                    *)
LEMMA LiesWithin ==
  ASSUME NEW s \in Seq(Byte), NEW t \in Seq(Byte), NEW u \in Seq(Byte),
         NEW k \in Nat, NEW j \in Nat, Lies(s, k, t), Lies(t, j, u)
  PROVE  Lies(s, k + j, u)
<1>1. Len(s) \in Nat /\ Len(t) \in Nat /\ Len(u) \in Nat
  BY LenProperties
<1>2. k + Len(t) =< Len(s) /\ j + Len(u) =< Len(t)
  BY DEF Lies
<1>3. (k + j) + Len(u) =< Len(s)
  BY <1>1, <1>2
<1>4. ASSUME NEW i \in 1 .. Len(u)
      PROVE  s[(k + j) + i] = u[i]
  <2>1. j + i \in 1 .. Len(t) /\ k + (j + i) = (k + j) + i
    BY <1>1, <1>2
  <2>2. t[j + i] = u[i] /\ s[k + (j + i)] = t[j + i]
    BY <2>1 DEF Lies
  <2> QED BY <2>1, <2>2
<1> QED BY <1>3, <1>4 DEF Lies

LEMMA LiesInFront ==
  ASSUME NEW s \in Seq(Byte), NEW t \in Seq(Byte), NEW u \in Seq(Byte), NEW k \in Nat,
         Lies(s, k, u)
  PROVE  Lies(s \o t, k, u)
<1>1. s \o t \in Seq(Byte) /\ Lies(s \o t, 0, s)
  BY JoinedLie
<1>2. Lies(s \o t, 0 + k, u)
  BY <1>1, LiesWithin
<1> QED BY <1>2

LEMMA LiesBehind ==
  ASSUME NEW s \in Seq(Byte), NEW t \in Seq(Byte), NEW u \in Seq(Byte), NEW k \in Nat,
         Lies(t, k, u)
  PROVE  Lies(s \o t, Len(s) + k, u)
<1>1. s \o t \in Seq(Byte) /\ Lies(s \o t, Len(s), t) /\ Len(s) \in Nat
  BY JoinedLie, LenProperties
<1> QED BY <1>1, LiesWithin

(* A slice taken where something lies is that.                               *)
LEMMA LiesSlice ==
  ASSUME NEW s \in Seq(Byte), NEW u \in Seq(Byte), NEW k \in Nat, Lies(s, k, u)
  PROVE  SubSeq(s, k + 1, k + Len(u)) = u
BY SliceIs DEF Lies

----------------------------------------------------------------------------
(* flatten is the recursive function that FlattenSeq is defined by.          *)
Flatten(s, flatten) ==
  flatten = [i \in 1 .. Len(s) |-> IF i = 1 THEN s[i] ELSE flatten[i - 1] \o s[i]]

(* The recursion of FlattenSeq has a solution, so its CHOOSE is one.         *)
LEMMA FlattenExists ==
  ASSUME NEW s, Len(s) \in Nat
  PROVE  \E flatten : Flatten(s, flatten)
<1> DEFINE m == Len(s)
           Upto(k, g) ==
             g = [i \in 1 .. m |-> IF i > k THEN <<>>
                                   ELSE IF i = 1 THEN s[i] ELSE g[i - 1] \o s[i]]
           S == {k \in Nat : \E g : Upto(k, g)}
<1>0. m \in Nat
  OBVIOUS
<1> HIDE DEF m
<1>1. 0 \in S
  <2> DEFINE g == [i \in 1 .. m |-> <<>>]
  <2>1. \A i \in 1 .. m : i > 0
    OBVIOUS
  <2>2. Upto(0, g)
    BY <2>1
  <2> QED BY <2>2
<1>2. ASSUME NEW k \in Nat, k \in S PROVE k + 1 \in S
  <2>1. PICK g : Upto(k, g)
    BY <1>2
  <2> DEFINE h == [i \in 1 .. m |-> IF i > k + 1 THEN <<>>
                                    ELSE IF i = 1 THEN s[i] ELSE g[i - 1] \o s[i]]
  <2>2. ASSUME NEW i \in 1 .. m, i =< k PROVE h[i] = g[i]
    <3>1. ~(i > k) /\ ~(i > k + 1)
      BY <2>2
    <3>2. g[i] = IF i = 1 THEN s[i] ELSE g[i - 1] \o s[i]
      BY <2>1, <3>1, Zenon
    <3>3. h[i] = IF i = 1 THEN s[i] ELSE g[i - 1] \o s[i]
      BY <3>1, Zenon
    <3> QED BY <3>2, <3>3, Zenon
  <2>3. h = [i \in 1 .. m |-> IF i > k + 1 THEN <<>>
                              ELSE IF i = 1 THEN s[i] ELSE g[i - 1] \o s[i]]
    OBVIOUS
  <2> HIDE DEF h
  <2>4. ASSUME NEW i \in 1 .. m
        PROVE  (IF i > k + 1 THEN <<>> ELSE IF i = 1 THEN s[i] ELSE g[i - 1] \o s[i])
               = (IF i > k + 1 THEN <<>> ELSE IF i = 1 THEN s[i] ELSE h[i - 1] \o s[i])
    <3>1. CASE i > k + 1
      BY <3>1, Zenon
    <3>2. CASE i = 1
      BY <3>2, Zenon
    <3>3. CASE ~(i > k + 1) /\ i # 1
      <4>1. i - 1 \in 1 .. m /\ i - 1 =< k
        BY <1>0, <3>3
      <4>2. h[i - 1] = g[i - 1]
        BY <2>2, <4>1, Zenon
      <4> QED BY <4>2, Zenon
    <3> QED BY <3>1, <3>2, <3>3, Zenon
  <2>5. Upto(k + 1, h)
    <3>1. h = [i \in 1 .. m |-> IF i > k + 1 THEN <<>>
                                ELSE IF i = 1 THEN s[i] ELSE h[i - 1] \o s[i]]
      BY <2>3, <2>4, Zenon
    <3> QED BY <3>1, Zenon
  <2> HIDE DEF Upto
  <2>6. k + 1 \in Nat
    OBVIOUS
  <2> QED BY <2>5, <2>6
<1>3. \A k \in Nat : k \in S
  <2> HIDE DEF S
  <2> QED BY <1>1, <1>2, Induction
<1>4. \E flatten : Flatten(s, flatten)
  <2>1. PICK g : Upto(m, g)
    BY <1>0, <1>3
  <2>2. \A i \in 1 .. m : ~(i > m)
    BY <1>0
  <2>3. g = [i \in 1 .. m |-> IF i = 1 THEN s[i] ELSE g[i - 1] \o s[i]]
    BY <2>1, <2>2
  <2> QED BY <2>3 DEF Flatten, m
<1> QED BY <1>4

(* Where the parts of a flattened sequence begin.                            *)
Offsets(s, off) ==
  LET m == Len(s) IN
  /\ off \in [1 .. m + 1 -> Nat]
  /\ off[1] = 0
  /\ off[m + 1] = Len(FlattenSeq(s))
  /\ \A i \in 1 .. m : off[i + 1] = off[i] + Len(s[i]) /\ Lies(FlattenSeq(s), off[i], s[i])

(* The sequences that FlattenSeq joins lie behind each other in the result.  *)
LEMMA FlattenedSome ==
  ASSUME NEW m \in Nat, m # 0, NEW s \in [1 .. m -> Seq(Byte)]
  PROVE  /\ FlattenSeq(s) \in Seq(Byte)
         /\ \E off : Offsets(s, off)
<1>1. Len(s) = m
  OBVIOUS
<1> DEFINE g == CHOOSE g : Flatten(s, g)
<1>2. Flatten(s, g)
  <2>1. \E flatten : Flatten(s, flatten)
    BY <1>1, FlattenExists
  <2> QED BY <2>1, Zenon
<1>3. FlattenSeq(s) = g[m]
  BY <1>1, Zenon DEF FlattenSeq, Flatten
<1> HIDE DEF g
<1>4. \A i \in 1 .. m : g[i] = IF i = 1 THEN s[i] ELSE g[i - 1] \o s[i]
  BY <1>1, <1>2, Zenon DEF Flatten
<1> DEFINE off == [i \in 1 .. m + 1 |-> IF i = 1 THEN 0 ELSE Len(g[i - 1])]
           Good(k) ==
             /\ g[k] \in Seq(Byte)
             /\ off[k + 1] = Len(g[k])
             /\ \A i \in 1 .. k :
                  /\ off[i] \in Nat
                  /\ off[i + 1] = off[i] + Len(s[i])
                  /\ off[i + 1] =< Len(g[k])
                  /\ Lies(g[k], off[i], s[i])
           S == {k \in Nat : 1 =< k /\ k =< m => Good(k)}
<1>5. off[1] = 0 /\ \A k \in 1 .. m : off[k + 1] = Len(g[k])
  <2>1. 1 \in 1 .. m + 1
    OBVIOUS
  <2>2. ASSUME NEW k \in 1 .. m
        PROVE  k + 1 \in 1 .. m + 1 /\ k + 1 # 1 /\ (k + 1) - 1 = k
    OBVIOUS
  <2> QED BY <2>1, <2>2, Zenon
<1>6. \A i \in 1 .. m : s[i] \in Seq(Byte)
  OBVIOUS
<1>7. 0 \in S
  OBVIOUS
<1> HIDE DEF off
<1>8. ASSUME NEW k \in Nat, k \in S PROVE k + 1 \in S
  <2> SUFFICES ASSUME k + 1 =< m PROVE Good(k + 1)
    OBVIOUS
  <2>1. k + 1 \in 1 .. m
    OBVIOUS
  <2>2. off[(k + 1) + 1] = Len(g[k + 1])
    BY <1>5, <2>1
  <2>3. CASE k = 0
    <3>1. g[1] = s[1]
      BY <1>4, <2>1, <2>3
    <3>2. s[1] \in Seq(Byte)
      BY <1>6, <2>1, <2>3
    <3>3. off[2] = Len(s[1])
      BY <2>2, <2>3, <3>1
    <3>4. Lies(s[1], 0, s[1])
      BY <3>2 DEF Lies
    <3>5. Good(1)
      <4>1. off[1 + 1] = Len(g[1])
        BY <3>1, <3>3
      <4>2. ASSUME NEW i \in 1 .. 1
            PROVE  /\ off[i] \in Nat
                   /\ off[i + 1] = off[i] + Len(s[i])
                   /\ off[i + 1] =< Len(g[1])
                   /\ Lies(g[1], off[i], s[i])
        <5>1. i = 1 /\ i + 1 = 2
          OBVIOUS
        <5>2. Len(s[1]) \in Nat
          BY <3>2
        <5> QED BY <1>5, <3>1, <3>3, <3>4, <5>1, <5>2
      <4> QED BY <3>1, <3>2, <4>1, <4>2
    <3> QED BY <2>3, <3>5
  <2>4. CASE k # 0
    <3>1. k \in 1 .. m /\ (k + 1) - 1 = k /\ k + 1 # 1
      BY <2>4
    <3>2. Good(k)
      BY <1>8, <3>1
    <3>3. g[k + 1] = g[k] \o s[k + 1]
      BY <1>4, <2>1, <3>1
    <3> DEFINE a == g[k]
               b == s[k + 1]
    <3>4. a \in Seq(Byte) /\ b \in Seq(Byte)
      BY <1>6, <2>1, <3>2
    <3> HIDE DEF a, b
    <3>5. a \o b \in Seq(Byte) /\ Len(a \o b) = Len(a) + Len(b) /\ Lies(a \o b, Len(a), b)
          /\ Len(a) \in Nat /\ Len(b) \in Nat
      BY <3>4, JoinedLie, LenProperties
    <3>6. off[k + 1] = Len(a)
      BY <3>2 DEF a
    <3>7. ASSUME NEW i \in 1 .. k
          PROVE  /\ off[i] \in Nat
                 /\ off[i + 1] = off[i] + Len(s[i])
                 /\ off[i + 1] =< Len(a \o b)
                 /\ Lies(a \o b, off[i], s[i])
      <4>1. /\ off[i] \in Nat
            /\ off[i + 1] = off[i] + Len(s[i])
            /\ off[i + 1] =< Len(a)
            /\ Lies(a, off[i], s[i])
        BY <3>2 DEF a
      <4>2. s[i] \in Seq(Byte)
        <5>1. i \in 1 .. m
          BY <3>1
        <5> QED BY <1>6, <5>1, Zenon
      <4>3. Lies(a \o b, off[i], s[i])
        BY <3>4, <4>1, <4>2, LiesInFront
      <4>4. Len(s[i]) \in Nat
        BY <4>2
      <4> QED BY <3>5, <4>1, <4>3, <4>4
    <3>8. /\ off[k + 1] \in Nat
          /\ off[(k + 1) + 1] = off[k + 1] + Len(s[k + 1])
          /\ off[(k + 1) + 1] =< Len(a \o b)
          /\ Lies(a \o b, off[k + 1], s[k + 1])
      <4>1. off[(k + 1) + 1] = Len(a \o b)
        BY <2>2, <3>3 DEF a, b
      <4>2. off[(k + 1) + 1] = off[k + 1] + Len(b)
        BY <3>5, <3>6, <4>1
      <4>3. off[(k + 1) + 1] =< Len(a \o b)
        BY <3>5, <4>1
      <4> QED BY <3>5, <3>6, <4>2, <4>3 DEF b
    <3>9. ASSUME NEW i \in 1 .. k + 1
          PROVE  /\ off[i] \in Nat
                 /\ off[i + 1] = off[i] + Len(s[i])
                 /\ off[i + 1] =< Len(a \o b)
                 /\ Lies(a \o b, off[i], s[i])
      <4>1. i \in 1 .. k \/ i = k + 1
        OBVIOUS
      <4> QED BY <3>7, <3>8, <4>1, Zenon
    <3> QED BY <2>2, <3>3, <3>5, <3>9 DEF a, b
  <2> QED BY <2>3, <2>4
<1>9. m \in S
  <2> HIDE DEF S
  <2> QED BY <1>7, <1>8, Induction
<1>10. Good(m)
  BY <1>9
<1>11. off \in [1 .. m + 1 -> Nat]
  <2>1. ASSUME NEW i \in 1 .. m + 1 PROVE off[i] \in Nat
    <3>1. CASE i = m + 1
      <4>1. Len(g[m]) \in Nat
        BY <1>10
      <4> QED BY <1>10, <3>1, <4>1
    <3>2. CASE i # m + 1
      <4>1. i \in 1 .. m
        BY <3>2
      <4> QED BY <1>10, <4>1, Zenon
    <3> QED BY <3>1, <3>2
  <2>2. off = [i \in 1 .. m + 1 |-> off[i]]
    BY DEF off
  <2> QED BY <2>1, <2>2, Zenon
<1>12. Offsets(s, off)
  <2> HIDE DEF Good
  <2>1. /\ off[m + 1] = Len(g[m])
        /\ \A i \in 1 .. m :
             /\ off[i + 1] = off[i] + Len(s[i])
             /\ off[i + 1] =< Len(g[m])
             /\ Lies(g[m], off[i], s[i])
    BY <1>10, Zenon DEF Good
  <2> QED BY <1>1, <1>3, <1>5, <1>11, <2>1, Zenon DEF Offsets
<1> QED BY <1>3, <1>10, <1>12, Zenon

LEMMA Flattened ==
  ASSUME NEW s \in Seq(Seq(Byte))
  PROVE  /\ FlattenSeq(s) \in Seq(Byte)
         /\ \E off : Offsets(s, off)
<1>1. Len(s) \in Nat /\ s \in [1 .. Len(s) -> Seq(Byte)]
  BY LenProperties
<1>2. CASE Len(s) = 0
  <2>1. s = <<>> /\ FlattenSeq(s) = s
    BY <1>2, EmptySeq, Zenon DEF FlattenSeq
  <2>2. FlattenSeq(s) = <<>> /\ <<>> \in Seq(Byte) /\ Len(<<>>) = 0
    BY <2>1
  <2> DEFINE off == [i \in 1 .. 1 |-> 0]
  <2>3. /\ off \in [1 .. 0 + 1 -> Nat] /\ off[1] = 0 /\ off[0 + 1] = 0
        /\ (1 .. 0) = {}
    OBVIOUS
  <2> HIDE DEF off
  <2>4. Offsets(s, off)
    BY <1>2, <2>2, <2>3, Zenon DEF Offsets
  <2> QED BY <2>2, <2>4
<1>3. CASE Len(s) # 0
  BY <1>1, <1>3, FlattenedSome
<1> QED BY <1>2, <1>3

(* Parts of one length lie at its multiples.                                 *)
LEMMA FlattenedEqual ==
  ASSUME NEW s \in Seq(Seq(Byte)), NEW k \in Nat, \A i \in 1 .. Len(s) : Len(s[i]) = k
  PROVE  /\ FlattenSeq(s) \in Seq(Byte)
         /\ Len(FlattenSeq(s)) = Len(s) * k
         /\ \A i \in 1 .. Len(s) : (i - 1) * k \in Nat /\ Lies(FlattenSeq(s), (i - 1) * k, s[i])
<1> DEFINE m == Len(s)
<1>1. PICK off : Offsets(s, off)
  BY Flattened
<1>2. m \in Nat /\ FlattenSeq(s) \in Seq(Byte)
  BY LenProperties, Flattened
<1>3. /\ off[1] = 0 /\ off[m + 1] = Len(FlattenSeq(s))
      /\ \A i \in 1 .. m : off[i + 1] = off[i] + k /\ Lies(FlattenSeq(s), off[i], s[i])
  BY <1>1, Zenon DEF Offsets
<1> DEFINE S == {n \in Nat : n =< m => off[n + 1] = n * k /\ n * k \in Nat}
<1> HIDE DEF m
<1>4. 0 \in S
  <2>1. 0 * k = 0 /\ 0 + 1 = 1
    OBVIOUS
  <2> QED BY <1>3, <2>1
<1>5. ASSUME NEW n \in Nat, n \in S
      PROVE  n + 1 \in S
  <2> SUFFICES ASSUME n + 1 =< m
               PROVE  off[(n + 1) + 1] = (n + 1) * k /\ (n + 1) * k \in Nat
    OBVIOUS
  <2>1. n + 1 \in 1 .. m /\ n =< m
    BY <1>2
  <2>2. off[n + 1] = n * k /\ n * k \in Nat
    BY <1>5, <2>1
  <2>3. off[(n + 1) + 1] = off[n + 1] + k
    BY <1>3, <2>1
  <2>4. (n + 1) * k = n * k + k
    OBVIOUS
  <2> DEFINE nk == n * k
  <2>5. nk \in Nat /\ nk + k \in Nat
    BY <2>2
  <2> QED BY <2>2, <2>3, <2>4, <2>5
<1>6. \A n \in Nat : n =< m => off[n + 1] = n * k /\ n * k \in Nat
  <2> HIDE DEF S
  <2>1. Nat \subseteq S
    BY <1>4, <1>5, Induction
  <2> QED BY <2>1 DEF S
<1>7. Len(FlattenSeq(s)) = m * k
  BY <1>2, <1>3, <1>6
<1>8. ASSUME NEW i \in 1 .. m
      PROVE  (i - 1) * k \in Nat /\ Lies(FlattenSeq(s), (i - 1) * k, s[i])
  <2>1. i - 1 \in Nat /\ i - 1 =< m /\ (i - 1) + 1 = i
    BY <1>2
  <2>2. off[(i - 1) + 1] = (i - 1) * k /\ (i - 1) * k \in Nat
    BY <1>6, <2>1
  <2> QED BY <1>3, <2>1, <2>2, Zenon
<1> QED BY <1>2, <1>7, <1>8 DEF m

----------------------------------------------------------------------------
(* The body parsers return one packet or none.                               *)
LEMMA ParsersReturn ==
  ASSUME NEW type, NEW count, NEW content, NEW padding,
         ParseOne(type, count, content, padding) # Malformed
  PROVE  ParseOne(type, count, content, padding)
           = <<ParseOne(type, count, content, padding)[1]>>
<1>1. ParseSR(content, count, padding) # Malformed
        => \E p : ParseSR(content, count, padding) = <<p>>
  BY DEF ParseSR
<1>2. ParseRR(content, count, padding) # Malformed
        => \E p : ParseRR(content, count, padding) = <<p>>
  BY DEF ParseRR
<1>3. ParseSDES(content, count, padding) # Malformed
        => \E p : ParseSDES(content, count, padding) = <<p>>
  BY DEF ParseSDES
<1>4. ParseBYE(content, count, padding) # Malformed
        => \E p : ParseBYE(content, count, padding) = <<p>>
  BY DEF ParseBYE
<1>5. ParseAPP(content, count, padding) # Malformed
        => \E p : ParseAPP(content, count, padding) = <<p>>
  BY DEF ParseAPP
<1>6. \E p : ParseOne(type, count, content, padding) = <<p>>
  BY <1>1, <1>2, <1>3, <1>4, <1>5 DEF ParseOne
<1> QED BY <1>6

(* A header says where its packet ends, and that is further on.              *)
LEMMA HeaderFacts ==
  ASSUME datagram \in Seq(Byte), NEW at \in Nat, at + HeaderSize =< Len(datagram)
  PROVE  /\ \A i \in 0 .. 3 : ByteAt(at + i) \in 0 .. 255
         /\ ByteAt(at) \in 0 .. 255
         /\ PacketEnd(at) \in Nat
         /\ PacketEnd(at) >= at + HeaderSize
         /\ PacketEnd(at) = at + 4 * (256 * ByteAt(at + 2) + ByteAt(at + 3) + 1)
<1>1. ASSUME NEW i \in 0 .. 3
      PROVE  ByteAt(at + i) \in 0 .. 255
  <2>1. Len(datagram) \in Nat /\ (at + i) + 1 \in 1 .. Len(datagram)
    BY BytesAreNumbers DEF HeaderSize
  <2> QED BY <2>1, BytesAreNumbers DEF ByteAt
<1>2. ByteAt(at + 2) \in 0 .. 255 /\ ByteAt(at + 3) \in 0 .. 255
  BY <1>1
<1>3. ByteAt(at) \in 0 .. 255
  <2>1. at + 0 = at
    OBVIOUS
  <2> QED BY <1>1, <2>1
<1>4. \A hi, lo \in 0 .. 255 :
        /\ at + 4 * (256 * hi + lo + 1) \in Nat
        /\ at + 4 * (256 * hi + lo + 1) >= at + 4
  OBVIOUS
<1>5. PacketEnd(at) = at + 4 * (256 * ByteAt(at + 2) + ByteAt(at + 3) + 1)
  BY DEF PacketEnd
<1>6. PacketEnd(at) \in Nat /\ PacketEnd(at) >= at + 4
  <2> DEFINE hi == ByteAt(at + 2)
             lo == ByteAt(at + 3)
  <2>1. hi \in 0 .. 255 /\ lo \in 0 .. 255
    BY <1>2
  <2>2. PacketEnd(at) = at + 4 * (256 * hi + lo + 1)
    BY <1>5
  <2> HIDE DEF hi, lo
  <2> QED BY <2>1, <2>2
<1> QED BY <1>1, <1>3, <1>5, <1>6 DEF HeaderSize

LEMMA BodyFacts ==
  ASSUME datagram \in Seq(Byte), NEW at \in Nat, WholeAt(at)
  PROVE  /\ BodyAt(at) \in Seq(Byte)
         /\ PaddingSize(at) \in 0 .. Len(BodyAt(at))
         /\ SubSeq(BodyAt(at), 1, Len(BodyAt(at)) - PaddingSize(at)) \in Seq(Byte)
<1>1. /\ PacketEnd(at) \in Nat /\ PacketEnd(at) =< Len(datagram)
      /\ at + HeaderSize \in Nat
  BY HeaderFacts DEF WholeAt, HeaderSize
<1>2. BodyAt(at) \in Seq(Byte)
  BY <1>1, SliceOfBytes DEF BodyAt
<1> DEFINE body == BodyAt(at)
           size == PaddingSize(at)
<1>3. Len(body) \in Nat
  BY <1>2, BytesAreNumbers
<1>4. size \in 0 .. Len(body)
  <2>1. PaddingFits(at) => Last(body) \in 1 .. Len(body)
    BY DEF PaddingFits
  <2>2. size = IF PaddingFlag(at) /\ PaddingFits(at) THEN Last(body) ELSE 0
    BY DEF PaddingSize
  <2> HIDE DEF body, size
  <2> QED BY <1>3, <2>1, <2>2
<1>5. SubSeq(body, 0 + 1, Len(body) - size) \in Seq(Byte)
  <2> HIDE DEF body, size
  <2>1. Len(body) - size \in Nat /\ Len(body) - size =< Len(body)
    BY <1>3, <1>4
  <2> QED BY <1>2, <2>1, SliceOfBytes DEF body
<1>6. 0 + 1 = 1
  OBVIOUS
<1> QED BY <1>2, <1>4, <1>5, <1>6

LEMMA ParsedIsParsable ==
  ASSUME datagram \in Seq(Byte), NEW at \in Nat, WholeAt(at),
         ParsedAt(at) # Malformed
  PROVE  \E p \in Parsable : ParsedAt(at) = <<p>>
<1> DEFINE content == SubSeq(BodyAt(at), 1, Len(BodyAt(at)) - PaddingSize(at))
           type    == ByteAt(at + 1)
           count   == ByteAt(at) % 32
           padding == PaddingSize(at)
<1>1. content \in Seq(Byte) /\ padding \in Nat
  BY BodyFacts, BytesAreNumbers
<1>2. type \in Nat /\ count \in Nat
  <2>1. ByteAt(at + 1) \in 0 .. 255 /\ ByteAt(at) \in 0 .. 255
    BY HeaderFacts DEF WholeAt
  <2>2. \A b \in 0 .. 255 : b \in Nat /\ b % 32 \in Nat
    OBVIOUS
  <2> QED BY Zenon, <2>1, <2>2
<1>3. ParsedAt(at) = ParseOne(type, count, content, padding)
  BY DEF ParsedAt
<1> HIDE DEF content, type, count, padding
<1>4. ParsedAt(at) = <<ParseOne(type, count, content, padding)[1]>>
  BY <1>3, ParsersReturn
<1> DEFINE in == [type |-> type, count |-> count, content |-> content,
                  padding |-> padding]
<1>5. in \in Input
  BY <1>1, <1>2 DEF Input
<1>6. ParseOne(in.type, in.count, in.content, in.padding)[1] \in Parsable
  <2> HIDE DEF in
  <2> QED BY <1>5 DEF Parsable
<1> QED BY <1>4, <1>6

LEMMA Modes == "strict" \in Mode /\ "lenient" \in Mode
BY DEF Mode

LEMMA ParserFields ==
  ASSUME TypeOK, NEW m \in Mode
  PROVE  /\ parser[m] \in ParserType
         /\ parser[m].status \in {"parsing", "done", "raised"}
         /\ parser[m].offset \in Nat /\ Len(datagram) \in Nat
         /\ parser[m].offset =< Len(datagram)
         /\ parser[m].packets \in Seq(Parsable)
         /\ Len(parser[m].packets) \in Nat
<1>1. parser[m] \in ParserType
  BY DEF TypeOK
<1> QED BY <1>1, LenProperties DEF TypeOK, ParserType

(* What a turn of the loop does.                                             *)
LEMMA TurnStep ==
  ASSUME TypeOK, NEW m \in Mode, Parse(m)
  PROVE  Turn(m)
<1> DEFINE at == parser[m].offset
<1>1. /\ parser[m] \in ParserType
      /\ at \in Nat /\ at =< Len(datagram) /\ Len(datagram) \in Nat
      /\ datagram \in Seq(Byte)
      /\ parser \in [Mode -> ParserType]
  BY ParserFields DEF TypeOK
<1>2. Running(m) /\ UNCHANGED <<sent, phase, datagram, damage>>
  BY DEF Parse, BufferTooShort, EndOfBuffer, TrailingBytes, InvalidVersion,
         LengthMismatch, InvalidPadding, MalformedPacket, ParsePacket,
         HeaderAccepted, PacketAvailable, PaddingAccepted
<1>3. Remaining(m) = Len(datagram) - at /\ HeaderSize = 4
  BY DEF Remaining, HeaderSize
<1>4. ASSUME NEW status \in {"done", "raised"}, End(m, status)
      PROVE  /\ parser'[m] \in ParserType
             /\ parser' = [parser EXCEPT ![m] = parser'[m]]
             /\ parser'[m].status = status
             /\ parser'[m].offset = at
             /\ parser'[m].packets = parser[m].packets
  BY <1>1, <1>4 DEF End, ParserType
<1>5. ASSUME Refuse(m)
      PROVE  End(m, Refused(m)) /\ Refused(m) \in {"done", "raised"}
  BY <1>5 DEF Refuse, Refused
<1>6. ASSUME Stops(m), NEW status \in {"done", "raised"}, End(m, status)
      PROVE  Turn(m)
  BY <1>1, <1>2, <1>4, <1>6 DEF Turn
<1>7. CASE BufferTooShort(m)
  <2>1. End(m, "raised") /\ Len(datagram) < HeaderSize
    BY <1>7 DEF BufferTooShort
  <2>2. Stops(m)
    BY <1>4, <2>1 DEF Stops
  <2> QED BY <1>6, <2>1, <2>2
<1>8. CASE EndOfBuffer(m)
  <2>1. End(m, "done") /\ HeaderSize =< Len(datagram) /\ at = Len(datagram)
    BY <1>1, <1>3, <1>8 DEF EndOfBuffer
  <2>2. Stops(m)
    BY <1>4, <2>1 DEF Stops
  <2> QED BY <1>6, <2>1, <2>2
<1>9. CASE TrailingBytes(m)
  <2>1. /\ Refuse(m) /\ HeaderSize =< Len(datagram) /\ at # Len(datagram)
        /\ ~(at + HeaderSize =< Len(datagram))
    BY <1>1, <1>3, <1>9 DEF TrailingBytes
  <2>2. Stops(m)
    BY <1>4, <1>5, <2>1 DEF Stops, WholeAt
  <2> QED BY <1>5, <1>6, <2>1, <2>2
<1>10. CASE InvalidVersion(m)
  <2>1. /\ End(m, "raised") /\ m = "strict" /\ Version(at) # 2
        /\ at + HeaderSize =< Len(datagram)
    BY <1>1, <1>3, <1>10 DEF InvalidVersion
  <2>2. Stops(m)
    BY <1>4, <2>1 DEF Stops, Improper
  <2> QED BY <1>6, <2>1, <2>2
<1>11. CASE LengthMismatch(m)
  <2>1. /\ Refuse(m) /\ PacketEnd(at) > Len(datagram)
        /\ at + HeaderSize =< Len(datagram)
    BY <1>1, <1>3, <1>11 DEF LengthMismatch, HeaderAccepted
  <2>2. PacketEnd(at) \in Nat
    BY <1>1, <2>1, HeaderFacts
  <2>3. HeaderSize =< Len(datagram) /\ at # Len(datagram) /\ ~WholeAt(at)
    BY <1>1, <1>3, <2>1, <2>2 DEF WholeAt
  <2>4. Stops(m)
    BY <1>4, <1>5, <2>1, <2>3 DEF Stops
  <2> QED BY <1>5, <1>6, <2>1, <2>4
<1>12. ASSUME PacketAvailable(m)
       PROVE  WholeAt(at)
  BY <1>1, <1>3, <1>12 DEF PacketAvailable, HeaderAccepted, WholeAt
<1>13. CASE InvalidPadding(m)
  <2>1. /\ End(m, "raised") /\ m = "strict" /\ Improper(at)
        /\ at + HeaderSize =< Len(datagram)
    BY <1>12, <1>13 DEF InvalidPadding, Improper, WholeAt
  <2>2. Stops(m)
    BY <1>4, <2>1 DEF Stops
  <2> QED BY <1>6, <2>1, <2>2
<1>14. CASE MalformedPacket(m)
  <2>1. WholeAt(at) /\ ParsedAt(at) = Malformed
    BY <1>12, <1>14 DEF MalformedPacket, PaddingAccepted
  <2>2. CASE m = "strict"
    <3>1. /\ End(m, "raised") /\ Improper(at)
          /\ at + HeaderSize =< Len(datagram)
      BY <1>14, <2>1, <2>2 DEF MalformedPacket, Improper, WholeAt
    <3>2. Stops(m)
      BY <1>4, <2>2, <3>1 DEF Stops
    <3> QED BY <1>6, <3>1, <3>2
  <2>3. CASE m # "strict"
    <3>1. parser' = [parser EXCEPT ![m].offset = PacketEnd(at)]
      BY <1>14, <2>3 DEF MalformedPacket
    <3>2. PacketEnd(at) \in Nat /\ PacketEnd(at) =< Len(datagram)
      BY <1>1, <2>1, HeaderFacts DEF WholeAt
    <3>3. /\ parser'[m] \in ParserType
          /\ parser' = [parser EXCEPT ![m] = parser'[m]]
          /\ parser'[m].status = parser[m].status
          /\ parser'[m].offset = PacketEnd(at)
          /\ parser'[m].packets = parser[m].packets
      BY <1>1, <3>1, <3>2 DEF ParserType
    <3>4. Skips(m)
      BY <1>2, <2>1, <2>3, <3>3 DEF Skips, Running, Mode
    <3> QED BY <1>2, <3>2, <3>3, <3>4 DEF Turn
  <2> QED BY <2>2, <2>3
<1>15. CASE ParsePacket(m)
  <2>1. /\ WholeAt(at) /\ ParsedAt(at) # Malformed
        /\ m = "strict" => ~Improper(at)
    BY <1>12, <1>15 DEF ParsePacket, PaddingAccepted, PacketAvailable,
                        HeaderAccepted, Improper
  <2>2. PICK p \in Parsable : ParsedAt(at) = <<p>>
    BY <1>1, <2>1, ParsedIsParsable
  <2>3. PacketEnd(at) \in Nat /\ PacketEnd(at) =< Len(datagram)
    BY <1>1, <2>1, HeaderFacts DEF WholeAt
  <2>4. parser[m].packets \in Seq(Parsable)
    BY <1>1 DEF ParserType
  <2>5. /\ parser[m].packets \o <<p>> = Append(parser[m].packets, p)
        /\ Append(parser[m].packets, p) \in Seq(Parsable)
    BY <2>2, <2>4, AppendIsConcat, AppendProperties
  <2>6. parser' = [parser EXCEPT ![m].packets = Append(@, p),
                                 ![m].offset  = PacketEnd(@)]
    BY <1>15, <2>2, <2>5 DEF ParsePacket
  <2>7. /\ parser'[m] \in ParserType
        /\ parser' = [parser EXCEPT ![m] = parser'[m]]
        /\ parser'[m].status = parser[m].status
        /\ parser'[m].offset = PacketEnd(at)
        /\ parser'[m].packets = Append(parser[m].packets, p)
    BY <1>1, <2>3, <2>5, <2>6 DEF ParserType
  <2>8. Takes(m)
    BY <1>2, <2>1, <2>2, <2>7 DEF Takes, Running
  <2> QED BY <1>2, <2>3, <2>7, <2>8 DEF Turn
<1> QED
  BY <1>7, <1>8, <1>9, <1>10, <1>11, <1>13, <1>14, <1>15 DEF Parse

----------------------------------------------------------------------------
(* What the builder makes of a packet.                                       *)

LEMMA ZerosAreBytes ==
  ASSUME NEW n \in Nat
  PROVE  Zeros(n) \in Seq(Byte) /\ Len(Zeros(n)) = n
<1>1. \A i \in 1 .. n : 0 \in Byte
  BY DEF Byte
<1> QED BY <1>1, IsASeq DEF Zeros

LEMMA PaddingFacts ==
  ASSUME NEW n \in Byte
  PROVE  /\ n \in 0 .. 255
         /\ Padding(n) \in Seq(Byte) /\ Len(Padding(n)) = n
         /\ n # 0 => Padding(n)[n] = n
<1>1. n \in 0 .. 255
  BY DEF Byte
<1>2. CASE n = 0
  <2>1. <<>> \in Seq(Byte) /\ Len(<<>>) = 0
    OBVIOUS
  <2> QED BY <1>1, <1>2, <2>1 DEF Padding
<1>3. CASE n # 0
  <2>1. n - 1 \in Nat /\ (n - 1) + 1 = n
    BY <1>1, <1>3
  <2>2. Zeros(n - 1) \in Seq(Byte) /\ Len(Zeros(n - 1)) = n - 1
    BY <2>1, ZerosAreBytes
  <2>3. <<n>> \in Seq(Byte) /\ Len(<<n>>) = 1 /\ <<n>>[1] = n
    OBVIOUS
  <2>4. /\ Zeros(n - 1) \o <<n>> \in Seq(Byte)
        /\ Len(Zeros(n - 1) \o <<n>>) = (n - 1) + 1
        /\ (Zeros(n - 1) \o <<n>>)[(n - 1) + 1] = n
    <3> DEFINE z == Zeros(n - 1)
               u == <<n>>
    <3>1. 1 \in 1 .. Len(u)
      BY <2>3
    <3>2. z \in Seq(Byte) /\ u \in Seq(Byte) /\ Len(u) = 1 /\ u[1] = n
      BY <2>2, <2>3
    <3>3. Len(z) = n - 1
      BY <2>2
    <3> HIDE DEF z, u
    <3>4. /\ z \o u \in Seq(Byte) /\ Len(z \o u) = Len(z) + Len(u)
          /\ (z \o u)[Len(z) + 1] = u[1]
      BY <3>1, <3>2, ConcatenationOfBytes
    <3> QED BY <3>2, <3>3, <3>4 DEF z, u
  <2> QED BY <1>1, <1>3, <2>1, <2>4 DEF Padding
<1> QED BY <1>2, <1>3

LEMMA WholeWords ==
  ASSUME NEW n \in Nat, n % 4 = 0
  PROVE  n \div 4 \in Nat /\ n = 4 * (n \div 4)
OBVIOUS

LEMMA HalvesOfWords ==
  ASSUME NEW n \in Nat, n =< (256 * 255) + 255
  PROVE  /\ n \div 256 \in 0 .. 255 /\ n % 256 \in 0 .. 255
         /\ 4 + 4 * n = 4 * (256 * (n \div 256) + (n % 256) + 1)
OBVIOUS

----------------------------------------------------------------------------
LEMMA SliceAt ==
  ASSUME NEW s \in Seq(Byte), NEW u \in Seq(Byte), NEW k \in Nat, Lies(s, k, u),
         NEW a, NEW b, a = k + 1, b = k + Len(u)
  PROVE  SubSeq(s, a, b) = u
BY LiesSlice

LEMMA JoinedThree ==
  ASSUME NEW a \in Seq(Byte), NEW b \in Seq(Byte), NEW c \in Seq(Byte)
  PROVE  LET s == a \o b \o c IN
         /\ s \in Seq(Byte)
         /\ Len(s) = Len(a) + Len(b) + Len(c)
         /\ Lies(s, 0, a)
         /\ Lies(s, Len(a), b)
         /\ Lies(s, Len(a) + Len(b), c)
<1> DEFINE ab == a \o b
           s  == ab \o c
<1>1. /\ ab \in Seq(Byte) /\ Len(ab) = Len(a) + Len(b)
      /\ Lies(ab, 0, a) /\ Lies(ab, Len(a), b)
  BY JoinedLie
<1>2. Len(a) \in Nat /\ Len(b) \in Nat /\ Len(c) \in Nat
  BY LenProperties
<1> HIDE DEF ab
<1>3. /\ s \in Seq(Byte) /\ Len(s) = Len(ab) + Len(c) /\ Lies(s, Len(ab), c)
  BY <1>1, JoinedLie
<1>4. Lies(s, 0, a) /\ Lies(s, Len(a), b)
  BY <1>1, <1>2, LiesInFront
<1> HIDE DEF s
<1>5. /\ s \in Seq(Byte) /\ Len(s) = Len(a) + Len(b) + Len(c)
      /\ Lies(s, 0, a) /\ Lies(s, Len(a), b) /\ Lies(s, Len(a) + Len(b), c)
  BY <1>1, <1>3, <1>4, Zenon
<1> QED BY <1>5 DEF s, ab

LEMMA JoinedFour ==
  ASSUME NEW a \in Seq(Byte), NEW b \in Seq(Byte), NEW c \in Seq(Byte), NEW d \in Seq(Byte)
  PROVE  LET s == a \o b \o c \o d IN
         /\ s \in Seq(Byte)
         /\ Len(s) = Len(a) + Len(b) + Len(c) + Len(d)
         /\ Lies(s, 0, a)
         /\ Lies(s, Len(a), b)
         /\ Lies(s, Len(a) + Len(b), c)
         /\ Lies(s, Len(a) + Len(b) + Len(c), d)
<1> DEFINE abc == a \o b \o c
           s   == abc \o d
<1>1. /\ abc \in Seq(Byte) /\ Len(abc) = Len(a) + Len(b) + Len(c)
      /\ Lies(abc, 0, a) /\ Lies(abc, Len(a), b) /\ Lies(abc, Len(a) + Len(b), c)
  BY JoinedThree
<1>2. Len(a) \in Nat /\ Len(b) \in Nat /\ Len(c) \in Nat /\ Len(a) + Len(b) \in Nat
  BY LenProperties
<1> HIDE DEF abc
<1>3. /\ s \in Seq(Byte) /\ Len(s) = Len(abc) + Len(d) /\ Lies(s, Len(abc), d)
  BY <1>1, JoinedLie
<1>4. Lies(s, 0, a) /\ Lies(s, Len(a), b) /\ Lies(s, Len(a) + Len(b), c)
  BY <1>1, <1>2, LiesInFront
<1> HIDE DEF s
<1>5. /\ s \in Seq(Byte) /\ Len(s) = Len(a) + Len(b) + Len(c) + Len(d)
      /\ Lies(s, 0, a) /\ Lies(s, Len(a), b) /\ Lies(s, Len(a) + Len(b), c)
      /\ Lies(s, Len(a) + Len(b) + Len(c), d)
  BY <1>1, <1>3, <1>4, Zenon
<1> QED BY <1>5 DEF s, abc

(* What is left of a sequence from where something lies, or before that.     *)
LEMMA LiesFrom ==
  ASSUME NEW s \in Seq(Byte), NEW u \in Seq(Byte), NEW j \in Nat, NEW k \in Nat,
         Lies(s, j + k, u), j =< Len(s)
  PROVE  /\ From(s, j) \in Seq(Byte)
         /\ Len(From(s, j)) = Len(s) - j
         /\ Lies(From(s, j), k, u)
<1> DEFINE rest == From(s, j)
<1>1. Len(s) \in Nat /\ Len(u) \in Nat
  BY LenProperties
<1>2. /\ rest \in Seq(Byte)
      /\ Len(rest) = IF Len(s) =< j THEN 0 ELSE Len(s) - j
      /\ \A i \in 1 .. Len(s) - j : rest[i] = s[j + i]
  BY <1>1, SliceOfBytes DEF From
<1>3. Len(rest) = Len(s) - j
  BY <1>1, <1>2
<1>4. (j + k) + Len(u) =< Len(s) /\ \A i \in 1 .. Len(u) : s[(j + k) + i] = u[i]
  BY DEF Lies
<1> HIDE DEF rest
<1>5. ASSUME NEW i \in 1 .. Len(u)
      PROVE  rest[k + i] = u[i]
  <2>1. k + i \in 1 .. Len(s) - j /\ j + (k + i) = (j + k) + i
    BY <1>1, <1>4
  <2> QED BY <1>2, <1>4, <2>1
<1>6. k + Len(u) =< Len(rest)
  BY <1>1, <1>3, <1>4
<1> QED BY <1>2, <1>3, <1>5, <1>6 DEF Lies, rest

LEMMA FieldIsBytes ==
  ASSUME NEW n \in Nat, NEW f \in [1 .. n -> Byte]
  PROVE  f \in Seq(Byte) /\ Len(f) = n
OBVIOUS

----------------------------------------------------------------------------
(* A loss count is read back as it was given.                                *)
LEMMA ThreeBytes ==
  ASSUME NEW u \in Nat, u < 256 * 256 * 256
  PROVE  /\ u \div (256 * 256) \in 0 .. 255
         /\ (u \div 256) % 256 \in 0 .. 255
         /\ u % 256 \in 0 .. 255
         /\ (u \div (256 * 256)) * (256 * 256) + ((u \div 256) % 256) * 256 + (u % 256) = u
OBVIOUS

LEMMA LossComesBack ==
  ASSUME NEW n \in Int, n >= -Half24, n < Half24
  PROVE  /\ Unsigned24(n) \in Seq(Byte)
         /\ Len(Unsigned24(n)) = 3
         /\ Signed24(Unsigned24(n)) = n
<1> DEFINE u == n % (2 * Half24)
<1>1. u = IF n >= 0 THEN n ELSE n + 2 * Half24
  BY DEF Half24
<1>2. /\ u \in Nat /\ u < 256 * 256 * 256
      /\ IF u >= Half24 THEN u - 2 * Half24 = n ELSE u = n
  BY <1>1 DEF Half24
<1>3. Unsigned24(n) = <<u \div (256 * 256), (u \div 256) % 256, u % 256>>
  BY DEF Unsigned24
<1> HIDE DEF u
<1> DEFINE hi  == u \div (256 * 256)
           mid == (u \div 256) % 256
           lo  == u % 256
<1>4. /\ hi \in Byte /\ mid \in Byte /\ lo \in Byte
      /\ hi * (256 * 256) + mid * 256 + lo = u
  BY <1>2, ThreeBytes DEF Byte
<1>5. Unsigned24(n) = <<hi, mid, lo>>
  BY <1>3
<1> HIDE DEF hi, mid, lo
<1>6. Unsigned24(n) \in Seq(Byte) /\ Len(Unsigned24(n)) = 3
  BY <1>4, <1>5
<1>7. Signed24(<<hi, mid, lo>>) = IF u >= Half24 THEN u - 2 * Half24 ELSE u
  BY <1>4 DEF Signed24
<1> QED BY <1>2, <1>5, <1>6, <1>7

(* The 24 bytes of a report block.                                           *)
LEMMA BlockLayout ==
  ASSUME NEW b \in BlockType, BlockFits(b)
  PROVE  /\ BlockBytes(b) \in Seq(Byte)
         /\ Len(BlockBytes(b)) = 24
         /\ b.ssrc \in Seq(Byte) /\ Len(b.ssrc) = 4
         /\ b.rest \in Seq(Byte) /\ Len(b.rest) = 16
         /\ Lies(BlockBytes(b), 0, b.ssrc)
         /\ Lies(BlockBytes(b), 4, <<b.fraction_lost>>)
         /\ Lies(BlockBytes(b), 5, Unsigned24(b.cumulative_lost))
         /\ Lies(BlockBytes(b), 8, b.rest)
<1> DEFINE ssrc == b.ssrc
           loss == <<b.fraction_lost>>
           lost == Unsigned24(b.cumulative_lost)
           rest == b.rest
<1>1. ssrc \in [1 .. 4 -> Byte] /\ rest \in [1 .. 16 -> Byte]
  <2>1. ReportBlockSize - 8 = 16
    BY DEF ReportBlockSize
  <2> QED BY <2>1 DEF BlockType, Field32
<1>2. /\ ssrc \in Seq(Byte) /\ Len(ssrc) = 4 /\ rest \in Seq(Byte) /\ Len(rest) = 16
  BY <1>1, FieldIsBytes
<1>3. loss \in Seq(Byte) /\ Len(loss) = 1
  BY DEF BlockFits
<1>4. lost \in Seq(Byte) /\ Len(lost) = 3
  <2>1. b.cumulative_lost \in Int /\ b.cumulative_lost >= -Half24 /\ b.cumulative_lost < Half24
    <3>1. Half24 \in Int
      BY DEF Half24
    <3>2. b.cumulative_lost \in -Half24 .. Half24 - 1 /\ b.cumulative_lost \in Int
      BY DEF BlockFits, BlockType
    <3> QED BY <3>1, <3>2
  <2> QED BY <2>1, LossComesBack
<1>5. BlockBytes(b) = ssrc \o loss \o lost \o rest
  BY DEF BlockBytes
<1> HIDE DEF ssrc, loss, lost, rest
<1>6. LET s == ssrc \o loss \o lost \o rest IN
      /\ s \in Seq(Byte)
      /\ Len(s) = Len(ssrc) + Len(loss) + Len(lost) + Len(rest)
      /\ Lies(s, 0, ssrc)
      /\ Lies(s, Len(ssrc), loss)
      /\ Lies(s, Len(ssrc) + Len(loss), lost)
      /\ Lies(s, Len(ssrc) + Len(loss) + Len(lost), rest)
  BY <1>2, <1>3, <1>4, JoinedFour
<1>7. /\ Len(ssrc) + Len(loss) = 5 /\ Len(ssrc) + Len(loss) + Len(lost) = 8
      /\ Len(ssrc) + Len(loss) + Len(lost) + Len(rest) = 24
  BY <1>2, <1>3, <1>4
<1>8. /\ BlockBytes(b) \in Seq(Byte)
      /\ Len(BlockBytes(b)) = 24
      /\ Lies(BlockBytes(b), 0, ssrc)
      /\ Lies(BlockBytes(b), 4, loss)
      /\ Lies(BlockBytes(b), 5, lost)
      /\ Lies(BlockBytes(b), 8, rest)
  BY Zenon, <1>2, <1>5, <1>6, <1>7
<1> QED BY <1>2, <1>8 DEF ssrc, loss, lost, rest

(* Blocks laid one after the other are read back as they were given.         *)
LEMMA BlocksComeBack ==
  ASSUME NEW blocks \in Seq(BlockType), \A i \in DOMAIN blocks : BlockFits(blocks[i]),
         NEW data \in Seq(Byte),
         Lies(data, 0, Each(BlockBytes, blocks))
  PROVE  ReportBlocks(data, Len(blocks)) = blocks
<1> DEFINE parts == [i \in DOMAIN blocks |-> BlockBytes(blocks[i])]
           m == Len(blocks)
<1>1. m \in Nat /\ DOMAIN blocks = 1 .. m /\ blocks \in [1 .. m -> BlockType]
  BY LenProperties
<1>2. ASSUME NEW i \in 1 .. m
      PROVE  /\ blocks[i] \in BlockType /\ BlockFits(blocks[i])
             /\ BlockBytes(blocks[i]) \in Seq(Byte) /\ Len(BlockBytes(blocks[i])) = 24
  <2>1. blocks[i] \in BlockType /\ BlockFits(blocks[i])
    BY <1>1
  <2> QED BY <2>1, BlockLayout
<1>3. parts = [i \in 1 .. m |-> BlockBytes(blocks[i])]
  BY <1>1
<1>4. /\ parts \in Seq(Seq(Byte)) /\ Len(parts) = m
      /\ \A i \in 1 .. m : parts[i] = BlockBytes(blocks[i])
  BY <1>1, <1>2, <1>3
<1>5. Each(BlockBytes, blocks) = FlattenSeq(parts)
  BY Zenon DEF Each
<1> HIDE DEF m, parts
<1>6. /\ FlattenSeq(parts) \in Seq(Byte)
      /\ \A i \in 1 .. m : /\ (i - 1) * 24 \in Nat
                           /\ Lies(FlattenSeq(parts), (i - 1) * 24, BlockBytes(blocks[i]))
  <2>1. \A i \in 1 .. Len(parts) : Len(parts[i]) = 24
    BY <1>2, <1>4
  <2> QED BY <1>4, <2>1, FlattenedEqual
<1>7. ASSUME NEW i \in 1 .. m
      PROVE  LET at == (i - 1) * ReportBlockSize IN
             [ssrc            |-> Field(data, at),
              fraction_lost   |-> data[at + 5],
              cumulative_lost |-> Signed24(SubSeq(data, at + 6, at + 8)),
              rest            |-> SubSeq(data, at + 9, at + 24)] = blocks[i]
  <2> DEFINE at == (i - 1) * ReportBlockSize
             b  == blocks[i]
             w  == BlockBytes(b)
             lost == Unsigned24(b.cumulative_lost)
  <2>1. at \in Nat /\ Lies(FlattenSeq(parts), at, w)
    BY <1>6 DEF ReportBlockSize
  <2>2. w \in Seq(Byte)
    BY <1>2
  <2>3. b \in BlockType /\ BlockFits(b)
    BY <1>2
  <2>4. /\ b.ssrc \in Seq(Byte) /\ Len(b.ssrc) = 4
        /\ b.rest \in Seq(Byte) /\ Len(b.rest) = 16
        /\ Lies(w, 0, b.ssrc) /\ Lies(w, 4, <<b.fraction_lost>>)
        /\ Lies(w, 5, lost) /\ Lies(w, 8, b.rest)
    BY <2>3, BlockLayout
  <2>5. lost \in Seq(Byte) /\ Len(lost) = 3 /\ Signed24(lost) = b.cumulative_lost
    <3>1. Half24 \in Int
      BY DEF Half24
    <3>2. b.cumulative_lost \in -Half24 .. Half24 - 1 /\ b.cumulative_lost \in Int
      BY <2>3 DEF BlockFits, BlockType
    <3> QED BY <3>1, <3>2, LossComesBack
  <2>6. <<b.fraction_lost>> \in Seq(Byte) /\ Len(<<b.fraction_lost>>) = 1
    BY <2>3 DEF BlockFits
  <2>7. /\ b.ssrc = b.ssrc
        /\ b = [ssrc |-> b.ssrc, fraction_lost |-> b.fraction_lost,
                cumulative_lost |-> b.cumulative_lost, rest |-> b.rest]
    BY <2>3 DEF BlockType
  <2> HIDE DEF at, b, w, lost
  <2>8. Lies(data, at, w)
    <3>1. Lies(data, 0 + at, w)
      BY <1>5, <1>6, <2>1, <2>2, LiesWithin
    <3> QED BY <2>1, <3>1
  <2>9. /\ Lies(data, at + 0, b.ssrc) /\ Lies(data, at + 4, <<b.fraction_lost>>)
        /\ Lies(data, at + 5, lost) /\ Lies(data, at + 8, b.rest)
    BY <2>1, <2>2, <2>4, <2>5, <2>6, <2>8, LiesWithin
  <2>10. Field(data, at) = b.ssrc
    <3>1. at + 0 \in Nat /\ at + 1 = (at + 0) + 1 /\ at + 4 = (at + 0) + Len(b.ssrc)
      BY <2>1, <2>4
    <3>2. SubSeq(data, (at + 0) + 1, (at + 0) + Len(b.ssrc)) = b.ssrc
      BY <2>4, <2>9, <3>1, LiesSlice
    <3> QED BY <3>1, <3>2, Zenon DEF Field
  <2>11. data[at + 5] = b.fraction_lost
    <3>1. (at + 4) + 1 = at + 5 /\ 1 \in 1 .. Len(<<b.fraction_lost>>)
          /\ <<b.fraction_lost>>[1] = b.fraction_lost
      BY <2>1, <2>6
    <3> QED BY <2>9, <3>1, Zenon DEF Lies
  <2>12. SubSeq(data, at + 6, at + 8) = lost
    <3>1. at + 5 \in Nat /\ at + 6 = (at + 5) + 1 /\ at + 8 = (at + 5) + Len(lost)
      BY <2>1, <2>5
    <3>2. SubSeq(data, (at + 5) + 1, (at + 5) + Len(lost)) = lost
      BY <2>5, <2>9, <3>1, LiesSlice
    <3> QED BY <3>1, <3>2, Zenon
  <2>13. SubSeq(data, at + 9, at + 24) = b.rest
    <3>1. at + 8 \in Nat /\ at + 9 = (at + 8) + 1 /\ at + 24 = (at + 8) + Len(b.rest)
      BY <2>1, <2>4
    <3>2. SubSeq(data, (at + 8) + 1, (at + 8) + Len(b.rest)) = b.rest
      BY <2>4, <2>9, <3>1, LiesSlice
    <3> QED BY <3>1, <3>2, Zenon
  <2>14. [ssrc            |-> Field(data, at),
          fraction_lost   |-> data[at + 5],
          cumulative_lost |-> Signed24(SubSeq(data, at + 6, at + 8)),
          rest            |-> SubSeq(data, at + 9, at + 24)] = b
    BY <2>5, <2>7, <2>10, <2>11, <2>12, <2>13, Zenon
  <2> QED BY <2>14 DEF at, b
<1>8. blocks = [i \in 1 .. m |-> blocks[i]]
  BY <1>1 DEF m
<1>9. ReportBlocks(data, m) = [i \in 1 .. m |-> blocks[i]]
  BY <1>7, Zenon DEF ReportBlocks
<1> QED BY <1>8, <1>9 DEF m

(* The blocks make one sequence of bytes.                                    *)
LEMMA BlocksAreBytes ==
  ASSUME NEW blocks \in Seq(BlockType), \A i \in DOMAIN blocks : BlockFits(blocks[i])
  PROVE  /\ Each(BlockBytes, blocks) \in Seq(Byte)
         /\ Len(Each(BlockBytes, blocks)) = Len(blocks) * 24
<1> DEFINE parts == [i \in DOMAIN blocks |-> BlockBytes(blocks[i])]
           m == Len(blocks)
<1>1. m \in Nat /\ DOMAIN blocks = 1 .. m /\ blocks \in [1 .. m -> BlockType]
  BY LenProperties
<1>2. ASSUME NEW i \in 1 .. m
      PROVE  BlockBytes(blocks[i]) \in Seq(Byte) /\ Len(BlockBytes(blocks[i])) = 24
  <2>1. blocks[i] \in BlockType /\ BlockFits(blocks[i])
    BY <1>1
  <2> QED BY <2>1, BlockLayout
<1>3. parts = [i \in 1 .. m |-> BlockBytes(blocks[i])]
  BY <1>1
<1>4. /\ parts \in Seq(Seq(Byte)) /\ Len(parts) = m
      /\ \A i \in 1 .. m : Len(parts[i]) = 24
  BY <1>1, <1>2, <1>3
<1>5. Each(BlockBytes, blocks) = FlattenSeq(parts)
  BY Zenon DEF Each
<1> HIDE DEF m, parts
<1> QED BY <1>4, <1>5, FlattenedEqual DEF m

LEMMA FillBytes ==
  ASSUME NEW n \in Nat
  PROVE  /\ Fill(n) \in Seq(Byte) /\ Len(Fill(n)) = (-n) % 4
         /\ Len(Fill(n)) \in 0 .. 3 /\ (n + Len(Fill(n))) % 4 = 0
<1>1. (-n) % 4 \in Nat /\ (-n) % 4 \in 0 .. 3 /\ (n + ((-n) % 4)) % 4 = 0
  OBVIOUS
<1>2. Zeros((-n) % 4) \in Seq(Byte) /\ Len(Zeros((-n) % 4)) = (-n) % 4
  BY <1>1, ZerosAreBytes
<1> QED BY <1>1, <1>2 DEF Fill

(* What a packet carries of its own lies in what its body parser is given.   *)
LEMMA Filled ==
  ASSUME NEW s \in Seq(Byte)
  PROVE  /\ s \o Fill(Len(s)) \in Seq(Byte)
         /\ Len(s \o Fill(Len(s))) = Len(s) + Len(Fill(Len(s)))
         /\ Len(s) =< Len(s \o Fill(Len(s)))
         /\ \A k \in Nat, u \in Seq(Byte) : Lies(s, k, u) => Lies(s \o Fill(Len(s)), k, u)
<1> DEFINE fill == Fill(Len(s))
<1>1. Len(s) \in Nat /\ fill \in Seq(Byte) /\ Len(fill) \in Nat
  BY LenProperties, FillBytes
<1> HIDE DEF fill
<1>2. s \o fill \in Seq(Byte) /\ Len(s \o fill) = Len(s) + Len(fill)
  BY <1>1, JoinedLie
<1>3. Len(s) =< Len(s \o fill)
  BY <1>1, <1>2
<1>4. \A k \in Nat, u \in Seq(Byte) : Lies(s, k, u) => Lies(s \o fill, k, u)
  BY <1>1, LiesInFront
<1> QED BY <1>2, <1>3, <1>4 DEF fill

TypeValues == /\ SR # RR /\ SR # SDES /\ SR # BYE /\ SR # APP
              /\ RR # SDES /\ RR # BYE /\ RR # APP
              /\ SDES # BYE /\ SDES # APP /\ BYE # APP

LEMMA TypesDiffer == TypeValues
BY DEF TypeValues, SR, RR, SDES, BYE, APP

(* The bytes of a packet, and the packet parsed from them.                   *)
Serializes(p) == Serialized(p) \in Seq(Byte)

Reparsed(p) ==
  LET s == Serialized(p)
  IN  ParseOne(p.type, Count(p), s \o Fill(Len(s)), p.padding_size)

LEMMA SenderReportsComeBack ==
  ASSUME NEW p \in SenderReport, Buildable(p)
  PROVE  Serializes(p) /\ Reparsed(p) = <<p>>
<1> DEFINE ssrc    == p.ssrc
           info    == p.sender_info
           blocks  == p.report_blocks
           each    == Each(BlockBytes, blocks)
           count   == Len(blocks)
           s       == ssrc \o info \o each
           content == s \o Fill(Len(s))
<1>1. /\ p.type = SR /\ ssrc \in [1 .. 4 -> Byte] /\ info \in [1 .. 20 -> Byte]
      /\ blocks \in Seq(BlockType)
      /\ p = [type |-> SR, ssrc |-> ssrc, sender_info |-> info,
              report_blocks |-> blocks, padding_size |-> p.padding_size]
  BY DEF SenderReport, Field32, InfoSize
<1>2. \A i \in DOMAIN blocks : BlockFits(blocks[i])
  <2>1. FieldsFit(p) = All(BlockFits, p.report_blocks)
    BY <1>1, TypesDiffer DEF FieldsFit, TypeValues
  <2> QED BY <2>1 DEF Buildable, All
<1>3. Serialized(p) = s /\ Count(p) = count
  BY <1>1, TypesDiffer DEF Serialized, Count, TypeValues
<1>4. /\ ssrc \in Seq(Byte) /\ Len(ssrc) = 4 /\ info \in Seq(Byte) /\ Len(info) = 20
      /\ each \in Seq(Byte) /\ Len(each) = count * 24 /\ count \in Nat
  BY <1>1, <1>2, FieldIsBytes, BlocksAreBytes, LenProperties
<1> HIDE DEF ssrc, info, each, count, blocks
<1>5. /\ s \in Seq(Byte) /\ Len(s) = Len(ssrc) + Len(info) + Len(each)
      /\ Lies(s, 0, ssrc) /\ Lies(s, Len(ssrc), info)
      /\ Lies(s, Len(ssrc) + Len(info), each)
  BY <1>4, JoinedThree
<1> HIDE DEF s
<1>6. /\ Lies(s, 4, info) /\ Lies(s, 24, each)
      /\ Len(s) = 24 + count * ReportBlockSize /\ 24 =< Len(s) /\ Len(s) \in Nat
  <2>1. Len(ssrc) + Len(info) = 24
    BY <1>4
  <2>2. count * ReportBlockSize = count * 24
    BY DEF ReportBlockSize
  <2>3. Len(each) \in Nat
    BY <1>4, LenProperties
  <2> QED BY <1>4, <1>5, <2>1, <2>2, <2>3
<1>7. /\ content \in Seq(Byte) /\ Len(s) =< Len(content) /\ Len(content) \in Nat
      /\ Lies(content, 0, ssrc) /\ Lies(content, 4, info) /\ Lies(content, 24, each)
  BY <1>4, <1>5, <1>6, Filled, LenProperties
<1> HIDE DEF content
<1>8. ~(Len(content) < 4 + InfoSize + count * ReportBlockSize) /\ 4 + InfoSize = 24
  <2>1. 4 + InfoSize = 24
    BY DEF InfoSize
  <2> QED BY <1>6, <1>7, <2>1
<1>9. Field(content, 0) = ssrc
  <2>1. SubSeq(content, 0 + 1, 0 + Len(ssrc)) = ssrc
    BY <1>4, <1>7, LiesSlice
  <2> QED BY <1>4, <2>1, Zenon DEF Field
<1>10. SubSeq(content, 5, 4 + InfoSize) = info
  <2>1. SubSeq(content, 4 + 1, 4 + Len(info)) = info
    BY <1>4, <1>7, LiesSlice
  <2>2. 4 + 1 = 5 /\ 4 + Len(info) = 24
    BY <1>4
  <2> QED BY <1>8, <2>1, <2>2, Zenon
<1>11. ReportBlocks(From(content, 4 + InfoSize), count) = blocks
  <2>1. 24 =< Len(content) /\ Lies(content, 24 + 0, each)
    BY <1>6, <1>7
  <2>2. From(content, 24) \in Seq(Byte) /\ Lies(From(content, 24), 0, each)
    BY <1>4, <1>7, <2>1, LiesFrom
  <2>3. ReportBlocks(From(content, 24), Len(blocks)) = blocks
    BY <1>1, <1>2, <2>2, BlocksComeBack DEF each, blocks
  <2> QED BY <1>8, <2>3, Zenon DEF count
<1>12. ParseSR(content, count, p.padding_size) = <<p>>
  BY <1>1, <1>8, <1>9, <1>10, <1>11, Zenon DEF ParseSR
<1>13. ParseOne(SR, count, content, p.padding_size) = ParseSR(content, count, p.padding_size)
  BY TypesDiffer DEF ParseOne, TypeValues
<1> QED BY <1>1, <1>3, <1>5, <1>12, <1>13, Zenon DEF Serializes, Reparsed, content

LEMMA ReceiverReportsComeBack ==
  ASSUME NEW p \in ReceiverReport, Buildable(p)
  PROVE  Serializes(p) /\ Reparsed(p) = <<p>>
<1> DEFINE ssrc    == p.ssrc
           blocks  == p.report_blocks
           each    == Each(BlockBytes, blocks)
           count   == Len(blocks)
           s       == ssrc \o each
           content == s \o Fill(Len(s))
<1>1. /\ p.type = RR /\ ssrc \in [1 .. 4 -> Byte] /\ blocks \in Seq(BlockType)
      /\ p = [type |-> RR, ssrc |-> ssrc, report_blocks |-> blocks,
              padding_size |-> p.padding_size]
  BY DEF ReceiverReport, Field32
<1>2. \A i \in DOMAIN blocks : BlockFits(blocks[i])
  <2>1. FieldsFit(p) = All(BlockFits, p.report_blocks)
    BY <1>1, TypesDiffer DEF FieldsFit, TypeValues
  <2> QED BY <2>1 DEF Buildable, All
<1>3. Serialized(p) = s /\ Count(p) = count
  BY <1>1, TypesDiffer DEF Serialized, Count, TypeValues
<1>4. /\ ssrc \in Seq(Byte) /\ Len(ssrc) = 4
      /\ each \in Seq(Byte) /\ Len(each) = count * 24 /\ count \in Nat
  BY <1>1, <1>2, FieldIsBytes, BlocksAreBytes, LenProperties
<1> HIDE DEF ssrc, each, count, blocks
<1>5. /\ s \in Seq(Byte) /\ Len(s) = Len(ssrc) + Len(each)
      /\ Lies(s, 0, ssrc) /\ Lies(s, Len(ssrc), each)
  BY <1>4, JoinedLie
<1> HIDE DEF s
<1>6. /\ Lies(s, 4, each)
      /\ Len(s) = 4 + count * ReportBlockSize /\ 4 =< Len(s) /\ Len(s) \in Nat
  <2>1. count * ReportBlockSize = count * 24
    BY DEF ReportBlockSize
  <2>2. Len(each) \in Nat
    BY <1>4, LenProperties
  <2> QED BY <1>4, <1>5, <2>1, <2>2
<1>7. /\ content \in Seq(Byte) /\ Len(s) =< Len(content) /\ Len(content) \in Nat
      /\ Lies(content, 0, ssrc) /\ Lies(content, 4, each)
  BY <1>4, <1>5, <1>6, Filled, LenProperties
<1> HIDE DEF content
<1>8. ~(Len(content) < 4 + count * ReportBlockSize)
  BY <1>6, <1>7
<1>9. Field(content, 0) = ssrc
  <2>1. SubSeq(content, 0 + 1, 0 + Len(ssrc)) = ssrc
    BY <1>4, <1>7, LiesSlice
  <2> QED BY <1>4, <2>1, Zenon DEF Field
<1>10. ReportBlocks(From(content, 4), count) = blocks
  <2>1. 4 =< Len(content) /\ Lies(content, 4 + 0, each)
    BY <1>6, <1>7
  <2>2. From(content, 4) \in Seq(Byte) /\ Lies(From(content, 4), 0, each)
    BY <1>4, <1>7, <2>1, LiesFrom
  <2>3. ReportBlocks(From(content, 4), Len(blocks)) = blocks
    BY <1>1, <1>2, <2>2, BlocksComeBack DEF each, blocks
  <2> QED BY <2>3, Zenon DEF count
<1>11. ParseRR(content, count, p.padding_size) = <<p>>
  BY <1>1, <1>8, <1>9, <1>10, Zenon DEF ParseRR
<1>12. ParseOne(RR, count, content, p.padding_size) = ParseRR(content, count, p.padding_size)
  BY TypesDiffer DEF ParseOne, TypeValues
<1> QED BY <1>1, <1>3, <1>5, <1>11, <1>12, Zenon DEF Serializes, Reparsed, content

(* What follows the sources of a BYE packet.                                 *)
ReasonBytes(reason) == Each(LAMBDA text : <<Len(text)>> \o text, reason)

LEMMA NoReason == ReasonBytes(<<>>) = <<>>
<1>1. [i \in DOMAIN <<>> |-> <<Len(<<>>[i])>> \o <<>>[i]] = <<>>
  OBVIOUS
<1>2. ReasonBytes(<<>>) = FlattenSeq([i \in DOMAIN <<>> |-> <<Len(<<>>[i])>> \o <<>>[i]])
  BY DEF ReasonBytes, Each
<1>3. Len(<<>>) = 0
  OBVIOUS
<1>4. FlattenSeq(<<>>) = <<>>
  BY <1>3, Zenon DEF FlattenSeq
<1> QED BY <1>1, <1>2, <1>4, Zenon

LEMMA OneReason ==
  ASSUME NEW text \in Seq(Byte), Len(text) =< 255
  PROVE  /\ ReasonBytes(<<text>>) \in Seq(Byte)
         /\ Len(ReasonBytes(<<text>>)) = 1 + Len(text)
         /\ Lies(ReasonBytes(<<text>>), 0, <<Len(text)>>)
         /\ Lies(ReasonBytes(<<text>>), 1, text)
<1> DEFINE size == <<Len(text)>>
           part == size \o text
           s == [i \in 1 .. 1 |-> part]
<1>1. Len(text) \in Nat /\ Len(text) \in Byte
  <2> DEFINE n == Len(text)
  <2>1. n \in Nat /\ n =< 255
    BY LenProperties
  <2> HIDE DEF n
  <2>2. n \in Byte
    BY <2>1 DEF Byte
  <2> QED BY <2>1, <2>2 DEF n
<1>2. size \in Seq(Byte) /\ Len(size) = 1
  BY <1>1
<1>3. part \in Seq(Byte) /\ Len(part) = Len(size) + Len(text)
      /\ Lies(part, 0, size) /\ Lies(part, Len(size), text)
  BY <1>2, JoinedLie
<1>4. ReasonBytes(<<text>>) = FlattenSeq(s)
  <2>1. DOMAIN <<text>> = 1 .. 1 /\ \A i \in 1 .. 1 : <<text>>[i] = text
    OBVIOUS
  <2>2. [i \in DOMAIN <<text>> |-> <<Len(<<text>>[i])>> \o <<text>>[i]] = s
    BY <2>1
  <2>3. ReasonBytes(<<text>>)
          = FlattenSeq([i \in DOMAIN <<text>> |-> <<Len(<<text>>[i])>> \o <<text>>[i]])
    BY DEF ReasonBytes, Each
  <2> QED BY <2>2, <2>3, Zenon
<1> HIDE DEF part
<1>5. /\ s \in Seq(Seq(Byte)) /\ Len(s) = 1 /\ s[1] = part
      /\ \A i \in 1 .. Len(s) : Len(s[i]) = Len(part)
  BY <1>3
<1>6. Len(part) \in Nat
  BY <1>3, LenProperties
<1> HIDE DEF s
<1>7. /\ FlattenSeq(s) \in Seq(Byte)
      /\ Len(FlattenSeq(s)) = Len(part)
      /\ Lies(FlattenSeq(s), 0, part)
  <2>1. /\ FlattenSeq(s) \in Seq(Byte)
        /\ Len(FlattenSeq(s)) = Len(s) * Len(part)
        /\ \A i \in 1 .. Len(s) : Lies(FlattenSeq(s), (i - 1) * Len(part), s[i])
    BY <1>5, <1>6, FlattenedEqual
  <2>2. 1 \in 1 .. Len(s) /\ (1 - 1) * Len(part) = 0 /\ Len(s) * Len(part) = Len(part)
    BY <1>5, <1>6
  <2>3. Lies(FlattenSeq(s), (1 - 1) * Len(part), s[1])
    BY <2>1, <2>2, Zenon
  <2> QED BY <1>5, <2>1, <2>2, <2>3, Zenon
<1>8. FlattenSeq(s) = part
  <2>1. \A i \in 1 .. Len(part) : 0 + i = i
    BY <1>6
  <2>2. \A i \in 1 .. Len(FlattenSeq(s)) : FlattenSeq(s)[i] = part[i]
    BY <1>7, <2>1 DEF Lies
  <2> QED BY <1>3, <1>7, <2>2, SeqEqual
<1>9. Lies(part, 1, text) /\ Len(part) = 1 + Len(text)
  BY <1>2, <1>3
<1> QED BY <1>3, <1>4, <1>8, <1>9

(* The part of a BYE packet before its reason.                               *)
LEMMA SourcesAreBytes ==
  ASSUME NEW sources \in Seq(Field32)
  PROVE  /\ FlattenSeq(sources) \in Seq(Byte)
         /\ Len(FlattenSeq(sources)) = Len(sources) * 4
         /\ \A i \in 1 .. Len(sources) :
              /\ (i - 1) * 4 \in Nat
              /\ sources[i] \in Seq(Byte) /\ Len(sources[i]) = 4
              /\ Lies(FlattenSeq(sources), (i - 1) * 4, sources[i])
<1>1. \A i \in 1 .. Len(sources) : sources[i] \in [1 .. 4 -> Byte]
  BY ElementOfSeq DEF Field32
<1>2. \A i \in 1 .. Len(sources) : sources[i] \in Seq(Byte) /\ Len(sources[i]) = 4
  BY <1>1, FieldIsBytes
<1>3. Len(sources) \in Nat /\ sources = [i \in 1 .. Len(sources) |-> sources[i]]
  BY LenProperties
<1>4. sources \in Seq(Seq(Byte))
  BY <1>2, <1>3
<1> QED BY <1>2, <1>4, FlattenedEqual

LEMMA SourcesComeBack ==
  ASSUME NEW sources \in Seq(Field32), NEW content \in Seq(Byte),
         Lies(content, 0, FlattenSeq(sources))
  PROVE  [i \in 1 .. Len(sources) |-> Field(content, (i - 1) * 4)] = sources
<1> DEFINE flat == FlattenSeq(sources)
<1>1. Len(sources) \in Nat /\ sources = [i \in 1 .. Len(sources) |-> sources[i]]
  BY LenProperties
<1>2. ASSUME NEW i \in 1 .. Len(sources)
      PROVE  Field(content, (i - 1) * 4) = sources[i]
  <2> DEFINE at == (i - 1) * 4
             u  == sources[i]
  <2>1. flat \in Seq(Byte) /\ at \in Nat /\ u \in Seq(Byte) /\ Len(u) = 4 /\ Lies(flat, at, u)
    BY SourcesAreBytes
  <2> HIDE DEF at, u, flat
  <2>2. Lies(content, 0 + at, u)
    BY <2>1, LiesWithin DEF flat
  <2>3. 0 + at = at /\ 0 + at \in Nat
    BY <2>1
  <2>4. SubSeq(content, at + 1, at + Len(u)) = u
    BY <2>1, <2>2, <2>3, LiesSlice
  <2>5. Field(content, at) = u
    BY <2>1, <2>4, Zenon DEF Field
  <2> QED BY <2>5 DEF at, u
<1> QED BY <1>1, <1>2, Zenon

LEMMA GoodbyesComeBack ==
  ASSUME NEW p \in Goodbye, Buildable(p)
  PROVE  Serializes(p) /\ Reparsed(p) = <<p>>
<1> DEFINE flat    == FlattenSeq(p.sources)
           reason  == ReasonBytes(p.reason)
           count   == Len(p.sources)
           s       == flat \o reason
           fill    == Fill(Len(s))
           content == s \o fill
           rest    == From(content, count * 4)
<1>1. /\ p.type = BYE /\ p.sources \in Seq(Field32)
      /\ p.reason \in Seq(Seq(Byte)) /\ Len(p.reason) =< 1
      /\ p = [type |-> BYE, sources |-> p.sources, reason |-> p.reason,
              padding_size |-> p.padding_size]
  BY DEF Goodbye
<1>2. \A i \in DOMAIN p.reason : Len(p.reason[i]) =< 255
  <2>1. FieldsFit(p) = All(LAMBDA text : Len(text) =< 255, p.reason)
    BY <1>1, TypesDiffer DEF FieldsFit, TypeValues
  <2> QED BY <2>1 DEF Buildable, All
<1>3. Serialized(p) = s /\ Count(p) = count
  BY <1>1, TypesDiffer DEF Serialized, Count, TypeValues, ReasonBytes
<1>4. /\ flat \in Seq(Byte) /\ Len(flat) = count * 4 /\ count \in Nat /\ count * 4 \in Nat
  BY <1>1, SourcesAreBytes, LenProperties
<1>5. p.reason = <<>> \/ \E text \in Seq(Byte) : p.reason = <<text>> /\ Len(text) =< 255
  <2>1. Len(p.reason) \in Nat
    BY <1>1, LenProperties
  <2>2. CASE Len(p.reason) = 0
    BY <1>1, <2>2, EmptySeq
  <2>3. CASE Len(p.reason) = 1
    <3>1. p.reason[1] \in Seq(Byte) /\ 1 \in DOMAIN p.reason
      BY <1>1, <2>3, LenProperties
    <3>2. p.reason = <<p.reason[1]>>
      BY <1>1, <2>3, <3>1
    <3> DEFINE text == p.reason[1]
    <3>3. text \in Seq(Byte) /\ Len(text) =< 255 /\ p.reason = <<text>>
      BY <1>2, <3>1, <3>2
    <3> HIDE DEF text
    <3> QED BY <3>3
  <2>4. Len(p.reason) = 0 \/ Len(p.reason) = 1
    <3> DEFINE n == Len(p.reason)
    <3>1. n \in Nat /\ n =< 1
      BY <1>1, <2>1
    <3> HIDE DEF n
    <3>2. n = 0 \/ n = 1
      BY <3>1
    <3> QED BY <3>2 DEF n
  <2> QED BY <2>2, <2>3, <2>4, Zenon
<1>6. reason \in Seq(Byte) /\ Len(reason) \in Nat
  <2>1. <<>> \in Seq(Byte)
    OBVIOUS
  <2>2. reason \in Seq(Byte)
    BY <1>5, <2>1, NoReason, OneReason
  <2> QED BY <2>2, LenProperties
<1>7. ParseOne(BYE, count, content, p.padding_size) = ParseBYE(content, count, p.padding_size)
  BY TypesDiffer DEF ParseOne, TypeValues
<1> HIDE DEF flat, reason, count
<1>8. /\ s \in Seq(Byte) /\ Len(s) = count * 4 + Len(reason) /\ Len(s) \in Nat
      /\ Lies(s, 0, flat) /\ Lies(s, count * 4, reason)
  <2>1. /\ s \in Seq(Byte) /\ Len(s) = Len(flat) + Len(reason)
        /\ Lies(s, 0, flat) /\ Lies(s, Len(flat), reason)
    BY <1>4, <1>6, JoinedLie
  <2>2. Len(s) \in Nat
    BY <2>1, LenProperties
  <2> QED BY <1>4, <2>1, <2>2, Zenon
<1> HIDE DEF s
<1>9. /\ content \in Seq(Byte) /\ Len(content) = Len(s) + Len(fill)
      /\ Lies(content, 0, flat) /\ Lies(content, count * 4, reason)
      /\ Len(fill) \in Nat /\ Len(content) \in Nat
  <2>1. /\ content \in Seq(Byte) /\ Len(content) = Len(s) + Len(fill)
        /\ Lies(content, 0, flat) /\ Lies(content, count * 4, reason)
    BY <1>4, <1>6, <1>8, Filled
  <2>2. Len(fill) \in Nat
    BY <1>8, FillBytes
  <2> QED BY <2>1, <2>2, LenProperties
<1> HIDE DEF fill, content
<1>10. [i \in 1 .. count |-> Field(content, (i - 1) * 4)] = p.sources
  BY <1>1, <1>9, SourcesComeBack DEF flat, count
<1>11. ~(Len(content) < count * 4)
  <2> DEFINE c == count * 4
  <2>1. c \in Nat
    BY <1>4
  <2> HIDE DEF c
  <2>2. Len(s) = c + Len(reason)
    BY <1>8 DEF c
  <2>3. ~(Len(content) < c)
    BY <1>6, <1>9, <2>1, <2>2
  <2> QED BY <2>3 DEF c
<1>12. /\ rest \in Seq(Byte) /\ Len(rest) = Len(reason) + Len(fill)
       /\ Lies(rest, 0, reason)
  <2> DEFINE c == count * 4
  <2>1. c \in Nat /\ Lies(content, c, reason)
    BY <1>4, <1>9
  <2>4. Len(s) = c + Len(reason) /\ ~(Len(content) < c)
    BY <1>8, <1>11
  <2> HIDE DEF c
  <2>2. c + 0 = c /\ c =< Len(content)
    BY <1>9, <2>1, <2>4
  <2>3. /\ From(content, c) \in Seq(Byte) /\ Len(From(content, c)) = Len(content) - c
        /\ Lies(From(content, c), 0, reason)
    BY <1>6, <1>9, <2>1, <2>2, LiesFrom
  <2>5. Len(content) - c = Len(reason) + Len(fill)
    BY <1>6, <1>9, <2>1, <2>4
  <2> QED BY <2>3, <2>5 DEF c
<1> HIDE DEF rest
<1>13. /\ ~(rest # <<>> /\ 1 + rest[1] > Len(rest))
       /\ (IF rest = <<>> THEN <<>> ELSE <<SubSeq(rest, 2, 1 + rest[1])>>) = p.reason
  <2>1. CASE p.reason = <<>>
    <3>1. reason = <<>> /\ Len(reason) = 0
      <4>1. reason = <<>>
        BY <2>1, NoReason, Zenon DEF reason
      <4> QED BY <4>1
    <3>2. Len(fill) = 0
      <4>1. \A n \in Nat : (-(n * 4 + 0)) % 4 = 0
        OBVIOUS
      <4>2. Len(s) = count * 4 + 0
        BY <1>8, <3>1, Zenon
      <4>3. Len(fill) = (-(count * 4 + 0)) % 4
        BY <1>8, <4>2, FillBytes DEF fill
      <4> QED BY <1>4, <4>1, <4>3, Zenon
    <3>3. rest = <<>>
      BY <1>12, <3>1, <3>2, EmptySeq
    <3> QED BY <2>1, <3>3
  <2>2. ASSUME NEW text \in Seq(Byte), p.reason = <<text>>, Len(text) =< 255
        PROVE  /\ ~(rest # <<>> /\ 1 + rest[1] > Len(rest))
               /\ (IF rest = <<>> THEN <<>> ELSE <<SubSeq(rest, 2, 1 + rest[1])>>) = p.reason
    <3>1. /\ Len(reason) = 1 + Len(text)
          /\ Lies(reason, 0, <<Len(text)>>) /\ Lies(reason, 1, text)
      BY <2>2, OneReason DEF reason
    <3>2. Len(text) \in Nat /\ <<Len(text)>> \in Seq(Byte) /\ Len(<<Len(text)>>) = 1
      <4> DEFINE n == Len(text)
      <4>1. n \in Nat /\ n =< 255
        BY <2>2, LenProperties
      <4> HIDE DEF n
      <4>2. n \in Byte
        BY <4>1 DEF Byte
      <4>3. <<n>> \in Seq(Byte) /\ Len(<<n>>) = 1
        BY <4>2
      <4> QED BY <4>1, <4>3 DEF n
    <3>3. Lies(rest, 0 + 0, <<Len(text)>>) /\ Lies(rest, 0 + 1, text)
      BY <1>6, <1>12, <3>1, <3>2, LiesWithin
    <3>4. rest[1] = Len(text)
      <4>1. 1 \in 1 .. Len(<<Len(text)>>) /\ (0 + 0) + 1 = 1 /\ <<Len(text)>>[1] = Len(text)
        BY <3>2
      <4>2. rest[(0 + 0) + 1] = <<Len(text)>>[1]
        BY <3>3, <4>1, Zenon DEF Lies
      <4> QED BY <4>1, <4>2, Zenon
    <3>5. 1 + rest[1] =< Len(rest) /\ rest # <<>>
      <4>1. Len(rest) >= 1 + Len(text)
        BY <1>9, <1>12, <3>1, <3>2
      <4> QED BY <3>2, <3>4, <4>1
    <3>6. SubSeq(rest, 2, 1 + rest[1]) = text
      <4>1. 0 + 1 = 1 /\ 1 + 1 = 2
        OBVIOUS
      <4>2. SubSeq(rest, 1 + 1, 1 + Len(text)) = text
        BY <1>12, <3>3, <4>1, LiesSlice
      <4> QED BY <3>4, <4>1, <4>2, Zenon
    <3>7. ~(1 + rest[1] > Len(rest))
      BY <1>12, <3>2, <3>4, <3>5, LenProperties
    <3> QED BY <2>2, <3>5, <3>6, <3>7, Zenon
  <2> QED BY <1>5, <2>1, <2>2
<1>14. ParseBYE(content, count, p.padding_size) = <<p>>
  BY <1>1, <1>10, <1>11, <1>13, Zenon DEF ParseBYE, rest
<1> QED BY <1>1, <1>3, <1>7, <1>8, <1>14, Zenon DEF Serializes, Reparsed, content, fill

(* What the recursion of Items says of one offset.                           *)
ItemsFrom(content, read, at) ==
  LET past == [end |-> Len(content) + 1, items |-> <<>>]
      next == at + 2 + content[at + 2]
  IN  IF at >= Len(content) THEN past
      ELSE IF content[at + 1] = 0 THEN [end |-> at + 1, items |-> <<>>]
      ELSE IF at + 2 > Len(content) THEN past
      ELSE IF next > Len(content) THEN past
      ELSE [end   |-> read[next].end,
            items |-> <<[type |-> content[at + 1],
                         text |-> SubSeq(content, at + 3, next)]>>
                      \o read[next].items]

Reads(content, read) == read = [at \in Nat |-> ItemsFrom(content, read, at)]

LEMMA ItemsFromSame ==
  ASSUME NEW content \in Seq(Byte), NEW at \in Nat, NEW g, NEW h,
         \A next \in Nat : next >= at + 2 /\ next =< Len(content) => g[next] = h[next]
  PROVE  ItemsFrom(content, g, at) = ItemsFrom(content, h, at)
<1>1. Len(content) \in Nat
  BY LenProperties
<1>2. CASE at >= Len(content) \/ content[at + 1] = 0 \/ at + 2 > Len(content)
  BY <1>2 DEF ItemsFrom
<1>3. CASE ~(at >= Len(content)) /\ ~(at + 2 > Len(content))
  <2> DEFINE next == at + 2 + content[at + 2]
  <2>1. next \in Nat /\ next >= at + 2
    <3>1. at + 2 \in 1 .. Len(content)
      BY <1>1, <1>3
    <3>2. content[at + 2] \in 0 .. 255
      BY <3>1, BytesAreNumbers
    <3>3. \A b \in 0 .. 255 : at + 2 + b \in Nat /\ at + 2 + b >= at + 2
      OBVIOUS
    <3> QED BY <3>2, <3>3, Zenon
  <2>2. next =< Len(content) => g[next] = h[next]
    BY <2>1
  <2>3. next > Len(content) \/ next =< Len(content)
    BY <1>1, <2>1
  <2> QED BY <2>2, <2>3, Zenon DEF ItemsFrom
<1> QED BY <1>2, <1>3

(* The recursion of Items has a solution, so its CHOOSE is one.              *)
LEMMA ReadsExists ==
  ASSUME NEW content \in Seq(Byte)
  PROVE  \E read : Reads(content, read)
<1> DEFINE m == Len(content)
           Upto(k, g) ==
             g = [at \in Nat |-> IF at + k < m THEN <<>> ELSE ItemsFrom(content, g, at)]
           S == {k \in Nat : \E g : Upto(k, g)}
<1>0. m \in Nat
  BY LenProperties
<1> HIDE DEF m
<1>1. 0 \in S
  <2> DEFINE none == [at \in Nat |-> <<>>]
             g == [at \in Nat |-> IF at + 0 < m THEN <<>> ELSE ItemsFrom(content, none, at)]
  <2>1. ASSUME NEW at \in Nat
        PROVE  (IF at + 0 < m THEN <<>> ELSE ItemsFrom(content, none, at))
               = (IF at + 0 < m THEN <<>> ELSE ItemsFrom(content, g, at))
    <3> HIDE DEF none, g
    <3>1. CASE at + 0 < m
      BY <3>1, Zenon
    <3>2. CASE ~(at + 0 < m)
      <4>1. \A next \in Nat : next >= at + 2 /\ next =< Len(content) => none[next] = g[next]
        BY <1>0, <3>2 DEF m
      <4>2. ItemsFrom(content, none, at) = ItemsFrom(content, g, at)
        BY <4>1, ItemsFromSame
      <4> QED BY <4>2, Zenon
    <3> QED BY <3>1, <3>2
  <2>2. g = [at \in Nat |-> IF at + 0 < m THEN <<>> ELSE ItemsFrom(content, none, at)]
    OBVIOUS
  <2> HIDE DEF g
  <2>3. g = [at \in Nat |-> IF at + 0 < m THEN <<>> ELSE ItemsFrom(content, g, at)]
    BY <2>1, <2>2, Zenon
  <2>4. Upto(0, g)
    BY <2>3, Zenon
  <2> HIDE DEF Upto
  <2> QED BY <2>4
<1>2. ASSUME NEW k \in Nat, k \in S PROVE k + 1 \in S
  <2>1. PICK g : Upto(k, g)
    BY <1>2
  <2> DEFINE h == [at \in Nat |-> IF at + (k + 1) < m THEN <<>>
                                  ELSE ItemsFrom(content, g, at)]
  <2>2. ASSUME NEW at \in Nat, at + k >= m PROVE h[at] = g[at]
    <3>1. ~(at + k < m) /\ ~(at + (k + 1) < m)
      BY <1>0, <2>2
    <3>2. g[at] = ItemsFrom(content, g, at)
      BY <2>1, <3>1, Zenon
    <3>3. h[at] = ItemsFrom(content, g, at)
      BY <3>1, Zenon
    <3> QED BY <3>2, <3>3, Zenon
  <2>3. h = [at \in Nat |-> IF at + (k + 1) < m THEN <<>> ELSE ItemsFrom(content, g, at)]
    OBVIOUS
  <2> HIDE DEF h
  <2>4. ASSUME NEW at \in Nat
        PROVE  (IF at + (k + 1) < m THEN <<>> ELSE ItemsFrom(content, g, at))
               = (IF at + (k + 1) < m THEN <<>> ELSE ItemsFrom(content, h, at))
    <3>1. CASE at + (k + 1) < m
      BY <3>1, Zenon
    <3>2. CASE ~(at + (k + 1) < m)
      <4>1. \A next \in Nat : next >= at + 2 => next + k >= m
        BY <1>0, <3>2
      <4>2. \A next \in Nat : next >= at + 2 /\ next =< Len(content) => g[next] = h[next]
        BY <2>2, <4>1
      <4>3. ItemsFrom(content, g, at) = ItemsFrom(content, h, at)
        BY <4>2, ItemsFromSame
      <4> QED BY <4>3, Zenon
    <3> QED BY <3>1, <3>2
  <2>5. Upto(k + 1, h)
    <3>1. h = [at \in Nat |-> IF at + (k + 1) < m THEN <<>> ELSE ItemsFrom(content, h, at)]
      BY <2>3, <2>4, Zenon
    <3> QED BY <3>1, Zenon
  <2> HIDE DEF Upto
  <2>6. k + 1 \in Nat
    OBVIOUS
  <2> QED BY <2>5, <2>6
<1>3. \A k \in Nat : k \in S
  <2> HIDE DEF S
  <2> QED BY <1>1, <1>2, Induction
<1>4. PICK g : Upto(m, g)
  BY <1>0, <1>3
<1>5. \A at \in Nat : ~(at + m < m)
  BY <1>0
<1>6. g = [at \in Nat |-> ItemsFrom(content, g, at)]
  BY <1>4, <1>5
<1> QED BY <1>6 DEF Reads

LEMMA ItemsRead ==
  ASSUME NEW content \in Seq(Byte), NEW at \in Nat
  PROVE  Items(content)[at] = ItemsFrom(content, Items(content), at)
<1>1. Items(content) = CHOOSE read : Reads(content, read)
  BY Zenon DEF Items, Reads, ItemsFrom
<1>2. Reads(content, Items(content))
  BY <1>1, ReadsExists, Zenon
<1> DEFINE read == Items(content)
<1> HIDE DEF read
<1>3. read = [i \in Nat |-> ItemsFrom(content, read, i)]
  BY <1>2 DEF Reads, read
<1>4. read[at] = ItemsFrom(content, read, at)
  BY <1>3
<1> QED BY <1>4 DEF read

(* An SDES item: its type, the length of its text, and the text.             *)
LEMMA ItemLayout ==
  ASSUME NEW item \in ItemType, ItemFits(item)
  PROVE  /\ item.type \in 1 .. 255 /\ item.text \in Seq(Byte) /\ Len(item.text) \in 0 .. 255
         /\ item = [type |-> item.type, text |-> item.text]
         /\ <<item.type, Len(item.text)>> \in Seq(Byte)
         /\ Len(<<item.type, Len(item.text)>>) = 2
         /\ ItemBytes(item) \in Seq(Byte)
         /\ Len(ItemBytes(item)) = 2 + Len(item.text)
         /\ Lies(ItemBytes(item), 0, <<item.type, Len(item.text)>>)
         /\ Lies(ItemBytes(item), 2, item.text)
<1> DEFINE n    == Len(item.text)
           type == item.type
           head == <<type, n>>
<1>1. item.text \in Seq(Byte) /\ item = [type |-> type, text |-> item.text]
  BY DEF ItemType
<1>2. n \in Nat /\ n =< 255 /\ type \in 1 .. 255
  BY <1>1, LenProperties DEF ItemFits
<1>3. ItemBytes(item) = head \o item.text
  BY DEF ItemBytes
<1> HIDE DEF n, type
<1>4. n \in 0 .. 255 /\ n \in Byte /\ type \in Byte
  BY <1>2 DEF Byte
<1>5. head \in Seq(Byte) /\ Len(head) = 2
  BY <1>4
<1> HIDE DEF head
<1>6. /\ ItemBytes(item) \in Seq(Byte) /\ Len(ItemBytes(item)) = Len(head) + Len(item.text)
      /\ Lies(ItemBytes(item), 0, head) /\ Lies(ItemBytes(item), Len(head), item.text)
  BY <1>1, <1>3, <1>5, JoinedLie
<1> QED BY <1>1, <1>2, <1>4, <1>5, <1>6, Zenon DEF head, n, type

(* An item that lies in the content is read, and what comes after it.        *)
LEMMA ItemRead ==
  ASSUME NEW content \in Seq(Byte), NEW at \in Nat, NEW item \in ItemType, ItemFits(item),
         Lies(content, at, ItemBytes(item))
  PROVE  LET next == at + (2 + Len(item.text)) IN
         /\ next \in Nat
         /\ Items(content)[at] = [end   |-> Items(content)[next].end,
                                  items |-> <<item>> \o Items(content)[next].items]
<1> DEFINE bytes == ItemBytes(item)
           type  == item.type
           text  == item.text
           n     == Len(text)
           head  == <<type, n>>
           next  == at + (2 + n)
           read  == Items(content)
<1>1. /\ type \in 1 .. 255 /\ text \in Seq(Byte) /\ n \in 0 .. 255
      /\ item = [type |-> type, text |-> text]
      /\ head \in Seq(Byte) /\ Len(head) = 2
      /\ bytes \in Seq(Byte) /\ Len(bytes) = 2 + n
      /\ Lies(bytes, 0, head) /\ Lies(bytes, 2, text)
  BY ItemLayout
<1>2. head[1] = type /\ head[2] = n
  OBVIOUS
<1>3. Len(content) \in Nat
  BY LenProperties
<1>4. Lies(content, at, bytes)
  OBVIOUS
<1>5. read[at] = ItemsFrom(content, read, at)
  BY ItemsRead
<1> HIDE DEF bytes, type, text, n, head, read
<1>6. next \in Nat /\ next =< Len(content) /\ at < Len(content) /\ at + 2 =< Len(content)
  <2>1. at + Len(bytes) =< Len(content)
    BY <1>4, Zenon DEF Lies
  <2> QED BY <1>1, <1>3, <2>1
<1>7. Lies(content, at + 0, head) /\ Lies(content, at + 2, text)
  BY <1>1, <1>4, LiesWithin
<1>8. content[at + 1] = type /\ content[at + 2] = n
  <2>1. 1 \in 1 .. Len(head) /\ 2 \in 1 .. Len(head)
    BY <1>1
  <2>2. (at + 0) + 1 = at + 1 /\ (at + 0) + 2 = at + 2
    OBVIOUS
  <2>3. content[(at + 0) + 1] = head[1] /\ content[(at + 0) + 2] = head[2]
    BY <1>7, <2>1, Zenon DEF Lies
  <2> QED BY <1>2, <2>2, <2>3, Zenon
<1>9. SubSeq(content, at + 3, next) = text
  <2>1. SubSeq(content, (at + 2) + 1, (at + 2) + Len(text)) = text
    BY <1>1, <1>7, LiesSlice
  <2>2. (at + 2) + 1 = at + 3 /\ (at + 2) + n = next
    BY <1>1
  <2> QED BY <2>1, <2>2, Zenon DEF n
<1>10. /\ ~(at >= Len(content)) /\ ~(content[at + 1] = 0) /\ ~(at + 2 > Len(content))
       /\ ~(next > Len(content)) /\ at + 2 + content[at + 2] = next
  <2>1. ~(at >= Len(content)) /\ ~(at + 2 > Len(content)) /\ ~(next > Len(content))
    BY <1>3, <1>6
  <2>2. at + 2 + n = next /\ type # 0
    BY <1>1
  <2> QED BY <1>8, <2>1, <2>2, Zenon
<1> HIDE DEF next
<1>11. read[at] = [end   |-> read[next].end,
                   items |-> <<[type |-> type, text |-> text]>> \o read[next].items]
  BY <1>5, <1>8, <1>9, <1>10, Zenon DEF ItemsFrom
<1> QED BY <1>1, <1>6, <1>11, Zenon DEF next, read, n, text

(* A zero where an item could begin ends the list.                           *)
LEMMA ItemsEnd ==
  ASSUME NEW content \in Seq(Byte), NEW at \in Nat, Lies(content, at, << 0 >>)
  PROVE  Items(content)[at] = [end |-> at + 1, items |-> <<>>]
<1>1. Len(content) \in Nat /\ Len(<<0>>) = 1 /\ <<0>>[1] = 0
  BY LenProperties
<1>2. at + 1 =< Len(content) /\ content[at + 1] = 0
  BY <1>1 DEF Lies
<1>3. ~(at >= Len(content))
  BY <1>1, <1>2
<1>4. Items(content)[at] = ItemsFrom(content, Items(content), at)
  BY ItemsRead
<1> QED BY <1>2, <1>3, <1>4, Zenon DEF ItemsFrom

ItemList(items) == FlattenSeq([i \in DOMAIN items |-> ItemBytes(items[i])])

LEMMA ItemParts ==
  ASSUME NEW items \in Seq(ItemType), All(ItemFits, items)
  PROVE  LET parts == [i \in DOMAIN items |-> ItemBytes(items[i])] IN
         /\ parts \in Seq(Seq(Byte)) /\ Len(parts) = Len(items)
         /\ \A i \in 1 .. Len(items) :
              /\ items[i] \in ItemType /\ ItemFits(items[i])
              /\ parts[i] = ItemBytes(items[i])
              /\ Len(parts[i]) = 2 + Len(items[i].text)
<1> DEFINE parts == [i \in DOMAIN items |-> ItemBytes(items[i])]
           m == Len(items)
<1>1. m \in Nat /\ DOMAIN items = 1 .. m /\ items \in [1 .. m -> ItemType]
  BY LenProperties
<1>2. ASSUME NEW i \in 1 .. m
      PROVE  /\ items[i] \in ItemType /\ ItemFits(items[i])
             /\ ItemBytes(items[i]) \in Seq(Byte)
             /\ Len(ItemBytes(items[i])) = 2 + Len(items[i].text)
  <2>1. items[i] \in ItemType /\ ItemFits(items[i])
    BY <1>1 DEF All
  <2> QED BY <2>1, ItemLayout
<1>3. parts = [i \in 1 .. m |-> ItemBytes(items[i])]
  BY <1>1
<1> HIDE DEF m, parts
<1>4. parts \in Seq(Seq(Byte)) /\ Len(parts) = m /\ \A i \in 1 .. m : parts[i] = ItemBytes(items[i])
  BY <1>1, <1>2, <1>3
<1> QED BY <1>2, <1>4 DEF m, parts

(* The items of a chunk are read as they were given, up to the zero that     *)
(* ends them.                                                                *)
LEMMA ItemsComeBack ==
  ASSUME NEW content \in Seq(Byte), NEW items \in Seq(ItemType), All(ItemFits, items),
         NEW at \in Nat, Lies(content, at, ItemList(items)),
         Lies(content, at + Len(ItemList(items)), << 0 >>)
  PROVE  Items(content)[at] = [end |-> (at + Len(ItemList(items))) + 1, items |-> items]
<1> DEFINE m     == Len(items)
           parts == [i \in DOMAIN items |-> ItemBytes(items[i])]
           flat  == FlattenSeq(parts)
           end   == at + Len(flat)
           read  == Items(content)
<1>1. m \in Nat
  BY LenProperties
<1>2. /\ parts \in Seq(Seq(Byte)) /\ Len(parts) = m
      /\ \A i \in 1 .. m : /\ items[i] \in ItemType /\ ItemFits(items[i])
                           /\ parts[i] = ItemBytes(items[i])
                           /\ Len(parts[i]) = 2 + Len(items[i].text)
                           /\ ItemBytes(items[i]) \in Seq(Byte)
  <2>1. \A i \in 1 .. m : items[i] \in ItemType /\ ItemFits(items[i])
    BY ItemParts
  <2> QED BY <2>1, ItemParts, ItemLayout
<1>3. ItemList(items) = flat
  BY DEF ItemList
<1> HIDE DEF parts
<1>4. flat \in Seq(Byte) /\ \E off : Offsets(parts, off)
  BY <1>2, Flattened
<1>5. PICK off : Offsets(parts, off)
  BY <1>4
<1> HIDE DEF m, flat
<1>6. /\ off \in [1 .. m + 1 -> Nat] /\ off[1] = 0 /\ off[m + 1] = Len(flat)
      /\ \A i \in 1 .. m : /\ off[i + 1] = off[i] + Len(parts[i])
                           /\ Lies(flat, off[i], parts[i])
  BY <1>2, <1>5, Zenon DEF Offsets, flat
<1>7. Lies(content, at, flat) /\ Lies(content, end, <<0>>) /\ end \in Nat
  <2>1. Len(flat) \in Nat
    BY <1>4, LenProperties
  <2> QED BY <1>3, <2>1
<1> HIDE DEF end, read
<1> DEFINE To(i) == read[at + off[i]] = [end |-> end + 1, items |-> SubSeq(items, i, m)]
           S     == {k \in Nat : k =< m => To((m + 1) - k)}
<1>8. 0 \in S
  <2>1. (m + 1) - 0 = m + 1 /\ m + 1 \in Int /\ m < m + 1
    BY <1>1
  <2>2. SubSeq(items, m + 1, m) = <<>>
    BY <1>1, <2>1, SubSeqEmpty
  <2>3. at + off[m + 1] = end
    BY <1>6, Zenon DEF end
  <2>4. read[end] = [end |-> end + 1, items |-> <<>>]
    BY <1>7, ItemsEnd DEF read
  <2>5. To(m + 1)
    BY <2>2, <2>3, <2>4, Zenon
  <2> QED BY <2>1, <2>5
<1>9. ASSUME NEW k \in Nat, k \in S
      PROVE  k + 1 \in S
  <2> SUFFICES ASSUME k + 1 =< m
               PROVE  To((m + 1) - (k + 1))
    OBVIOUS
  <2> DEFINE i == m - k
  <2>1. /\ (m + 1) - (k + 1) = i /\ (m + 1) - k = i + 1 /\ k =< m
        /\ i \in 1 .. m /\ m \in i .. m /\ i \in 1 .. m + 1 /\ i + 1 \in 1 .. m + 1
    BY <1>1
  <2>2. To(i + 1)
    BY <1>9, <2>1
  <2> HIDE DEF i
  <2>3. off[i] \in Nat /\ at + off[i] \in Nat
    <3>1. off[i] \in Nat
      BY <1>6, <2>1, Zenon
    <3> QED BY <3>1
  <2>4. /\ items[i] \in ItemType /\ ItemFits(items[i]) /\ ItemBytes(items[i]) \in Seq(Byte)
        /\ Lies(flat, off[i], ItemBytes(items[i]))
        /\ off[i + 1] = off[i] + (2 + Len(items[i].text))
    BY <1>2, <1>6, <2>1
  <2>5. Lies(content, at + off[i], ItemBytes(items[i]))
    BY <1>4, <1>7, <2>3, <2>4, LiesWithin
  <2>6. read[at + off[i]]
          = [end   |-> read[(at + off[i]) + (2 + Len(items[i].text))].end,
             items |-> <<items[i]>> \o read[(at + off[i]) + (2 + Len(items[i].text))].items]
    BY <2>3, <2>4, <2>5, ItemRead DEF read
  <2>7. (at + off[i]) + (2 + Len(items[i].text)) = at + off[i + 1]
    <3> DEFINE n == Len(items[i].text)
    <3>1. n \in Nat
      <4>1. n \in 0 .. 255
        BY <2>4, ItemLayout, Zenon
      <4> QED BY <4>1
    <3>2. off[i + 1] = off[i] + (2 + n)
      BY <2>4
    <3> HIDE DEF n
    <3>3. (at + off[i]) + (2 + n) = at + (off[i] + (2 + n))
      BY <2>3, <3>1
    <3> QED BY <3>2, <3>3, Zenon DEF n
  <2>8. read[at + off[i + 1]] = [end |-> end + 1, items |-> SubSeq(items, i + 1, m)]
    BY <2>2
  <2>9. /\ read[at + off[i + 1]].end = end + 1
        /\ read[at + off[i + 1]].items = SubSeq(items, i + 1, m)
    <3> DEFINE r    == read[at + off[i + 1]]
               rest == SubSeq(items, i + 1, m)
    <3>1. r = [end |-> end + 1, items |-> rest]
      BY <2>8
    <3> HIDE DEF r, rest
    <3>2. r.end = end + 1 /\ r.items = rest
      BY <3>1
    <3> QED BY <3>2 DEF r, rest
  <2>10. SubSeq(items, i, m) = <<items[i]>> \o SubSeq(items, i + 1, m)
    BY <2>1, SubSeqRecursiveFirst DEF m
  <2>11. To(i)
    BY <2>6, <2>7, <2>9, <2>10, Zenon
  <2> QED BY <2>1, <2>11
<1>10. m \in S
  <2> HIDE DEF S
  <2>1. Nat \subseteq S
    BY <1>8, <1>9, Induction
  <2> QED BY <1>1, <2>1
<1>11. To(1)
  <2>1. (m + 1) - m = 1 /\ m =< m
    BY <1>1
  <2>2. To((m + 1) - m)
    BY <1>10, <2>1
  <2> QED BY <2>1, <2>2, Zenon
<1>12. at + off[1] = at /\ SubSeq(items, 1, m) = items
  BY <1>6, SubSeqFull DEF m
<1>13. read[at] = [end |-> end + 1, items |-> items]
  BY <1>11, <1>12, Zenon
<1> QED BY <1>3, <1>13, Zenon DEF read, end

LEMMA ChunkLayout ==
  ASSUME NEW c \in ChunkType, All(ItemFits, c.items)
  PROVE  /\ c.ssrc \in Seq(Byte) /\ Len(c.ssrc) = 4 /\ c.items \in Seq(ItemType)
         /\ c = [ssrc |-> c.ssrc, items |-> c.items]
         /\ ItemList(c.items) \in Seq(Byte) /\ Len(ItemList(c.items)) \in Nat
         /\ ChunkBytes(c) \in Seq(Byte)
         /\ Len(ChunkBytes(c)) = (5 + Len(ItemList(c.items)))
                                   + ((-(5 + Len(ItemList(c.items)))) % 4)
         /\ Lies(ChunkBytes(c), 0, c.ssrc)
         /\ Lies(ChunkBytes(c), 4, ItemList(c.items))
         /\ Lies(ChunkBytes(c), 4 + Len(ItemList(c.items)), <<0>>)
<1> DEFINE ssrc == c.ssrc
           list == ItemList(c.items)
           raw  == ssrc \o list \o <<0>>
<1>1. /\ ssrc \in [1 .. 4 -> Byte] /\ c.items \in Seq(ItemType)
      /\ c = [ssrc |-> c.ssrc, items |-> c.items]
  BY DEF ChunkType, Field32
<1>2. ssrc \in Seq(Byte) /\ Len(ssrc) = 4
  BY <1>1, FieldIsBytes
<1>3. list \in Seq(Byte)
  <2> DEFINE parts == [i \in DOMAIN c.items |-> ItemBytes(c.items[i])]
  <2>1. parts \in Seq(Seq(Byte))
    BY <1>1, ItemParts
  <2> HIDE DEF parts
  <2>2. FlattenSeq(parts) \in Seq(Byte)
    BY <2>1, Flattened
  <2> QED BY <2>2 DEF ItemList, parts
<1>4. Len(list) \in Nat
  BY <1>3, LenProperties
<1>5. ChunkBytes(c) = raw \o Fill(Len(raw))
  BY DEF ChunkBytes, ItemList
<1>6. <<0>> \in Seq(Byte) /\ Len(<<0>>) = 1
  BY DEF Byte
<1> HIDE DEF ssrc, list
<1>7. /\ raw \in Seq(Byte) /\ Len(raw) = Len(ssrc) + Len(list) + Len(<<0>>)
      /\ Lies(raw, 0, ssrc) /\ Lies(raw, Len(ssrc), list)
      /\ Lies(raw, Len(ssrc) + Len(list), <<0>>)
  BY <1>2, <1>3, <1>6, JoinedThree
<1> HIDE DEF raw
<1>8. /\ Len(raw) = 5 + Len(list) /\ Len(raw) \in Nat /\ 4 + Len(list) \in Nat
      /\ Lies(raw, 4, list) /\ Lies(raw, 4 + Len(list), <<0>>)
  <2>1. Len(raw) = 5 + Len(list)
    BY <1>2, <1>4, <1>6, <1>7
  <2> QED BY <1>2, <1>4, <1>7, <2>1
<1>9. /\ raw \o Fill(Len(raw)) \in Seq(Byte)
      /\ Len(raw \o Fill(Len(raw))) = Len(raw) + Len(Fill(Len(raw)))
      /\ Lies(raw \o Fill(Len(raw)), 0, ssrc)
      /\ Lies(raw \o Fill(Len(raw)), 4, list)
      /\ Lies(raw \o Fill(Len(raw)), 4 + Len(list), <<0>>)
  BY <1>2, <1>3, <1>6, <1>7, <1>8, Filled
<1>10. Len(Fill(Len(raw))) = (-(5 + Len(list))) % 4
  BY <1>8, FillBytes
<1> QED BY <1>1, <1>2, <1>3, <1>4, <1>5, <1>8, <1>9, <1>10, Zenon DEF ssrc, list

(* Where the parser takes a chunk at an offset to end.                       *)
ChunkEnd(content, at) ==
  Items(content)[at + 4].end + ((at - Items(content)[at + 4].end) % 4)

(* A chunk that lies in the content is read, to its end.                     *)
LEMMA ChunkRead ==
  ASSUME NEW content \in Seq(Byte), NEW at \in Nat, NEW c \in ChunkType,
         All(ItemFits, c.items), Lies(content, at, ChunkBytes(c))
  PROVE  /\ ~(at + 4 > Len(content))
         /\ Field(content, at) = c.ssrc
         /\ Items(content)[at + 4].items = c.items
         /\ ChunkEnd(content, at) = at + Len(ChunkBytes(c))
<1> DEFINE bytes == ChunkBytes(c)
           ssrc  == c.ssrc
           items == c.items
           list  == ItemList(items)
           n     == Len(list)
           after == ((at + 4) + n) + 1
<1>1. /\ ssrc \in Seq(Byte) /\ Len(ssrc) = 4 /\ items \in Seq(ItemType)
      /\ list \in Seq(Byte) /\ n \in Nat
      /\ bytes \in Seq(Byte) /\ Len(bytes) = (5 + n) + ((-(5 + n)) % 4)
      /\ Lies(bytes, 0, ssrc) /\ Lies(bytes, 4, list) /\ Lies(bytes, 4 + n, <<0>>)
  BY ChunkLayout
<1>2. Lies(content, at, bytes) /\ All(ItemFits, items)
  OBVIOUS
<1>3. Len(content) \in Nat
  BY LenProperties
<1>4. <<0>> \in Seq(Byte)
  BY DEF Byte
<1> HIDE DEF bytes, ssrc, items, list
<1>5. /\ Lies(content, at + 0, ssrc) /\ Lies(content, at + 4, list)
      /\ Lies(content, at + (4 + n), <<0>>)
  <2>1. 4 + n \in Nat
    BY <1>1
  <2> QED BY <1>1, <1>2, <1>4, <2>1, LiesWithin
<1>6. ~(at + 4 > Len(content))
  <2>1. at + 0 + Len(ssrc) =< Len(content)
    BY <1>5 DEF Lies
  <2> QED BY <1>1, <1>3, <2>1
<1>7. Field(content, at) = ssrc
  <2>1. at + 0 = at
    OBVIOUS
  <2>2. SubSeq(content, at + 1, at + Len(ssrc)) = ssrc
    BY <1>1, <1>5, <2>1, LiesSlice
  <2> QED BY <1>1, <2>2, Zenon DEF Field
<1>8. Items(content)[at + 4] = [end |-> after, items |-> items]
  <2>1. at + 4 \in Nat /\ at + (4 + n) = (at + 4) + n
    BY <1>1
  <2>2. Lies(content, (at + 4) + Len(ItemList(items)), <<0>>)
    BY <1>5, <2>1 DEF list
  <2> QED BY <1>1, <1>2, <1>5, <2>1, <2>2, ItemsComeBack DEF list
<1> HIDE DEF n, after
<1>9. Items(content)[at + 4].end = after /\ Items(content)[at + 4].items = items
  <2> DEFINE r == Items(content)[at + 4]
  <2>1. r = [end |-> after, items |-> items]
    BY <1>8
  <2> HIDE DEF r
  <2>2. r.end = after /\ r.items = items
    BY <2>1
  <2> QED BY <2>2 DEF r
<1>10. after + ((at - after) % 4) = at + Len(bytes)
  <2>1. after = at + (5 + n) /\ at - after = -(5 + n)
    BY <1>1 DEF after
  <2>2. (-(5 + n)) % 4 \in Nat
    BY <1>1
  <2> DEFINE fill == (-(5 + n)) % 4
  <2>3. Len(bytes) = (5 + n) + fill /\ (at - after) % 4 = fill /\ fill \in Nat
    BY <1>1, <2>1, <2>2
  <2> HIDE DEF fill
  <2>4. (at + (5 + n)) + fill = at + ((5 + n) + fill)
    BY <1>1, <2>3
  <2> QED BY <2>1, <2>3, <2>4, Zenon
<1> QED BY <1>6, <1>7, <1>9, <1>10, Zenon DEF ChunkEnd, bytes, ssrc, items

----------------------------------------------------------------------------
(* What the recursion over the chunks in ParseSDES says.                     *)
ChunkEnds(content, count, offset) ==
  offset = [n \in 0 .. count |->
              IF n = 0 THEN 0
              ELSE IF offset[n - 1] + 4 > Len(content) THEN Len(content) + 1
              ELSE ChunkEnd(content, offset[n - 1])]

LEMMA ChunkEndsExist ==
  ASSUME NEW content \in Seq(Byte), NEW count \in Nat
  PROVE  \E offset : ChunkEnds(content, count, offset)
<1> DEFINE After(x) == IF x + 4 > Len(content) THEN Len(content) + 1
                       ELSE ChunkEnd(content, x)
           Upto(k, g) ==
             g = [n \in 0 .. count |-> IF n > k THEN 0
                                       ELSE IF n = 0 THEN 0 ELSE After(g[n - 1])]
           S == {k \in Nat : \E g : Upto(k, g)}
<1> HIDE DEF After
<1>1. 0 \in S
  <2> DEFINE g == [n \in 0 .. count |-> 0]
  <2>1. \A n \in 0 .. count : n > 0 \/ n = 0
    OBVIOUS
  <2>2. Upto(0, g)
    BY <2>1, Zenon
  <2> QED BY <2>2
<1>2. ASSUME NEW k \in Nat, k \in S PROVE k + 1 \in S
  <2>1. PICK g : Upto(k, g)
    BY <1>2
  <2> DEFINE h == [n \in 0 .. count |-> IF n > k + 1 THEN 0
                                        ELSE IF n = 0 THEN 0 ELSE After(g[n - 1])]
  <2>2. ASSUME NEW n \in 0 .. count, n =< k PROVE h[n] = g[n]
    <3>1. ~(n > k) /\ ~(n > k + 1)
      BY <2>2
    <3>2. g[n] = IF n = 0 THEN 0 ELSE After(g[n - 1])
      BY <2>1, <3>1, Zenon
    <3>3. h[n] = IF n = 0 THEN 0 ELSE After(g[n - 1])
      BY <3>1, Zenon
    <3> QED BY <3>2, <3>3, Zenon
  <2>3. h = [n \in 0 .. count |-> IF n > k + 1 THEN 0
                                  ELSE IF n = 0 THEN 0 ELSE After(g[n - 1])]
    OBVIOUS
  <2> HIDE DEF h
  <2>4. ASSUME NEW n \in 0 .. count
        PROVE  (IF n > k + 1 THEN 0 ELSE IF n = 0 THEN 0 ELSE After(g[n - 1]))
               = (IF n > k + 1 THEN 0 ELSE IF n = 0 THEN 0 ELSE After(h[n - 1]))
    <3>1. CASE n > k + 1
      BY <3>1, Zenon
    <3>2. CASE n = 0
      BY <3>2, Zenon
    <3>3. CASE ~(n > k + 1) /\ n # 0
      <4>1. n - 1 \in 0 .. count /\ n - 1 =< k
        BY <3>3
      <4>2. h[n - 1] = g[n - 1]
        BY <2>2, <4>1, Zenon
      <4> QED BY <4>2, Zenon
    <3> QED BY <3>1, <3>2, <3>3, Zenon
  <2>5. Upto(k + 1, h)
    <3>1. h = [n \in 0 .. count |-> IF n > k + 1 THEN 0
                                    ELSE IF n = 0 THEN 0 ELSE After(h[n - 1])]
      BY <2>3, <2>4, Zenon
    <3> QED BY <3>1, Zenon
  <2> HIDE DEF Upto
  <2>6. k + 1 \in Nat
    OBVIOUS
  <2> QED BY <2>5, <2>6
<1>3. \A k \in Nat : k \in S
  <2> HIDE DEF S
  <2> QED BY <1>1, <1>2, Induction
<1>4. PICK g : Upto(count, g)
  BY <1>3
<1>5. \A n \in 0 .. count : ~(n > count)
  OBVIOUS
<1>6. g = [n \in 0 .. count |-> IF n = 0 THEN 0 ELSE After(g[n - 1])]
  BY <1>4, <1>5
<1>7. ChunkEnds(content, count, g)
  BY <1>6, Zenon DEF ChunkEnds, After
<1> QED BY <1>7

LEMMA ChunksAreBytes ==
  ASSUME NEW chunks \in Seq(ChunkType),
         \A i \in DOMAIN chunks : All(ItemFits, chunks[i].items)
  PROVE  LET parts == [i \in DOMAIN chunks |-> ChunkBytes(chunks[i])] IN
         /\ parts \in Seq(Seq(Byte)) /\ Len(parts) = Len(chunks)
         /\ \A i \in 1 .. Len(chunks) :
              /\ chunks[i] \in ChunkType /\ All(ItemFits, chunks[i].items)
              /\ parts[i] = ChunkBytes(chunks[i])
              /\ ChunkBytes(chunks[i]) \in Seq(Byte)
<1> DEFINE parts == [i \in DOMAIN chunks |-> ChunkBytes(chunks[i])]
           m == Len(chunks)
<1>1. m \in Nat /\ DOMAIN chunks = 1 .. m /\ chunks \in [1 .. m -> ChunkType]
  BY LenProperties
<1>2. ASSUME NEW i \in 1 .. m
      PROVE  /\ chunks[i] \in ChunkType /\ All(ItemFits, chunks[i].items)
             /\ ChunkBytes(chunks[i]) \in Seq(Byte)
  <2>1. chunks[i] \in ChunkType /\ All(ItemFits, chunks[i].items)
    BY <1>1
  <2> QED BY <2>1, ChunkLayout
<1>3. parts = [i \in 1 .. m |-> ChunkBytes(chunks[i])]
  BY <1>1
<1> HIDE DEF m, parts
<1>4. parts \in Seq(Seq(Byte)) /\ Len(parts) = m /\ \A i \in 1 .. m : parts[i] = ChunkBytes(chunks[i])
  BY <1>1, <1>2, <1>3
<1> QED BY <1>2, <1>4 DEF m, parts

(* Chunks laid one after the other are read back as they were given.         *)
LEMMA ChunksComeBack ==
  ASSUME NEW chunks \in Seq(ChunkType),
         \A i \in DOMAIN chunks : All(ItemFits, chunks[i].items),
         NEW content \in Seq(Byte), Lies(content, 0, Each(ChunkBytes, chunks)),
         NEW padding
  PROVE  ParseSDES(content, Len(chunks), padding)
           = <<[type |-> SDES, chunks |-> chunks, padding_size |-> padding]>>
<1> DEFINE count  == Len(chunks)
           parts  == [i \in DOMAIN chunks |-> ChunkBytes(chunks[i])]
           flat   == FlattenSeq(parts)
           offset == CHOOSE offset : ChunkEnds(content, count, offset)
<1>1. count \in Nat /\ Len(content) \in Nat
  BY LenProperties
<1>2. /\ parts \in Seq(Seq(Byte)) /\ Len(parts) = count
      /\ \A i \in 1 .. count : /\ chunks[i] \in ChunkType
                               /\ All(ItemFits, chunks[i].items)
                               /\ parts[i] = ChunkBytes(chunks[i])
                               /\ ChunkBytes(chunks[i]) \in Seq(Byte)
  BY ChunksAreBytes
<1>3. Each(ChunkBytes, chunks) = flat
  BY Zenon DEF Each
<1>4. chunks = [n \in 1 .. count |-> chunks[n]]
  BY LenProperties
<1>5. ChunkEnds(content, count, offset)
  BY <1>1, ChunkEndsExist, Zenon
<1>6. ParseSDES(content, count, padding)
        = IF \E n \in 1 .. count : offset[n] > Len(content) THEN Malformed
          ELSE <<[type         |-> SDES,
                  chunks       |-> [n \in 1 .. count |->
                                      [ssrc  |-> Field(content, offset[n - 1]),
                                       items |-> Items(content)[offset[n - 1] + 4].items]],
                  padding_size |-> padding]>>
  BY Zenon DEF ParseSDES, ChunkEnds, ChunkEnd
<1> HIDE DEF offset, parts, count
<1>7. flat \in Seq(Byte) /\ \E off : Offsets(parts, off)
  BY <1>2, Flattened
<1>8. PICK off : Offsets(parts, off)
  BY <1>7
<1> HIDE DEF flat
<1>9. /\ off \in [1 .. count + 1 -> Nat] /\ off[1] = 0
      /\ \A i \in 1 .. count : /\ off[i + 1] = off[i] + Len(parts[i])
                               /\ Lies(flat, off[i], parts[i])
  BY <1>2, <1>8, Zenon DEF Offsets, flat
<1>10. \A n \in 0 .. count :
         offset[n] = IF n = 0 THEN 0
                     ELSE IF offset[n - 1] + 4 > Len(content) THEN Len(content) + 1
                     ELSE ChunkEnd(content, offset[n - 1])
  BY <1>5, Zenon DEF ChunkEnds
<1>11. ASSUME NEW i \in 1 .. count
       PROVE  /\ off[i] \in Nat /\ ~(off[i] + 4 > Len(content))
              /\ Field(content, off[i]) = chunks[i].ssrc
              /\ Items(content)[off[i] + 4].items = chunks[i].items
              /\ ChunkEnd(content, off[i]) = off[i + 1]
              /\ off[i + 1] =< Len(content)
  <2>1. i \in 1 .. count + 1
    BY <1>1
  <2>2. off[i] \in Nat
    BY <1>9, <2>1, Zenon
  <2> DEFINE c == chunks[i]
             bytes == ChunkBytes(c)
             at == off[i]
  <2>3. c \in ChunkType /\ All(ItemFits, c.items) /\ bytes \in Seq(Byte)
    BY <1>2
  <2>4. Lies(flat, at, bytes) /\ off[i + 1] = at + Len(bytes)
    BY <1>2, <1>9
  <2>5. at \in Nat
    BY <2>2
  <2> HIDE DEF c, at, bytes
  <2>6. Lies(content, at, bytes)
    <3>1. Lies(content, 0 + at, bytes)
      BY <1>3, <1>7, <2>3, <2>4, <2>5, LiesWithin
    <3> QED BY <2>5, <3>1
  <2>7. at + Len(bytes) =< Len(content)
    BY <2>6 DEF Lies
  <2>8. /\ ~(at + 4 > Len(content))
        /\ Field(content, at) = c.ssrc
        /\ Items(content)[at + 4].items = c.items
        /\ ChunkEnd(content, at) = at + Len(bytes)
    BY <2>3, <2>5, <2>6, ChunkRead DEF bytes
  <2> QED BY <2>4, <2>5, <2>7, <2>8, Zenon DEF c, at
<1> DEFINE S == {n \in Nat : n =< count => offset[n] = off[n + 1]}
<1>12. 0 \in S
  <2>1. 0 \in 0 .. count /\ 0 + 1 = 1
    BY <1>1
  <2> QED BY <1>9, <1>10, <2>1
<1>13. ASSUME NEW n \in Nat, n \in S
       PROVE  n + 1 \in S
  <2> SUFFICES ASSUME n + 1 =< count
               PROVE  offset[n + 1] = off[(n + 1) + 1]
    OBVIOUS
  <2>1. /\ n + 1 \in 1 .. count /\ n =< count /\ n + 1 \in 0 .. count /\ n + 1 # 0
        /\ (n + 1) - 1 = n
    BY <1>1
  <2>2. offset[n] = off[n + 1]
    BY <1>13, <2>1
  <2>3. offset[n + 1] = IF offset[n] + 4 > Len(content) THEN Len(content) + 1
                        ELSE ChunkEnd(content, offset[n])
    BY <1>10, <2>1, Zenon
  <2> QED BY <1>11, <2>1, <2>2, <2>3, Zenon
<1>14. \A n \in Nat : n =< count => offset[n] = off[n + 1]
  <2> HIDE DEF S
  <2>1. Nat \subseteq S
    BY <1>12, <1>13, Induction
  <2> QED BY <2>1 DEF S
<1>15. ASSUME NEW n \in 1 .. count
       PROVE  ~(offset[n] > Len(content)) /\ offset[n - 1] = off[n]
  <2>1. n \in Nat /\ n =< count /\ n - 1 \in Nat /\ n - 1 =< count /\ (n - 1) + 1 = n
        /\ n + 1 \in 1 .. count + 1
    BY <1>1
  <2>2. offset[n] = off[n + 1] /\ offset[n - 1] = off[n]
    BY <1>14, <2>1
  <2>3. off[n + 1] =< Len(content) /\ off[n + 1] \in Nat
    BY <1>9, <1>11, <2>1, Zenon
  <2>4. ~(off[n + 1] > Len(content))
    BY <1>1, <2>3
  <2> QED BY <2>2, <2>4, Zenon
<1>16. ASSUME NEW n \in 1 .. count
       PROVE  [ssrc  |-> Field(content, offset[n - 1]),
               items |-> Items(content)[offset[n - 1] + 4].items] = chunks[n]
  <2>1. chunks[n] = [ssrc |-> chunks[n].ssrc, items |-> chunks[n].items]
    BY <1>2, ChunkLayout
  <2> QED BY <1>11, <1>15, <2>1, Zenon
<1>17. [n \in 1 .. count |-> [ssrc  |-> Field(content, offset[n - 1]),
                              items |-> Items(content)[offset[n - 1] + 4].items]] = chunks
  BY <1>4, <1>16, Zenon
<1>18. ParseSDES(content, count, padding)
         = <<[type |-> SDES, chunks |-> chunks, padding_size |-> padding]>>
  BY <1>6, <1>15, <1>17, Zenon
<1> QED BY <1>18 DEF count

LEMMA SourceDescriptionsComeBack ==
  ASSUME NEW p \in SourceDescription, Buildable(p)
  PROVE  Serializes(p) /\ Reparsed(p) = <<p>>
<1> DEFINE chunks  == p.chunks
           s       == Each(ChunkBytes, chunks)
           count   == Len(chunks)
           content == s \o Fill(Len(s))
<1>1. /\ p.type = SDES /\ chunks \in Seq(ChunkType)
      /\ p = [type |-> SDES, chunks |-> chunks, padding_size |-> p.padding_size]
  BY DEF SourceDescription
<1>2. \A i \in DOMAIN chunks : All(ItemFits, chunks[i].items)
  <2>1. FieldsFit(p) = All(LAMBDA c : All(ItemFits, c.items), chunks)
    BY <1>1, TypesDiffer DEF FieldsFit, TypeValues
  <2>2. All(LAMBDA c : All(ItemFits, c.items), chunks)
    BY <2>1 DEF Buildable
  <2> QED BY <2>2 DEF All
<1>3. Serialized(p) = s /\ Count(p) = count
  BY <1>1, TypesDiffer DEF Serialized, Count, TypeValues
<1>4. s \in Seq(Byte)
  <2> DEFINE parts == [i \in DOMAIN chunks |-> ChunkBytes(chunks[i])]
  <2>1. parts \in Seq(Seq(Byte))
    BY <1>1, <1>2, ChunksAreBytes
  <2>2. s = FlattenSeq(parts)
    BY Zenon DEF Each
  <2> HIDE DEF parts
  <2> QED BY <2>1, <2>2, Flattened
<1> HIDE DEF s
<1>5. content \in Seq(Byte) /\ Lies(content, 0, s)
  <2>1. Lies(s, 0, s)
    BY <1>4, LenProperties DEF Lies
  <2> QED BY <1>4, <2>1, Filled
<1> HIDE DEF content
<1>6. ParseSDES(content, count, p.padding_size) = <<p>>
  BY <1>1, <1>2, <1>5, ChunksComeBack DEF s
<1>7. ParseOne(SDES, count, content, p.padding_size)
        = ParseSDES(content, count, p.padding_size)
  BY TypesDiffer DEF ParseOne, TypeValues
<1> QED BY <1>1, <1>3, <1>4, <1>6, <1>7, Zenon DEF Serializes, Reparsed, content

(* A sequence that two others make up is their concatenation.                *)
LEMMA MadeOfTwo ==
  ASSUME NEW s \in Seq(Byte), NEW t \in Seq(Byte), NEW u \in Seq(Byte),
         Len(s) = Len(t) + Len(u), Lies(s, 0, t), Lies(s, Len(t), u)
  PROVE  s = t \o u
<1> DEFINE v == t \o u
<1>1. /\ v \in Seq(Byte) /\ Len(v) = Len(t) + Len(u)
      /\ Lies(v, 0, t) /\ Lies(v, Len(t), u)
  BY JoinedLie
<1>2. Len(t) \in Nat /\ Len(u) \in Nat
  BY LenProperties
<1> HIDE DEF v
<1>3. ASSUME NEW i \in 1 .. Len(s)
      PROVE  s[i] = v[i]
  <2>1. CASE i =< Len(t)
    <3>1. i \in 1 .. Len(t) /\ 0 + i = i
      BY <1>2, <2>1
    <3>2. s[0 + i] = t[i] /\ v[0 + i] = t[i]
      BY <1>1, <3>1, Zenon DEF Lies
    <3> QED BY <3>1, <3>2, Zenon
  <2>2. CASE ~(i =< Len(t))
    <3> DEFINE j == i - Len(t)
    <3>1. j \in 1 .. Len(u) /\ Len(t) + j = i
      BY <1>2, <2>2
    <3> HIDE DEF j
    <3>2. s[Len(t) + j] = u[j] /\ v[Len(t) + j] = u[j]
      BY <1>1, <3>1, Zenon DEF Lies
    <3> QED BY <3>1, <3>2, Zenon
  <2> QED BY <2>1, <2>2
<1>4. s = v
  BY <1>1, <1>3, SeqEqual
<1> QED BY <1>4 DEF v

(* The data of APP is followed by the zeros that bring it to whole words,    *)
(* and nothing tells the two apart.                                          *)
LEMMA ApplicationsComeBack ==
  ASSUME NEW p \in ApplicationDefined, Buildable(p)
  PROVE  /\ Serializes(p)
         /\ Reparsed(p) = <<[p EXCEPT !.data = @ \o Fill(Len(@))]>>
<1> DEFINE ssrc    == p.ssrc
           name    == p.name
           data    == p.data
           n       == Len(data)
           s       == ssrc \o name \o data
           fill    == Fill(Len(s))
           content == s \o fill
           rest    == From(content, 8)
<1>1. /\ p.type = APP /\ ssrc \in [1 .. 4 -> Byte] /\ name \in Seq(Byte) /\ data \in Seq(Byte)
      /\ [p EXCEPT !.data = data \o Fill(n)]
           = [type |-> APP, subtype |-> p.subtype, ssrc |-> ssrc, name |-> name,
              data |-> data \o Fill(n), padding_size |-> p.padding_size]
  <2>1. /\ p \in [type: {APP}, subtype: Int, ssrc: [1 .. 4 -> Byte], name: Seq(Byte),
                  data: Seq(Byte), padding_size: Int]
    BY DEF ApplicationDefined, Field32
  <2>2. /\ p.type = APP /\ ssrc \in [1 .. 4 -> Byte] /\ name \in Seq(Byte)
        /\ data \in Seq(Byte)
    BY <2>1
  <2> DEFINE tail == data \o Fill(n)
  <2> HIDE DEF tail
  <2>3. [p EXCEPT !.data = tail]
          = [type |-> APP, subtype |-> p.subtype, ssrc |-> p.ssrc, name |-> p.name,
             data |-> tail, padding_size |-> p.padding_size]
    BY <2>1
  <2> QED BY <2>2, <2>3 DEF tail
<1>2. Len(name) = 4
  <2>1. FieldsFit(p) = (Len(p.name) = 4)
    BY <1>1, TypesDiffer DEF FieldsFit, TypeValues
  <2> QED BY <2>1 DEF Buildable
<1>3. Serialized(p) = s /\ Count(p) = p.subtype
  BY <1>1, TypesDiffer DEF Serialized, Count, TypeValues
<1>4. ssrc \in Seq(Byte) /\ Len(ssrc) = 4
  BY <1>1, FieldIsBytes
<1>5. n \in Nat
  BY <1>1, LenProperties
<1> HIDE DEF ssrc, name, data
<1>6. /\ s \in Seq(Byte) /\ Len(s) = Len(ssrc) + Len(name) + Len(data)
      /\ Lies(s, 0, ssrc) /\ Lies(s, Len(ssrc), name)
      /\ Lies(s, Len(ssrc) + Len(name), data)
  BY <1>1, <1>4, JoinedThree
<1> HIDE DEF s, n
<1>7. /\ Len(s) = 8 + n /\ Len(s) \in Nat
      /\ Lies(s, 4, name) /\ Lies(s, 8, data)
  <2>1. Len(s) = 8 + n /\ Len(ssrc) + Len(name) = 8
    BY <1>2, <1>4, <1>5, <1>6 DEF n
  <2> QED BY <1>4, <1>5, <1>6, <2>1
<1>8. fill = Fill(n)
  <2>1. \A k \in Nat : (-(8 + k)) % 4 = (-k) % 4
    OBVIOUS
  <2> QED BY <1>5, <1>7, <2>1, Zenon DEF Fill
<1>9. fill \in Seq(Byte) /\ Len(fill) \in Nat
  BY <1>7, FillBytes, LenProperties
<1> HIDE DEF fill
<1>10. /\ content \in Seq(Byte) /\ Len(content) = Len(s) + Len(fill)
       /\ Lies(content, 0, ssrc) /\ Lies(content, 4, name) /\ Lies(content, 8, data)
       /\ Lies(content, Len(s), fill)
  <2>1. /\ content \in Seq(Byte) /\ Len(content) = Len(s) + Len(fill)
        /\ Lies(content, Len(s), fill)
    BY <1>6, <1>9, JoinedLie
  <2>2. Lies(content, 0, ssrc) /\ Lies(content, 4, name) /\ Lies(content, 8, data)
    BY <1>1, <1>4, <1>6, <1>7, <1>9, LiesInFront
  <2> QED BY <2>1, <2>2
<1> HIDE DEF content
<1>11. ~(Len(content) < 8) /\ 8 =< Len(content) /\ Len(content) - 8 = n + Len(fill)
  BY <1>5, <1>7, <1>9, <1>10
<1>12. Field(content, 0) = ssrc
  <2>1. SubSeq(content, 0 + 1, 0 + Len(ssrc)) = ssrc
    BY <1>4, <1>10, LiesSlice
  <2> QED BY <1>4, <2>1, Zenon DEF Field
<1>13. SubSeq(content, 5, 8) = name
  <2>1. SubSeq(content, 4 + 1, 4 + Len(name)) = name
    BY <1>1, <1>10, LiesSlice
  <2>2. 4 + 1 = 5 /\ 4 + Len(name) = 8
    BY <1>2
  <2> QED BY <2>1, <2>2, Zenon
<1>14. rest = data \o Fill(n)
  <2>1. Lies(content, 8 + 0, data) /\ Lies(content, 8 + n, fill)
    BY <1>7, <1>10
  <2>2. /\ rest \in Seq(Byte) /\ Len(rest) = Len(content) - 8
        /\ Lies(rest, 0, data) /\ Lies(rest, n, fill)
    BY <1>1, <1>5, <1>9, <1>10, <1>11, <2>1, LiesFrom
  <2> HIDE DEF rest
  <2>3. rest = data \o fill
    BY <1>1, <1>9, <1>11, <2>2, MadeOfTwo DEF n
  <2> QED BY <1>8, <2>3, Zenon
<1>15. ParseAPP(content, p.subtype, p.padding_size)
         = <<[p EXCEPT !.data = data \o Fill(n)]>>
  BY <1>1, <1>11, <1>12, <1>13, <1>14, Zenon DEF ParseAPP, rest
<1>16. ParseOne(APP, p.subtype, content, p.padding_size)
         = ParseAPP(content, p.subtype, p.padding_size)
  BY TypesDiffer DEF ParseOne, TypeValues
<1>17. Reparsed(p) = <<[p EXCEPT !.data = data \o Fill(n)]>>
  BY <1>1, <1>3, <1>15, <1>16, Zenon DEF Reparsed, content, fill
<1>18. [p EXCEPT !.data = @ \o Fill(Len(@))] = [p EXCEPT !.data = data \o Fill(n)]
  BY DEF data, n
<1> QED BY <1>3, <1>6, <1>17, <1>18, Zenon DEF Serializes

----------------------------------------------------------------------------
(* A packet of any type, from its bytes.                                     *)
LEMMA SerializedComesBack ==
  ASSUME NEW p \in Packet, Buildable(p)
  PROVE  Serializes(p) /\ Reparsed(p) = <<Returned(p)>>
<1>1. p \in RtcpPacket
  BY RtcpCompoundAssumption
<1>2. CASE p \in SenderReport
  <2>1. p.type # APP
    BY <1>2, TypesDiffer DEF SenderReport, TypeValues
  <2> QED BY <1>2, <2>1, SenderReportsComeBack, Zenon DEF Returned
<1>3. CASE p \in ReceiverReport
  <2>1. p.type # APP
    BY <1>3, TypesDiffer DEF ReceiverReport, TypeValues
  <2> QED BY <1>3, <2>1, ReceiverReportsComeBack, Zenon DEF Returned
<1>4. CASE p \in SourceDescription
  <2>1. p.type # APP
    BY <1>4, TypesDiffer DEF SourceDescription, TypeValues
  <2> QED BY <1>4, <2>1, SourceDescriptionsComeBack, Zenon DEF Returned
<1>5. CASE p \in Goodbye
  <2>1. p.type # APP
    BY <1>5, TypesDiffer DEF Goodbye, TypeValues
  <2> QED BY <1>5, <2>1, GoodbyesComeBack, Zenon DEF Returned
<1>6. CASE p \in ApplicationDefined
  <2>1. p.type = APP
    BY <1>6 DEF ApplicationDefined
  <2> QED BY <1>6, <2>1, ApplicationsComeBack, Zenon DEF Returned
<1> QED BY <1>1, <1>2, <1>3, <1>4, <1>5, <1>6 DEF RtcpPacket

LEMMA SerializedBytes ==
  ASSUME NEW p \in Packet, Buildable(p)
  PROVE  Serialized(p) \in Seq(Byte)
BY SerializedComesBack DEF Serializes

LEMMA TypeNumbers ==
  ASSUME NEW p \in Packet
  PROVE  p.type \in 0 .. 255
<1>1. p.type \in {SR, RR, SDES, BYE, APP}
  <2>1. p \in RtcpPacket
    BY RtcpCompoundAssumption
  <2> QED BY <2>1 DEF RtcpPacket, SenderReport, ReceiverReport, SourceDescription,
                      Goodbye, ApplicationDefined
<1> QED BY <1>1 DEF SR, RR, SDES, BYE, APP

LEMMA BodyOfPacket ==
  ASSUME NEW p \in Packet, Buildable(p)
  PROVE  /\ p.padding_size \in 0 .. 255
         /\ Body(p) \in Seq(Byte)
         /\ Len(Body(p)) \in Nat /\ Len(Body(p)) % 4 = 0
         /\ p.padding_size =< Len(Body(p))
         /\ p.padding_size # 0 => Body(p)[Len(Body(p))] = p.padding_size
<1> DEFINE s    == Serialized(p)
           fill == Fill(Len(s))
           size == p.padding_size
<1>1. s \in Seq(Byte) /\ size \in Byte /\ size % 4 = 0
  BY SerializedBytes DEF Buildable
<1>2. /\ size \in 0 .. 255
      /\ Padding(size) \in Seq(Byte) /\ Len(Padding(size)) = size
      /\ size # 0 => Padding(size)[size] = size
  BY <1>1, PaddingFacts
<1>3. Len(s) \in Nat
  BY <1>1, BytesAreNumbers
<1>4. /\ fill \in Seq(Byte) /\ Len(fill) \in Nat
      /\ (Len(s) + Len(fill)) % 4 = 0
  BY <1>3, FillBytes, LenProperties
<1>5. Body(p) = (s \o fill) \o Padding(size)
  BY DEF Body
<1> HIDE DEF s, fill, size
<1>6. s \o fill \in Seq(Byte) /\ Len(s \o fill) = Len(s) + Len(fill)
  BY <1>1, <1>4, ConcatenationOfBytes
<1>7. /\ Body(p) \in Seq(Byte)
      /\ Len(Body(p)) = (Len(s) + Len(fill)) + size
      /\ size # 0 => Body(p)[(Len(s) + Len(fill)) + size] = size
  <2>1. size # 0 => size \in 1 .. Len(Padding(size))
    BY <1>2
  <2> DEFINE front == s \o fill
             pad   == Padding(size)
  <2>2. front \in Seq(Byte) /\ pad \in Seq(Byte)
    BY <1>2, <1>6
  <2> HIDE DEF front, pad
  <2>3. /\ front \o pad \in Seq(Byte)
        /\ Len(front \o pad) = Len(front) + Len(pad)
        /\ size # 0 => (front \o pad)[Len(front) + size] = pad[size]
    BY <2>1, <2>2, ConcatenationOfBytes DEF pad
  <2>4. Len(front) = Len(s) + Len(fill)
    BY <1>6 DEF front
  <2>5. Len(pad) = size /\ (size # 0 => pad[size] = size)
    BY <1>2 DEF pad
  <2>6. Body(p) = front \o pad
    BY <1>5 DEF front, pad
  <2>7. Len(front \o pad) = (Len(s) + Len(fill)) + size
    BY <2>3, <2>4, <2>5
  <2>8. size # 0 => (front \o pad)[(Len(s) + Len(fill)) + size] = size
    BY <2>3, <2>4, <2>5
  <2> QED BY <2>3, <2>6, <2>7, <2>8
<1>8. \A n \in Nat : n % 4 = 0 => (n + size) % 4 = 0
  BY <1>1, <1>2
<1>9. Len(s) + Len(fill) \in Nat
  BY <1>3, <1>4
<1>10. /\ ((Len(s) + Len(fill)) + size) % 4 = 0
       /\ (Len(s) + Len(fill)) + size \in Nat
       /\ size =< (Len(s) + Len(fill)) + size
  BY <1>2, <1>4, <1>8, <1>9
<1> QED BY <1>2, <1>7, <1>10 DEF size

(* A packet built says how long it is, and passes every check but that of    *)
(* its body.                                                                 *)
LEMMA BuiltFacts ==
  ASSUME NEW p \in Packet, Buildable(p), LengthFits(p)
  PROVE  /\ Built(p) \in Seq(Byte)
         /\ Len(Built(p)) \in Nat /\ Len(Built(p)) >= HeaderSize
         /\ Len(Built(p)) = 4 * (256 * Built(p)[3] + Built(p)[4] + 1)
         /\ Built(p)[1] \div 64 = 2 /\ Built(p)[1] % 32 = Count(p)
         /\ Built(p)[2] = p.type
         /\ (Built(p)[1] \div 32) % 2 = 1 <=> p.padding_size # 0
         /\ Len(Built(p)) = HeaderSize + Len(Body(p))
         /\ \A i \in 1 .. Len(Body(p)) : Built(p)[HeaderSize + i] = Body(p)[i]
         /\ (Built(p)[1] \div 32) % 2 = 1 =>
              /\ Len(Built(p)) > HeaderSize
              /\ Built(p)[Len(Built(p))] \in 1 .. Len(Built(p)) - HeaderSize
<1> DEFINE body  == Body(p)
           words == Len(body) \div 4
           flag  == IF p.padding_size = 0 THEN 0 ELSE 32
           first == 128 + flag + (Count(p) % 32)
<1>1. /\ p.padding_size \in 0 .. 255
      /\ body \in Seq(Byte)
      /\ Len(body) \in Nat /\ Len(body) % 4 = 0
      /\ p.padding_size =< Len(body)
      /\ p.padding_size # 0 => body[Len(body)] = p.padding_size
  BY BodyOfPacket
<1>2. words \in Nat /\ words =< (256 * 255) + 255 /\ Len(body) = 4 * words
  <2>1. words =< (256 * 255) + 255
    BY DEF LengthFits, MaxWords
  <2>2. words \in Nat /\ Len(body) = 4 * words
    BY <1>1, WholeWords
  <2> HIDE DEF words
  <2> QED BY <2>1, <2>2
<1>3. Count(p) \in 0 .. 31
  BY DEF Buildable, MaxCount
<1>4. /\ first \in 0 .. 255 /\ first \div 64 = 2 /\ first % 32 = Count(p)
      /\ (first \div 32) % 2 = 1 <=> p.padding_size # 0
  BY <1>3
<1>5. p.type \in 0 .. 255
  BY TypeNumbers
<1> HIDE DEF words, first
<1>6. words \div 256 \in 0 .. 255 /\ words % 256 \in 0 .. 255
  BY <1>2, HalvesOfWords
<1>7. Header(p) = <<first, p.type, words \div 256, words % 256>>
  BY DEF Header, words, first
<1> DEFINE head == <<first, p.type, words \div 256, words % 256>>
<1>8. head \in Seq(Byte) /\ Len(head) = 4
  <2>1. /\ first \in Byte /\ p.type \in Byte /\ words \div 256 \in Byte
        /\ words % 256 \in Byte
    BY <1>4, <1>5, <1>6 DEF Byte
  <2> QED BY <2>1
<1>9. /\ Built(p) \in Seq(Byte)
      /\ Len(Built(p)) = 4 + Len(body)
      /\ \A i \in 1 .. 4 : Built(p)[i] = head[i]
      /\ \A i \in 1 .. Len(body) : Built(p)[4 + i] = body[i]
  <2>1. Built(p) = head \o body
    BY <1>7 DEF Built
  <2> HIDE DEF head, body
  <2>2. /\ head \o body \in Seq(Byte)
        /\ Len(head \o body) = Len(head) + Len(body)
        /\ \A i \in 1 .. Len(head) : (head \o body)[i] = head[i]
        /\ \A i \in 1 .. Len(body) : (head \o body)[Len(head) + i] = body[i]
    BY <1>1, <1>8, ConcatenationOfBytes
  <2> QED BY <1>8, <2>1, <2>2
<1>10. /\ Built(p)[1] = first /\ Built(p)[2] = p.type /\ Built(p)[3] = words \div 256
       /\ Built(p)[4] = words % 256
  BY <1>9
<1>11. p.padding_size # 0 =>
         /\ Len(body) > 0
         /\ Built(p)[4 + Len(body)] \in 1 .. Len(body)
  <2> HIDE DEF body
  <2>1. ASSUME p.padding_size # 0
        PROVE  /\ Len(body) \in 1 .. Len(body) /\ Len(body) > 0
               /\ p.padding_size \in 1 .. Len(body)
    <3>1. \A n \in Nat, k \in 0 .. 255 :
            k # 0 /\ k =< n => n \in 1 .. n /\ n > 0 /\ k \in 1 .. n
      OBVIOUS
    <3> QED BY Zenon, <1>1, <2>1, <3>1
  <2>2. p.padding_size # 0 => Built(p)[4 + Len(body)] = body[Len(body)]
    BY <1>9, <2>1
  <2> QED BY <1>1, <2>1, <2>2
<1> HIDE DEF body, head
<1>12. /\ Len(Built(p)) \in Nat /\ Len(Built(p)) >= HeaderSize
       /\ Len(Built(p)) - HeaderSize = Len(body)
       /\ Len(Built(p)) > HeaderSize <=> Len(body) > 0
  BY <1>1, <1>9 DEF HeaderSize
<1>13. Len(Built(p)) = 4 * (256 * Built(p)[3] + Built(p)[4] + 1)
  <2>1. Len(Built(p)) = 4 + 4 * words
    BY <1>2, <1>9
  <2> QED BY <1>2, <1>10, <2>1, HalvesOfWords
<1>14. /\ Len(Built(p)) = HeaderSize + Len(body)
       /\ \A i \in 1 .. Len(body) : Built(p)[HeaderSize + i] = body[i]
  BY <1>9 DEF HeaderSize
<1> QED BY <1>4, <1>9, <1>10, <1>11, <1>12, <1>13, <1>14 DEF body

----------------------------------------------------------------------------
(* A packet that is sent by itself.                                          *)

(* ParsedAt, of a datagram that is one packet.                               *)
Alone(bytes) ==
  LET body    == SubSeq(bytes, HeaderSize + 1, Len(bytes))
      flag    == (bytes[1] \div 32) % 2 = 1
      fits    == body # <<>> /\ Last(body) \in 1 .. Len(body)
      size    == IF flag /\ fits THEN Last(body) ELSE 0
      content == SubSeq(body, 1, Len(body) - size)
  IN  ParseOne(bytes[2], bytes[1] % 32, content, size)

(* The body parser of a packet built is handed what was serialized, filled   *)
(* to words, without the padding.                                            *)
LEMMA ContentAlone ==
  ASSUME NEW p \in Packet, Buildable(p), LengthFits(p)
  PROVE  LET s == Serialized(p) IN
         Alone(Built(p))
           = ParseOne(p.type, Count(p), s \o Fill(Len(s)), p.padding_size)
<1> DEFINE s     == Serialized(p)
           fill  == Fill(Len(s))
           front == s \o fill
           size  == p.padding_size
           pad   == Padding(size)
           b     == Built(p)
<1>1. /\ b \in Seq(Byte) /\ Len(b) = HeaderSize + Len(Body(p))
      /\ b[1] % 32 = Count(p) /\ b[2] = p.type
      /\ (b[1] \div 32) % 2 = 1 <=> size # 0
      /\ \A i \in 1 .. Len(Body(p)) : b[HeaderSize + i] = Body(p)[i]
  BY BuiltFacts
<1>2. /\ size \in 0 .. 255
      /\ Body(p) \in Seq(Byte) /\ Len(Body(p)) \in Nat
      /\ size =< Len(Body(p))
      /\ size # 0 => Body(p)[Len(Body(p))] = size
  BY BodyOfPacket
<1>3. SubSeq(b, HeaderSize + 1, HeaderSize + Len(Body(p))) = Body(p)
  <2>1. HeaderSize \in Nat /\ HeaderSize + Len(Body(p)) =< Len(b)
    BY <1>1, <1>2 DEF HeaderSize
  <2> QED BY <1>1, <1>2, <2>1, SliceIs
<1>4. s \in Seq(Byte) /\ Len(s) \in Nat
  BY SerializedBytes, LenProperties
<1>5. fill \in Seq(Byte)
  BY <1>4, FillBytes
<1>6. front \in Seq(Byte)
  BY <1>4, <1>5, ConcatenationOfBytes
<1>7. pad \in Seq(Byte) /\ Len(pad) = size
  BY <1>2, PaddingFacts DEF Byte
<1>8. Body(p) = front \o pad
  BY DEF Body
<1> HIDE DEF front, fill, pad, b, s, size
<1>9. /\ Len(Body(p)) = Len(front) + size /\ Len(front) \in Nat
      /\ \A i \in 1 .. Len(front) : Body(p)[i] = front[i]
  <2>1. /\ Len(front \o pad) = Len(front) + Len(pad)
        /\ \A i \in 1 .. Len(front) : (front \o pad)[i] = front[i]
    BY <1>6, <1>7, ConcatenationOfBytes
  <2>2. Len(front) \in Nat
    BY <1>6, LenProperties
  <2> QED BY <1>7, <1>8, <2>1, <2>2
<1>10. SubSeq(Body(p), 1, Len(Body(p)) - size) = front
  <2>1. /\ 0 \in Nat /\ 0 + Len(front) =< Len(Body(p))
        /\ \A i \in 1 .. Len(front) : 0 + i = i
        /\ 0 + 1 = 1 /\ 0 + Len(front) = Len(Body(p)) - size
    BY <1>2, <1>9
  <2>2. \A i \in 1 .. Len(front) : Body(p)[0 + i] = front[i]
    BY <1>9, <2>1
  <2>3. SubSeq(Body(p), 0 + 1, 0 + Len(front)) = front
    BY <1>2, <1>6, <2>1, <2>2, SliceIs
  <2> QED BY Zenon, <2>1, <2>3
<1>11. size # 0 =>
         /\ Body(p) # <<>> /\ Last(Body(p)) = size
         /\ Last(Body(p)) \in 1 .. Len(Body(p))
  <2>1. ASSUME size # 0
        PROVE  Len(Body(p)) # 0 /\ size \in 1 .. Len(Body(p))
    BY <1>2, <2>1
  <2>2. Len(<<>>) = 0
    OBVIOUS
  <2> QED BY <1>2, <2>1, <2>2 DEF Last
<1> DEFINE body == SubSeq(b, HeaderSize + 1, Len(b))
           flag == (b[1] \div 32) % 2 = 1
           fits == body # <<>> /\ Last(body) \in 1 .. Len(body)
           cut  == IF flag /\ fits THEN Last(body) ELSE 0
<1>12. body = Body(p)
  BY <1>1, <1>3
<1> HIDE DEF body
<1>13. cut = size
  <2>1. CASE size = 0
    BY <1>1, <2>1
  <2>2. CASE size # 0
    BY <1>1, <1>11, <1>12, <2>2
  <2> QED BY <2>1, <2>2
<1>14. Alone(b) = ParseOne(b[2], b[1] % 32, SubSeq(body, 1, Len(body) - cut), cut)
  BY DEF Alone, body
<1> HIDE DEF cut
<1>15. Alone(b) = ParseOne(p.type, Count(p), front, size)
  BY Zenon, <1>1, <1>10, <1>12, <1>13, <1>14
<1> QED BY <1>15 DEF b, front, fill, s, size

(* What the builder accepts comes back when it is sent by itself, whatever   *)
(* its type, and however many blocks, chunks, items, sources or bytes of     *)
(* data it carries.                                                          *)
THEOREM PacketsComeBack ==
  ASSUME NEW p \in Packet, Buildable(p), LengthFits(p)
  PROVE  Alone(Built(p)) = <<Returned(p)>>
BY SerializedComesBack, ContentAlone, Zenon DEF Reparsed

----------------------------------------------------------------------------
(* Types.                                                                    *)

LEMMA FlippedIsByte ==
  ASSUME NEW byte \in Byte, NEW bit \in Bit
  PROVE  Flipped(byte, bit) \in Byte
<1> DEFINE weight == <<1, 2, 4, 8, 16, 32, 64, 128>>[bit + 1]
<1>1. bit \in 0 .. 7
  BY RtcpCompoundAssumption
<1>2. weight \in {1, 2, 4, 8, 16, 32, 64, 128}
  BY <1>1
<1>3. byte \in 0 .. 255
  BY DEF Byte
<1> HIDE DEF weight
<1>4. ASSUME NEW w \in {1, 2, 4, 8, 16, 32, 64, 128}
      PROVE  /\ (byte \div w) % 2 = 0 => byte + w \in 0 .. 255
             /\ (byte \div w) % 2 # 0 => byte - w \in 0 .. 255
  <2>1. CASE w = 1
    BY <1>3, <2>1
  <2>2. CASE w = 2
    BY <1>3, <2>2
  <2>3. CASE w = 4
    BY <1>3, <2>3
  <2>4. CASE w = 8
    BY <1>3, <2>4
  <2>5. CASE w = 16
    BY <1>3, <2>5
  <2>6. CASE w = 32
    BY <1>3, <2>6
  <2>7. CASE w = 64
    BY <1>3, <2>7
  <2>8. CASE w = 128
    BY <1>3, <2>8
  <2> QED BY <1>4, <2>1, <2>2, <2>3, <2>4, <2>5, <2>6, <2>7, <2>8
<1>5. Flipped(byte, bit) = IF (byte \div weight) % 2 = 0
                           THEN byte + weight ELSE byte - weight
  BY DEF Flipped, weight
<1> QED BY <1>2, <1>4, <1>5 DEF Byte

LEMMA TypeInit == Init => TypeOK
<1> SUFFICES ASSUME Init
             PROVE  TypeOK
  OBVIOUS
<1>1. /\ <<>> \in Seq(SentType) /\ <<>> \in Seq(Byte)
      /\ <<>> \in Seq(Parsable) /\ Len(<<>>) = 0
  OBVIOUS
<1>2. damage \in DamageType
  BY DEF Init, DamageType
<1>3. [status |-> "parsing", offset |-> 0, packets |-> <<>>] \in ParserType
  BY <1>1 DEF ParserType
<1> QED BY <1>1, <1>2, <1>3 DEF Init, TypeOK

LEMMA BuildOneType ==
  ASSUME TypeOK, NEW p \in Packet, BuildOne(p)
  PROVE  TypeOK'
<1>1. Built(p) \in Seq(Byte)
  BY BuiltFacts DEF BuildOne
<1>2. /\ datagram' = datagram \o Built(p)
      /\ datagram' \in Seq(Byte)
      /\ Len(datagram') \in Nat /\ Len(datagram) =< Len(datagram')
  <2>1. datagram' = datagram \o Built(p) /\ datagram \in Seq(Byte)
    BY DEF BuildOne, TypeOK
  <2>2. /\ datagram' \in Seq(Byte)
        /\ Len(datagram') = Len(datagram) + Len(Built(p))
    BY <1>1, <2>1, ConcatenationOfBytes
  <2>3. Len(datagram) \in Nat /\ Len(Built(p)) \in Nat
    BY <1>1, <2>1, LenProperties
  <2> QED BY <2>1, <2>2, <2>3
<1>3. sent' \in Seq(SentType)
  <2>1. [packet |-> p, end |-> Len(datagram')] \in SentType
    BY <1>2 DEF SentType
  <2>2. sent' = Append(sent, [packet |-> p, end |-> Len(datagram')])
    BY DEF BuildOne
  <2> QED BY <2>1, <2>2, AppendProperties DEF TypeOK
<1>4. phase' = phase /\ damage' = damage /\ parser' = parser
  BY DEF BuildOne
<1>5. \A m \in Mode : parser[m].offset =< Len(datagram')
  <2>1. \A m \in Mode : /\ parser[m].offset \in Nat /\ Len(datagram) \in Nat
                        /\ parser[m].offset =< Len(datagram)
    BY ParserFields
  <2> QED BY <1>2, <2>1
<1> QED BY <1>2, <1>3, <1>4, <1>5 DEF TypeOK

LEMMA DeliverType ==
  ASSUME TypeOK, NEW bytes \in Seq(Byte), NEW kind \in {"cut", "flip"},
         NEW at \in Nat, Deliver(bytes, kind, at)
  PROVE  TypeOK'
<1>1. /\ phase = "building" /\ phase' = "parsing" /\ datagram' = bytes
      /\ damage' = [kind |-> kind, at |-> at]
      /\ sent' = sent /\ parser' = parser
  BY DEF Deliver
<1>2. damage' \in DamageType
  BY <1>1 DEF DamageType
<1>3. \A m \in Mode : parser'[m].offset =< Len(datagram')
  <2>1. Len(bytes) \in Nat
    BY LenProperties
  <2> QED BY <1>1, <2>1 DEF TypeOK
<1> QED BY <1>1, <1>2, <1>3 DEF TypeOK

LEMMA ParseType ==
  ASSUME TypeOK, NEW m \in Mode, Turn(m)
  PROVE  TypeOK'
<1>1. /\ phase = "parsing"
      /\ sent' = sent /\ phase' = phase /\ datagram' = datagram /\ damage' = damage
      /\ parser'[m] \in ParserType
      /\ parser' = [parser EXCEPT ![m] = parser'[m]]
      /\ parser'[m].offset =< Len(datagram)
  BY DEF Turn, Running
<1>2. /\ parser' \in [Mode -> ParserType]
      /\ \A k \in Mode \ {m} : parser'[k] = parser[k]
  BY <1>1 DEF TypeOK
<1> QED BY <1>1, <1>2 DEF TypeOK

LEMMA CutBytes ==
  ASSUME TypeOK, NEW n \in 0 .. Len(datagram)
  PROVE  /\ SubSeq(datagram, 1, n) \in Seq(Byte)
         /\ Len(SubSeq(datagram, 1, n)) = n
         /\ \A i \in 1 .. n : SubSeq(datagram, 1, n)[i] = datagram[i]
<1>1. datagram \in Seq(Byte) /\ Len(datagram) \in Nat
  BY LenProperties DEF TypeOK
<1>2. n \in Nat /\ 0 \in Nat /\ n =< Len(datagram) /\ n - 0 = n /\ 0 + 1 = 1
  BY <1>1
<1>3. /\ SubSeq(datagram, 0 + 1, n) \in Seq(Byte)
      /\ Len(SubSeq(datagram, 0 + 1, n)) = IF n =< 0 THEN 0 ELSE n - 0
      /\ \A i \in 1 .. n - 0 : SubSeq(datagram, 0 + 1, n)[i] = datagram[0 + i]
  BY ZenonT(40), <1>1, <1>2, SliceOfBytes
<1>4. /\ IF n =< 0 THEN n = 0 ELSE TRUE
      /\ \A i \in 1 .. n : 0 + i = i
  BY <1>2
<1> QED BY <1>2, <1>3, <1>4

LEMMA FlippedBytes ==
  ASSUME TypeOK, NEW at \in 0 .. Len(datagram) - 1, NEW bit \in Bit
  PROVE  LET bytes == [datagram EXCEPT ![at + 1] = Flipped(@, bit)] IN
         /\ bytes \in Seq(Byte)
         /\ Len(bytes) = Len(datagram)
         /\ \A i \in 1 .. Len(datagram) : i # at + 1 => bytes[i] = datagram[i]
<1>1. datagram \in Seq(Byte) /\ Len(datagram) \in Nat
  BY LenProperties DEF TypeOK
<1>2. at + 1 \in 1 .. Len(datagram)
  BY <1>1
<1>3. Flipped(datagram[at + 1], bit) \in Byte
  BY <1>1, <1>2, ElementOfSeq, FlippedIsByte
<1> DEFINE bytes == [datagram EXCEPT ![at + 1] = Flipped(@, bit)]
<1>4. bytes = [datagram EXCEPT ![at + 1] = Flipped(datagram[at + 1], bit)]
  OBVIOUS
<1>5. bytes \in Seq(Byte) /\ Len(bytes) = Len(datagram)
      /\ \A i \in 1 .. Len(datagram) : i # at + 1 => bytes[i] = datagram[i]
  BY <1>1, <1>2, <1>3, <1>4, ExceptSeq
<1> QED BY <1>5

LEMMA TypeStep == TypeOK /\ [Next]_vars => TypeOK'
<1> SUFFICES ASSUME TypeOK, [Next]_vars
             PROVE  TypeOK'
  OBVIOUS
<1>1. ASSUME NEW p \in Packet, BuildOne(p)
      PROVE  TypeOK'
  BY <1>1, BuildOneType
<1>2. ASSUME NEW p \in Packet, BuildError(p)
      PROVE  TypeOK'
  BY <1>2 DEF BuildError, TypeOK
<1>3. ASSUME NEW n \in 0 .. Len(datagram), Cut(n)
      PROVE  TypeOK'
  <2>1. SubSeq(datagram, 1, n) \in Seq(Byte) /\ n \in Nat
    BY CutBytes
  <2> QED BY <1>3, <2>1, DeliverType DEF Cut
<1>4. ASSUME NEW at \in 0 .. Len(datagram) - 1, NEW bit \in Bit, FlipBit(at, bit)
      PROVE  TypeOK'
  <2>1. [datagram EXCEPT ![at + 1] = Flipped(@, bit)] \in Seq(Byte) /\ at \in Nat
    BY FlippedBytes
  <2> QED BY <1>4, <2>1, DeliverType DEF FlipBit
<1>5. ASSUME NEW m \in Mode, Parse(m)
      PROVE  TypeOK'
  BY <1>5, TurnStep, ParseType
<1>6. CASE UNCHANGED vars
  BY <1>6 DEF vars, TypeOK
<1> QED BY <1>1, <1>2, <1>3, <1>4, <1>5, <1>6 DEF Next

----------------------------------------------------------------------------
(* The two modes.  The strict parser walks over packets that are whole and   *)
(* well formed; the lenient one, which comes after, takes the same walk, and *)
(* only goes on from where strict mode has raised.                           *)

Strict == parser["strict"]

Lenient == parser["lenient"]

Walked(at) ==
  /\ Len(at) = Len(Strict.packets) + 1
  /\ at[1] = 0
  /\ \A i \in 1 .. Len(Strict.packets) :
       /\ WholeAt(at[i])
       /\ ParsedAt(at[i]) = <<Strict.packets[i]>>
       /\ at[i + 1] = PacketEnd(at[i])
  /\ at[Len(Strict.packets) + 1] = Strict.offset

InTurn ==
  /\ Strict.status = "parsing" =>
       /\ Lenient.status = "parsing"
       /\ Lenient.offset = 0
       /\ Lenient.packets = <<>>
  /\ Strict.status = "done" =>
       HeaderSize =< Len(datagram) /\ Strict.offset = Len(datagram)

Behind(at) ==
  /\ Len(Lenient.packets) =< Len(Strict.packets)
  /\ \A i \in 1 .. Len(Lenient.packets) : Lenient.packets[i] = Strict.packets[i]
  /\ Lenient.offset = at[Len(Lenient.packets) + 1]
  /\ Lenient.status # "parsing" =>
       /\ Len(Lenient.packets) = Len(Strict.packets)
       /\ Strict.status = "done" => Lenient.status = "done"

Beyond ==
  /\ Strict.status = "raised"
  /\ Len(Strict.packets) =< Len(Lenient.packets)
  /\ \A i \in 1 .. Len(Strict.packets) : Lenient.packets[i] = Strict.packets[i]

Agree ==
  /\ InTurn
  /\ \E at \in Seq(Nat) : Walked(at) /\ (Behind(at) \/ Beyond)

Fresh ==
  \A m \in Mode : /\ parser[m].status = "parsing"
                  /\ parser[m].offset = 0
                  /\ parser[m].packets = <<>>

LEMMA AgreeFresh == Fresh => Agree
<1> SUFFICES ASSUME Fresh
             PROVE  Agree
  OBVIOUS
<1>1. /\ Strict.status = "parsing" /\ Strict.offset = 0 /\ Strict.packets = <<>>
      /\ Lenient.status = "parsing" /\ Lenient.offset = 0 /\ Lenient.packets = <<>>
  BY Modes DEF Fresh, Strict, Lenient
<1> DEFINE at == <<0>>
<1>2. at \in Seq(Nat) /\ Len(at) = 1 /\ at[1] = 0
  OBVIOUS
<1>3. Len(<<>>) = 0 /\ 0 + 1 = 1 /\ (1 .. 0) = {} /\ 0 =< 0
  OBVIOUS
<1> HIDE DEF at
<1>4. Walked(at)
  BY <1>1, <1>2, <1>3 DEF Walked
<1>5. Behind(at)
  BY <1>1, <1>2, <1>3 DEF Behind
<1>6. InTurn
  BY <1>1 DEF InTurn
<1> QED BY <1>2, <1>4, <1>5, <1>6 DEF Agree

LEMMA OtherMode ==
  ASSUME TypeOK, NEW m \in Mode, Turn(m)
  PROVE  /\ parser'[m] \in ParserType
         /\ \A k \in Mode : k # m => parser'[k] = parser[k]
         /\ datagram' = datagram
<1>1. /\ parser'[m] \in ParserType
      /\ parser' = [parser EXCEPT ![m] = parser'[m]]
      /\ datagram' = datagram
  BY DEF Turn
<1> QED BY <1>1 DEF TypeOK

LEMMA SameBytes ==
  ASSUME datagram' = datagram, NEW at
  PROVE  /\ WholeAt(at)' <=> WholeAt(at)
         /\ PacketEnd(at)' = PacketEnd(at)
         /\ ParsedAt(at)' = ParsedAt(at)
         /\ Improper(at)' <=> Improper(at)
  BY DEF WholeAt, PacketEnd, ParsedAt, ByteAt, BodyAt, PaddingSize, PaddingFits,
         PaddingFlag, Improper, Version

LEMMA AgreeStrict ==
  ASSUME TypeOK, Agree, Turn("strict")
  PROVE  Agree'
<1>1. /\ Strict.status = "parsing" /\ Lenient' = Lenient /\ datagram' = datagram
      /\ Lenient.status = "parsing" /\ Lenient.offset = 0 /\ Lenient.packets = <<>>
  BY Modes, OtherMode DEF Turn, Running, Agree, InTurn, Strict, Lenient
<1>2. /\ Strict.offset \in Nat /\ Strict.packets \in Seq(Parsable)
      /\ Len(Strict.packets) \in Nat
      /\ datagram \in Seq(Byte)
  BY Modes, ParserFields DEF Strict, TypeOK
<1>3. PICK at \in Seq(Nat) : Walked(at)
  BY DEF Agree
<1>4. Len(<<>>) = 0 /\ 0 + 1 = 1 /\ (1 .. 0) = {}
  OBVIOUS
<1>5. CASE Stops("strict")
  <2>1. /\ Strict'.packets = Strict.packets /\ Strict'.offset = Strict.offset
        /\ Strict'.status \in {"done", "raised"}
        /\ Strict'.status = "done" =>
             HeaderSize =< Len(datagram) /\ Strict.offset = Len(datagram)
    BY <1>5 DEF Stops, Refused, Strict
  <2>2. Walked(at)'
    BY <1>1, <1>3, <2>1, SameBytes DEF Walked
  <2>3. Behind(at)'
    BY <1>1, <1>2, <1>3, <1>4, <2>1 DEF Behind, Walked
  <2>4. InTurn'
    BY <1>1, <2>1 DEF InTurn
  <2> QED BY <2>2, <2>3, <2>4 DEF Agree
<1>6. CASE Takes("strict")
  <2>1. /\ WholeAt(Strict.offset)
        /\ Strict'.status = "parsing" /\ Strict'.offset = PacketEnd(Strict.offset)
    BY <1>6 DEF Takes, Strict
  <2>2. PICK p \in Parsable :
          /\ ParsedAt(Strict.offset) = <<p>>
          /\ Strict'.packets = Append(Strict.packets, p)
    BY <1>6 DEF Takes, Strict
  <2> DEFINE n   == Len(Strict.packets)
             end == PacketEnd(Strict.offset)
  <2>3. end \in Nat
    BY <1>2, <2>1, HeaderFacts DEF WholeAt
  <2>4. /\ Len(Strict'.packets) = n + 1
        /\ \A i \in 1 .. n : Strict'.packets[i] = Strict.packets[i]
        /\ Strict'.packets[n + 1] = p
    BY <1>2, <2>2, AppendProperties
  <2>5. Len(at) = n + 1 /\ at[1] = 0 /\ at[n + 1] = Strict.offset /\ n \in Nat
    BY <1>2, <1>3 DEF Walked
  <2> HIDE DEF n, end
  <2>6. PICK to \in Seq(Nat) :
          /\ Len(to) = (n + 1) + 1
          /\ \A i \in 1 .. n + 1 : to[i] = at[i]
          /\ to[(n + 1) + 1] = end
    <3> DEFINE longer == Append(at, end)
    <3>1. /\ longer \in Seq(Nat) /\ Len(longer) = (n + 1) + 1
          /\ \A i \in 1 .. n + 1 : longer[i] = at[i]
          /\ longer[(n + 1) + 1] = end
      BY <2>3, <2>5, AppendProperties
    <3> QED BY <3>1
  <2>7. to[1] = 0 /\ to[n + 1] = Strict.offset
    BY <2>5, <2>6
  <2>8. ASSUME NEW i \in 1 .. n + 1
        PROVE  /\ WholeAt(to[i])
               /\ ParsedAt(to[i]) = <<Strict'.packets[i]>>
               /\ to[i + 1] = PacketEnd(to[i])
    <3>1. CASE i = n + 1
      BY <2>1, <2>2, <2>4, <2>6, <2>7, <3>1 DEF end
    <3>2. CASE i \in 1 .. n
      <4>1. i + 1 \in 1 .. n + 1 /\ i \in 1 .. n + 1
        BY <2>5, <3>2
      <4>2. to[i] = at[i] /\ to[i + 1] = at[i + 1]
        BY <2>6, <4>1
      <4> QED BY <1>3, <2>4, <3>2, <4>2 DEF Walked, n
    <3> QED BY <2>5, <3>1, <3>2
  <2>9. Walked(to)'
    <3>1. to[(n + 1) + 1] = Strict'.offset
      BY <2>1, <2>6 DEF end
    <3> QED BY <1>1, <2>4, <2>6, <2>7, <2>8, <3>1, SameBytes DEF Walked
  <2>10. Behind(to)'
    BY <1>1, <1>4, <2>4, <2>5, <2>7 DEF Behind
  <2>11. InTurn'
    BY <1>1, <2>1 DEF InTurn
  <2> QED BY <2>6, <2>9, <2>10, <2>11 DEF Agree
<1> QED BY <1>5, <1>6 DEF Turn, Skips

LEMMA AgreeLenient ==
  ASSUME TypeOK, Agree, Turn("lenient")
  PROVE  Agree'
<1>1. /\ Strict.status \in {"done", "raised"} /\ Strict' = Strict
      /\ datagram' = datagram /\ Lenient.status = "parsing"
  BY Modes, OtherMode, ParserFields DEF Turn, Running, Strict, Lenient
<1>2. /\ Strict.packets \in Seq(Parsable) /\ Len(Strict.packets) \in Nat
      /\ Lenient.packets \in Seq(Parsable) /\ Len(Lenient.packets) \in Nat
      /\ Lenient.offset \in Nat /\ Len(datagram) \in Nat
  BY Modes, ParserFields DEF Strict, Lenient
<1>3. PICK at \in Seq(Nat) : Walked(at) /\ (Behind(at) \/ Beyond)
  BY DEF Agree
<1>4. InTurn'
  BY <1>1 DEF Agree, InTurn
<1>5. Walked(at)'
  BY <1>1, <1>3, SameBytes DEF Walked
<1> DEFINE k == Len(Lenient.packets)
           n == Len(Strict.packets)
<1>6. \/ /\ Lenient'.packets = Lenient.packets
      \/ \E p \in Parsable : Lenient'.packets = Append(Lenient.packets, p)
  BY DEF Turn, Stops, Skips, Takes, Lenient
<1>7. /\ Len(Lenient'.packets) \in Nat /\ k =< Len(Lenient'.packets)
      /\ \A i \in 1 .. k : Lenient'.packets[i] = Lenient.packets[i]
  BY <1>2, <1>6, AppendProperties, SMTT(40)
(* Past the end of the strict walk nothing can go wrong.                     *)
<1>8. ASSUME Strict.status = "raised", n =< k,
             \A i \in 1 .. n : Lenient.packets[i] = Strict.packets[i]
      PROVE  Agree'
  <2>1. n =< Len(Lenient'.packets)
    BY <1>2, <1>7, <1>8
  <2>2. \A i \in 1 .. n : i \in 1 .. k
    BY <1>2, <1>8
  <2>3. \A i \in 1 .. n : Lenient'.packets[i] = Strict.packets[i]
    BY <1>7, <1>8, <2>2
  <2>4. Beyond'
    BY <1>1, <1>8, <2>1, <2>3 DEF Beyond
  <2> QED BY <1>4, <1>5, <2>4 DEF Agree
<1>9. CASE Beyond
  BY <1>8, <1>9 DEF Beyond
<1>10. CASE Behind(at) /\ k = n
  <2>1. CASE Strict.status = "raised"
    BY <1>2, <1>8, <1>10, <2>1 DEF Behind
  <2>2. CASE Strict.status = "done"
    <3>1. /\ Lenient.offset = Len(datagram) /\ HeaderSize =< Len(datagram)
          /\ ~(Len(datagram) < HeaderSize)
      BY <1>2, <1>3, <1>10, <2>2 DEF Behind, Walked, Agree, InTurn, HeaderSize
    <3>2. ~WholeAt(Lenient.offset)
      BY <1>2, <3>1 DEF WholeAt, HeaderSize
    <3>3. Stops("lenient")
      BY <3>2 DEF Turn, Skips, Takes, Lenient
    <3>4. /\ Lenient'.packets = Lenient.packets /\ Lenient'.offset = Lenient.offset
          /\ Lenient'.status = "done"
      BY <3>1, <3>3 DEF Stops, Lenient
    <3>5. Behind(at)'
      BY <1>1, <1>10, <3>4 DEF Behind
    <3> QED BY <1>4, <1>5, <3>5 DEF Agree
  <2> QED BY <1>1, <2>1, <2>2
<1>11. CASE Behind(at) /\ k # n
  <2>1. k + 1 \in 1 .. n /\ k < n
    BY <1>2, <1>11 DEF Behind
  <2>2. /\ WholeAt(Lenient.offset)
        /\ ParsedAt(Lenient.offset) = <<Strict.packets[k + 1]>>
        /\ at[(k + 1) + 1] = PacketEnd(Lenient.offset)
    BY <1>3, <1>11, <2>1 DEF Walked, Behind
  <2>3. ~Stops("lenient")
    <3>1. Lenient.offset + HeaderSize =< Len(datagram)
      BY <2>2 DEF WholeAt
    <3>2. ~(Len(datagram) < HeaderSize) /\ Lenient.offset # Len(datagram)
      BY <1>2, <3>1 DEF HeaderSize
    <3> QED BY <2>2, <3>2 DEF Stops, Lenient
  <2>4. Takes("lenient")
    BY <2>2, <2>3 DEF Turn, Skips, Lenient, Malformed
  <2>5. PICK p \in Parsable :
          /\ ParsedAt(Lenient.offset) = <<p>>
          /\ Lenient'.packets = Append(Lenient.packets, p)
    BY <2>4 DEF Takes, Lenient
  <2>6. /\ p = Strict.packets[k + 1]
        /\ Lenient'.status = "parsing" /\ Lenient'.offset = at[(k + 1) + 1]
    BY <2>2, <2>4, <2>5 DEF Takes, Lenient
  <2>7. /\ Len(Lenient'.packets) = k + 1
        /\ Lenient'.packets[k + 1] = p
    BY <1>2, <2>5, AppendProperties
  <2>8. \A i \in 1 .. k : Lenient.packets[i] = Strict.packets[i]
    BY <1>11 DEF Behind
  <2>9. \A i \in 1 .. k + 1 : Lenient'.packets[i] = Strict.packets[i]
    <3>1. \A i \in 1 .. k + 1 : i \in 1 .. k \/ i = k + 1
      BY <1>2
    <3> QED BY <1>7, <2>6, <2>7, <2>8, <3>1
  <2>10. k + 1 =< n
    BY <1>2, <2>1
  <2>11. Behind(at)'
    BY <1>1, <2>6, <2>7, <2>9, <2>10 DEF Behind
  <2> QED BY <1>4, <1>5, <2>11 DEF Agree
<1> QED BY <1>3, <1>9, <1>10, <1>11

----------------------------------------------------------------------------
(* Where the builder has put the packets.  Packet i lies from Start(i) to    *)
(* Start(i + 1); what has arrived of it is as it was built, but for the byte *)
(* that was hit.                                                             *)

PacketOf(i) == sent[i].packet

Hit(at) == damage.kind = "flip" /\ damage.at = at

Joined ==
  /\ phase = "parsing" <=> damage.kind # "none"
  /\ damage.kind = "cut" =>
       Len(datagram) = damage.at /\ damage.at =< Start(Len(sent) + 1)
  /\ damage.kind = "flip" => damage.at < Len(datagram)
  /\ damage.kind # "cut" => Len(datagram) = Start(Len(sent) + 1)
  /\ \A i \in 1 .. Len(sent) :
       /\ Buildable(PacketOf(i)) /\ LengthFits(PacketOf(i))
       /\ Start(i + 1) = Start(i) + Len(Built(PacketOf(i)))
       /\ \A j \in 1 .. Len(Built(PacketOf(i))) :
            Start(i) + j =< Len(datagram) /\ ~Hit(Start(i) + j - 1)
              => datagram[Start(i) + j] = Built(PacketOf(i))[j]
  /\ \A i, j \in 1 .. Len(sent) + 1 : i < j => Start(i) < Start(j)

LEMMA StartType ==
  ASSUME TypeOK, NEW i \in 1 .. Len(sent) + 1
  PROVE  Start(i) \in Nat
<1>1. Len(sent) \in Nat /\ sent \in Seq(SentType)
  BY LenProperties DEF TypeOK
<1>2. CASE i # 1
  <2>1. i - 1 \in 1 .. Len(sent)
    BY <1>1, <1>2
  <2>2. sent[i - 1] \in SentType
    BY <1>1, <2>1, ElementOfSeq
  <2> QED BY <1>2, <2>2 DEF Start, SentType
<1> QED BY <1>2 DEF Start

LEMMA SentFacts ==
  ASSUME TypeOK, NEW i \in 1 .. Len(sent)
  PROVE  /\ PacketOf(i) \in Packet /\ sent[i].end \in Nat
         /\ Start(i + 1) = sent[i].end
         /\ Start(i) \in Nat /\ Start(i + 1) \in Nat
<1>1. Len(sent) \in Nat /\ sent[i] \in SentType
  BY LenProperties, ElementOfSeq DEF TypeOK
<1>2. i + 1 # 1 /\ (i + 1) - 1 = i
  BY <1>1
<1>3. i \in 1 .. Len(sent) + 1
  BY <1>1
<1> QED BY <1>1, <1>2, <1>3, StartType DEF PacketOf, SentType, Start

LEMMA JoinedInit == Init => Joined
<1> SUFFICES ASSUME Init
             PROVE  Joined
  OBVIOUS
<1>1. /\ sent = <<>> /\ Len(sent) = 0 /\ Len(datagram) = 0 /\ damage.kind = "none"
      /\ phase = "building"
  BY DEF Init
<1>2. Start(Len(sent) + 1) = 0
  BY <1>1 DEF Start
<1>3. (1 .. Len(sent)) = {} /\ \A i, j \in 1 .. Len(sent) + 1 : ~(i < j)
  BY <1>1
<1> QED BY <1>1, <1>2, <1>3 DEF Joined

LEMMA JoinedBuildOne ==
  ASSUME TypeOK, Joined, NEW p \in Packet, BuildOne(p)
  PROVE  Joined'
<1>1. /\ phase = "building" /\ phase' = "building" /\ damage' = damage
      /\ Buildable(p) /\ LengthFits(p)
      /\ datagram' = datagram \o Built(p)
      /\ sent' = Append(sent, [packet |-> p, end |-> Len(datagram')])
  BY DEF BuildOne
<1>2. damage.kind = "none"
  BY <1>1 DEF Joined
<1>3. PICK n \in Nat : n = Len(sent)
  BY LenProperties DEF TypeOK
<1>4. /\ Len(sent') = n + 1
      /\ \A i \in 1 .. n : sent'[i] = sent[i]
      /\ sent'[n + 1] = [packet |-> p, end |-> Len(datagram')]
  <2>1. sent \in Seq(SentType)
    BY DEF TypeOK
  <2>2. [packet |-> p, end |-> Len(datagram')] \in SentType
    <3>1. datagram' \in Seq(Byte)
      BY BuildOneType DEF TypeOK
    <3> QED BY <3>1, LenProperties DEF SentType
  <2> QED BY <1>1, <1>3, <2>1, <2>2, AppendProperties
<1>5. /\ datagram \in Seq(Byte) /\ Built(p) \in Seq(Byte)
      /\ Len(Built(p)) \in Nat /\ Len(Built(p)) >= 4
      /\ Len(datagram) \in Nat
      /\ Len(datagram) = Start(n + 1)
  BY <1>1, <1>2, <1>3, BuiltFacts, BytesAreNumbers DEF TypeOK, Joined, HeaderSize
<1>6. /\ Len(datagram') = Len(datagram) + Len(Built(p))
      /\ \A i \in 1 .. Len(datagram) : datagram'[i] = datagram[i]
      /\ \A i \in 1 .. Len(Built(p)) : datagram'[Len(datagram) + i] = Built(p)[i]
  BY <1>1, <1>5, ConcatenationOfBytes
<1>7. \A i \in 1 .. n + 1 : Start(i)' = Start(i)
  <2> SUFFICES ASSUME NEW i \in 1 .. n + 1
               PROVE  Start(i)' = Start(i)
    OBVIOUS
  <2>1. i # 1 => i - 1 \in 1 .. n
    BY <1>3
  <2> QED BY <1>4, <2>1 DEF Start
<1>8. Start((n + 1) + 1)' = Len(datagram')
  <2>1. (n + 1) + 1 # 1 /\ ((n + 1) + 1) - 1 = n + 1
    BY <1>3
  <2> QED BY <1>4, <2>1 DEF Start
<1>9. \A i \in 1 .. n : PacketOf(i)' = PacketOf(i)
  BY <1>4 DEF PacketOf
<1>10. PacketOf(n + 1)' = p
  BY <1>4 DEF PacketOf
<1>11. \A at : Hit(at)' <=> Hit(at)
  BY <1>1 DEF Hit
<1>12. ASSUME NEW i \in 1 .. n + 1
       PROVE  /\ Buildable(PacketOf(i)') /\ LengthFits(PacketOf(i)')
              /\ Start(i + 1)' = Start(i)' + Len(Built(PacketOf(i)'))
              /\ \A j \in 1 .. Len(Built(PacketOf(i)')) :
                   Start(i)' + j =< Len(datagram') /\ ~Hit(Start(i)' + j - 1)
                     => datagram'[Start(i)' + j] = Built(PacketOf(i)')[j]
  <2>1. CASE i = n + 1
    <3>1. PacketOf(i)' = p /\ Start(i)' = Len(datagram) /\ Start(i + 1)' = Len(datagram')
      BY <1>3, <1>5, <1>7, <1>8, <1>10, <2>1
    <3> QED BY <1>1, <1>6, <3>1
  <2>2. CASE i \in 1 .. n
    <3>1. i \in 1 .. n + 1 /\ i + 1 \in 1 .. n + 1
      BY <1>3, <2>2
    <3>2. Start(i)' = Start(i) /\ Start(i + 1)' = Start(i + 1) /\ PacketOf(i)' = PacketOf(i)
      BY <1>7, <1>9, <2>2, <3>1
    <3>3. /\ Buildable(PacketOf(i)) /\ LengthFits(PacketOf(i))
          /\ Start(i + 1) = Start(i) + Len(Built(PacketOf(i)))
          /\ \A j \in 1 .. Len(Built(PacketOf(i))) :
               Start(i) + j =< Len(datagram) /\ ~Hit(Start(i) + j - 1)
                 => datagram[Start(i) + j] = Built(PacketOf(i))[j]
      BY <1>3, <2>2 DEF Joined
    <3>4. /\ Start(i) \in Nat /\ Start(i + 1) \in Nat
          /\ PacketOf(i) \in Packet
      BY <1>3, <2>2, SentFacts
    <3>5. Start(i + 1) =< Len(datagram)
      <4>1. CASE i = n
        BY <1>5, <4>1
      <4>2. CASE i # n
        <5>1. i + 1 \in 1 .. n + 1 /\ n + 1 \in 1 .. n + 1 /\ i + 1 < n + 1
          BY <1>3, <2>2, <4>2
        <5>2. Start(i + 1) < Start(n + 1)
          BY <1>3, <5>1 DEF Joined
        <5> QED BY <1>5, <3>4, <5>2
      <4> QED BY <4>1, <4>2
    <3>6. Len(Built(PacketOf(i))) \in Nat
      BY <3>3, <3>4, BuiltFacts
    <3>7. ASSUME NEW j \in 1 .. Len(Built(PacketOf(i))), ~Hit(Start(i) + j - 1)
          PROVE  datagram'[Start(i) + j] = Built(PacketOf(i))[j]
      <4>1. Start(i) + j \in 1 .. Len(datagram) /\ Start(i) + j =< Len(datagram)
        BY <1>5, <3>3, <3>4, <3>5, <3>6
      <4>2. datagram[Start(i) + j] = Built(PacketOf(i))[j]
        BY <3>3, <3>7, <4>1
      <4> QED BY <1>6, <4>1, <4>2
    <3> QED BY <3>2, <3>3, <3>7
  <2> QED BY <1>3, <2>1, <2>2
<1>13. ASSUME NEW i \in 1 .. (n + 1) + 1, NEW j \in 1 .. (n + 1) + 1, i < j
       PROVE  Start(i)' < Start(j)'
  <2>1. i \in 1 .. n + 1
    BY <1>3, <1>13
  <2>2. CASE j \in 1 .. n + 1
    <3>1. Start(i) < Start(j)
      BY <1>3, <1>13, <2>1, <2>2 DEF Joined
    <3> QED BY <1>7, <2>1, <2>2, <3>1
  <2>3. CASE j = (n + 1) + 1
    <3>1. Start(i) \in Nat /\ Start(i) =< Len(datagram)
      <4>1. Start(i) \in Nat
        BY <1>3, <2>1, StartType
      <4>2. i = n + 1 \/ i < n + 1
        BY <1>3, <2>1
      <4>3. i < n + 1 => Start(i) < Start(n + 1)
        <5>1. n + 1 \in 1 .. n + 1
          BY <1>3
        <5> QED BY <1>3, <2>1, <5>1 DEF Joined
      <4> QED BY <1>5, <4>1, <4>2, <4>3
    <3>2. Len(datagram) < Len(datagram')
      BY <1>5, <1>6
    <3>3. Start(i)' < Len(datagram')
      BY <1>5, <1>6, <1>7, <2>1, <3>1, <3>2
    <3> QED BY <1>8, <2>3, <3>3
  <2> QED BY <1>3, <2>2, <2>3
<1>14. Len(datagram') = Start(Len(sent) + 1)'
  <2>1. (n + 1) + 1 # 1 /\ ((n + 1) + 1) - 1 = n + 1
    BY <1>3
  <2> QED BY <1>4, <2>1 DEF Start
<1> QED
  BY <1>1, <1>2, <1>4, <1>11, <1>12, <1>13, <1>14 DEF Joined

LEMMA JoinedDeliver ==
  ASSUME TypeOK, Joined, NEW bytes \in Seq(Byte), NEW kind \in {"cut", "flip"},
         NEW at \in Nat, Deliver(bytes, kind, at),
         kind = "cut" => Len(bytes) = at /\ at =< Len(datagram),
         kind = "flip" => at < Len(bytes) /\ Len(bytes) = Len(datagram),
         \A i \in 1 .. Len(bytes) :
           (kind = "flip" /\ i = at + 1) \/ bytes[i] = datagram[i]
  PROVE  Joined'
<1>1. /\ phase = "building" /\ phase' = "parsing" /\ datagram' = bytes
      /\ damage' = [kind |-> kind, at |-> at]
      /\ sent' = sent
  BY DEF Deliver
<1>2. damage.kind = "none" /\ Len(datagram) = Start(Len(sent) + 1)
  BY <1>1 DEF Joined
<1>3. /\ \A i : Start(i)' = Start(i) /\ PacketOf(i)' = PacketOf(i)
      /\ Start(Len(sent) + 1)' = Start(Len(sent) + 1)
  BY <1>1 DEF Start, PacketOf
<1>4. damage'.kind = kind /\ damage'.at = at
  BY <1>1
<1>5. Len(bytes) \in Nat /\ Len(datagram) \in Nat /\ Len(bytes) =< Len(datagram)
  BY LenProperties DEF TypeOK
<1>6. ASSUME NEW i \in 1 .. Len(sent)
      PROVE  /\ Buildable(PacketOf(i)) /\ LengthFits(PacketOf(i))
             /\ Start(i + 1) = Start(i) + Len(Built(PacketOf(i)))
             /\ \A j \in 1 .. Len(Built(PacketOf(i))) :
                  Start(i) + j =< Len(bytes) /\ ~Hit(Start(i) + j - 1)'
                    => bytes[Start(i) + j] = Built(PacketOf(i))[j]
  <2>1. /\ Buildable(PacketOf(i)) /\ LengthFits(PacketOf(i))
        /\ Start(i + 1) = Start(i) + Len(Built(PacketOf(i)))
        /\ \A j \in 1 .. Len(Built(PacketOf(i))) :
             Start(i) + j =< Len(datagram) /\ ~Hit(Start(i) + j - 1)
               => datagram[Start(i) + j] = Built(PacketOf(i))[j]
    BY DEF Joined
  <2>2. Start(i) \in Nat /\ PacketOf(i) \in Packet
    BY SentFacts
  <2>3. Len(Built(PacketOf(i))) \in Nat
    BY <2>1, <2>2, BuiltFacts
  <2>4. ASSUME NEW j \in 1 .. Len(Built(PacketOf(i))), Start(i) + j =< Len(bytes),
               ~(kind = "flip" /\ at = Start(i) + j - 1)
        PROVE  bytes[Start(i) + j] = Built(PacketOf(i))[j]
    <3>1. Start(i) + j \in 1 .. Len(bytes) /\ Start(i) + j =< Len(datagram)
      BY <1>5, <2>2, <2>3, <2>4
    <3>2. ~(kind = "flip" /\ Start(i) + j = at + 1)
      <4> DEFINE s == Start(i)
      <4>1. s \in Nat /\ j \in Nat /\ (kind = "flip" => at # s + j - 1)
        BY <2>2, <2>3, <2>4
      <4> HIDE DEF s
      <4>2. kind = "flip" => s + j # at + 1
        BY <4>1
      <4> QED BY <4>2 DEF s
    <3>3. ~Hit(Start(i) + j - 1)
      BY <1>2 DEF Hit
    <3> QED BY <2>1, <3>1, <3>2, <3>3
  <2>5. ASSUME NEW j \in 1 .. Len(Built(PacketOf(i)))
        PROVE  Hit(Start(i) + j - 1)' <=> kind = "flip" /\ at = Start(i) + j - 1
    BY <1>3, <1>4 DEF Hit
  <2> QED BY <2>1, <2>4, <2>5
<1>7. \A i, j \in 1 .. Len(sent) + 1 : i < j => Start(i) < Start(j)
  BY DEF Joined
<1>8. Start(Len(sent) + 1)' = Len(datagram)
  BY <1>2, <1>3
<1> QED BY <1>1, <1>3, <1>4, <1>5, <1>6, <1>7, <1>8 DEF Joined

LEMMA JoinedStep == TypeOK /\ Joined /\ [Next]_vars => Joined'
<1> SUFFICES ASSUME TypeOK, Joined, [Next]_vars
             PROVE  Joined'
  OBVIOUS
<1>1. ASSUME NEW p \in Packet, BuildOne(p)
      PROVE  Joined'
  BY <1>1, JoinedBuildOne
<1>2. ASSUME sent' = sent, datagram' = datagram, damage' = damage,
             phase' = "parsing" <=> phase = "parsing"
      PROVE  Joined'
  BY <1>2 DEF Joined, Start, PacketOf, Hit
<1>3. ASSUME NEW p \in Packet, BuildError(p)
      PROVE  Joined'
  BY <1>2, <1>3 DEF BuildError
<1>4. ASSUME NEW n \in 0 .. Len(datagram), Cut(n)
      PROVE  Joined'
  <2>1. /\ SubSeq(datagram, 1, n) \in Seq(Byte)
        /\ Len(SubSeq(datagram, 1, n)) = n
        /\ \A i \in 1 .. n : SubSeq(datagram, 1, n)[i] = datagram[i]
    BY CutBytes
  <2>2. n \in Nat /\ n =< Len(datagram)
    BY LenProperties DEF TypeOK
  <2>3. Deliver(SubSeq(datagram, 1, n), "cut", n)
    BY <1>4 DEF Cut
  <2> QED BY <2>1, <2>2, <2>3, JoinedDeliver
<1>5. ASSUME NEW at \in 0 .. Len(datagram) - 1, NEW bit \in Bit, FlipBit(at, bit)
      PROVE  Joined'
  <2> DEFINE bytes == [datagram EXCEPT ![at + 1] = Flipped(@, bit)]
  <2>1. /\ bytes \in Seq(Byte)
        /\ Len(bytes) = Len(datagram)
        /\ \A i \in 1 .. Len(datagram) : i # at + 1 => bytes[i] = datagram[i]
    BY FlippedBytes
  <2>2. at \in Nat /\ at < Len(datagram)
    BY LenProperties DEF TypeOK
  <2>3. Deliver(bytes, "flip", at)
    BY <1>5 DEF FlipBit
  <2> HIDE DEF bytes
  <2> QED BY <2>1, <2>2, <2>3, JoinedDeliver
<1>6. ASSUME NEW m \in Mode, Parse(m)
      PROVE  Joined'
  <2>1. Turn(m)
    BY <1>6, TurnStep
  <2> QED BY <1>2, <2>1 DEF Turn
<1>7. CASE UNCHANGED vars
  BY <1>2, <1>7 DEF vars
<1> QED BY <1>1, <1>3, <1>4, <1>5, <1>6, <1>7 DEF Next

----------------------------------------------------------------------------
(* What the parser sees of a packet as it was built.                         *)

(* The length field of packet i has not been hit.                            *)
LengthKept(i) == ~Hit(Start(i) + 2) /\ ~Hit(Start(i) + 3)

Intact(i) == ~(damage.kind = "flip" /\ damage.at \in Start(i) .. Start(i + 1) - 1)

(* The parser steps from packet to packet.                                   *)
LEMMA Framing ==
  ASSUME TypeOK, Joined, NEW i \in 1 .. Len(sent),
         LengthKept(i), Start(i) + HeaderSize =< Len(datagram)
  PROVE  PacketEnd(Start(i)) = Start(i + 1)
<1> DEFINE at == Start(i)
           b  == Built(PacketOf(i))
<1>1. /\ at \in Nat /\ PacketOf(i) \in Packet
      /\ Buildable(PacketOf(i)) /\ LengthFits(PacketOf(i))
      /\ Start(i + 1) = at + Len(b)
      /\ \A j \in 1 .. Len(b) :
           at + j =< Len(datagram) /\ ~Hit(at + j - 1) => datagram[at + j] = b[j]
      /\ Len(datagram) \in Nat
  BY SentFacts, LenProperties DEF Joined, TypeOK
<1>2. /\ Len(b) \in Nat /\ Len(b) >= HeaderSize
      /\ Len(b) = 4 * (256 * b[3] + b[4] + 1)
  BY <1>1, BuiltFacts
<1>3. ~Hit(at + 2) /\ ~Hit(at + 3) /\ at + HeaderSize =< Len(datagram)
  BY DEF LengthKept
<1> HIDE DEF at, b
<1>4. /\ 3 \in 1 .. Len(b) /\ 4 \in 1 .. Len(b)
      /\ at + 3 =< Len(datagram) /\ at + 4 =< Len(datagram)
      /\ at + 3 - 1 = at + 2 /\ at + 4 - 1 = at + 3
      /\ (at + 2) + 1 = at + 3 /\ (at + 3) + 1 = at + 4
  BY <1>1, <1>2, <1>3 DEF HeaderSize
<1>5. ByteAt(at + 2) = b[3] /\ ByteAt(at + 3) = b[4]
  BY <1>1, <1>3, <1>4 DEF ByteAt
<1> QED BY <1>1, <1>2, <1>5 DEF PacketEnd, at

LEMMA SeenAlone ==
  ASSUME datagram \in Seq(Byte), NEW at \in Nat, NEW b \in Seq(Byte),
         Len(b) >= HeaderSize, at + Len(b) =< Len(datagram),
         PacketEnd(at) = at + Len(b),
         \A j \in 1 .. Len(b) : datagram[at + j] = b[j]
  PROVE  /\ ParsedAt(at) = Alone(b)
         /\ ByteAt(at) = b[1]
         /\ BodyAt(at) = SubSeq(b, HeaderSize + 1, Len(b))
<1>1. Len(b) \in Nat /\ Len(datagram) \in Nat /\ HeaderSize = 4
  BY LenProperties DEF HeaderSize
<1>2. /\ 1 \in 1 .. Len(b) /\ 2 \in 1 .. Len(b)
      /\ (at + 1) + 1 = at + 2
  BY <1>1
<1>3. ByteAt(at) = b[1] /\ ByteAt(at + 1) = b[2]
  BY <1>2 DEF ByteAt
<1> DEFINE body == SubSeq(b, HeaderSize + 1, Len(b))
           n    == Len(b) - HeaderSize
<1>4. BodyAt(at) = body
  <2>1. n \in Nat /\ Len(b) = n + 4 /\ PacketEnd(at) = (at + 4) + n /\ 4 \in Nat
        /\ at + 4 \in Nat /\ (at + 4) + n \in Nat /\ (at + 4) + n =< Len(datagram)
    BY <1>1
  <2>2. /\ BodyAt(at) \in Seq(Byte)
        /\ Len(BodyAt(at)) = n
        /\ \A i \in 1 .. n : BodyAt(at)[i] = datagram[(at + 4) + i]
    <3> HIDE DEF n
    <3>1. /\ SubSeq(datagram, (at + 4) + 1, (at + 4) + n) \in Seq(Byte)
          /\ Len(SubSeq(datagram, (at + 4) + 1, (at + 4) + n))
               = IF (at + 4) + n =< at + 4 THEN 0 ELSE ((at + 4) + n) - (at + 4)
          /\ \A i \in 1 .. ((at + 4) + n) - (at + 4) :
               SubSeq(datagram, (at + 4) + 1, (at + 4) + n)[i] = datagram[(at + 4) + i]
      BY <2>1, SliceOfBytes
    <3>2. ((at + 4) + n) - (at + 4) = n /\ ((at + 4) + n =< at + 4 => n = 0)
      BY <2>1
    <3>3. BodyAt(at) = SubSeq(datagram, (at + 4) + 1, (at + 4) + n)
      BY <1>1, <2>1 DEF BodyAt
    <3> QED BY <3>1, <3>2, <3>3
  <2>3. /\ body \in Seq(Byte)
        /\ Len(body) = n
        /\ \A i \in 1 .. n : body[i] = b[4 + i]
    <3> HIDE DEF n
    <3>1. /\ SubSeq(b, 4 + 1, n + 4) \in Seq(Byte)
          /\ Len(SubSeq(b, 4 + 1, n + 4)) = IF n + 4 =< 4 THEN 0 ELSE (n + 4) - 4
          /\ \A i \in 1 .. (n + 4) - 4 : SubSeq(b, 4 + 1, n + 4)[i] = b[4 + i]
      <4>1. n + 4 \in Nat /\ n + 4 =< Len(b)
        BY <2>1
      <4> QED BY <2>1, <4>1, SliceOfBytes
    <3>2. (n + 4) - 4 = n /\ (n + 4 =< 4 => n = 0)
      BY <2>1
    <3>3. body = SubSeq(b, 4 + 1, n + 4)
      BY <1>1, <2>1
    <3> QED BY <3>1, <3>2, <3>3
  <2>4. \A i \in 1 .. n : datagram[(at + 4) + i] = b[4 + i]
    <3> SUFFICES ASSUME NEW i \in 1 .. n
                 PROVE  datagram[(at + 4) + i] = b[4 + i]
      OBVIOUS
    <3>1. 4 + i \in 1 .. Len(b) /\ (at + 4) + i = at + (4 + i)
      <4>1. n \in Nat /\ Len(b) = n + 4
        BY <2>1
      <4> HIDE DEF n
      <4> QED BY <4>1
    <3> QED BY <3>1
  <2> HIDE DEF body, n
  <2>5. \A i \in 1 .. n : BodyAt(at)[i] = body[i]
    BY <2>2, <2>3, <2>4
  <2> QED BY <2>2, <2>3, <2>5, SeqEqual
<1>5. /\ PaddingFlag(at) <=> (b[1] \div 32) % 2 = 1
      /\ PaddingFits(at) <=> body # <<>> /\ Last(body) \in 1 .. Len(body)
  BY <1>3, <1>4 DEF PaddingFlag, PaddingFits
<1>6. ParsedAt(at) = Alone(b)
  <2> HIDE DEF body
  <2>1. PaddingSize(at) = IF (b[1] \div 32) % 2 = 1
                               /\ (body # <<>> /\ Last(body) \in 1 .. Len(body))
                          THEN Last(body) ELSE 0
    BY <1>4, <1>5 DEF PaddingSize
  <2> QED BY <1>3, <1>4, <2>1 DEF ParsedAt, Alone, body
<1> QED BY <1>3, <1>4, <1>6

Returns(i) == Returned(PacketOf(i))

LEMMA WithinPackets ==
  ASSUME TypeOK, Joined
  PROVE  /\ Len(datagram) \in Nat /\ Len(sent) \in Nat
         /\ Start(Len(sent) + 1) \in Nat
         /\ Len(datagram) =< Start(Len(sent) + 1)
         /\ \A i \in 1 .. Len(sent) : Start(i) + HeaderSize =< Start(i + 1)
         /\ \A i \in 1 .. Len(sent) + 1 : Start(i) \in Nat /\ Start(i) =< Start(Len(sent) + 1)
<1>1. Len(datagram) \in Nat /\ Len(sent) \in Nat
  BY LenProperties DEF TypeOK
<1>2. Len(sent) + 1 \in 1 .. Len(sent) + 1
  BY <1>1
<1>3. \A i \in 1 .. Len(sent) + 1 : Start(i) \in Nat
  BY StartType
<1>4. Len(datagram) =< Start(Len(sent) + 1)
  BY <1>1, <1>2, <1>3 DEF Joined
<1>5. ASSUME NEW i \in 1 .. Len(sent)
      PROVE  Start(i) + HeaderSize =< Start(i + 1)
  <2>1. /\ Start(i + 1) = Start(i) + Len(Built(PacketOf(i)))
        /\ Start(i) \in Nat
        /\ Len(Built(PacketOf(i))) \in Nat /\ Len(Built(PacketOf(i))) >= 4
    BY BuiltFacts, SentFacts DEF Joined, HeaderSize
  <2> QED BY <2>1 DEF HeaderSize
<1>6. ASSUME NEW i \in 1 .. Len(sent) + 1
      PROVE  Start(i) =< Start(Len(sent) + 1)
  <2>1. i = Len(sent) + 1 \/ i < Len(sent) + 1
    BY <1>1
  <2>2. i < Len(sent) + 1 => Start(i) < Start(Len(sent) + 1)
    BY <1>2 DEF Joined
  <2>3. Start(i) \in Nat /\ Start(Len(sent) + 1) \in Nat
    BY <1>2, <1>3
  <2> QED BY <2>1, <2>2, <2>3
<1> QED BY <1>1, <1>2, <1>3, <1>4, <1>5, <1>6

LEMMA IntactPacket ==
  ASSUME TypeOK, Joined, NEW i \in 1 .. Len(sent),
         Intact(i), Start(i + 1) =< Len(datagram)
  PROVE  /\ WholeAt(Start(i)) /\ PacketEnd(Start(i)) = Start(i + 1)
         /\ ParsedAt(Start(i)) = Alone(Built(PacketOf(i)))
         /\ Version(Start(i)) = 2
         /\ PaddingFlag(Start(i)) => PaddingFits(Start(i))
<1> DEFINE at == Start(i)
           b  == Built(PacketOf(i))
<1>1. /\ at \in Nat /\ PacketOf(i) \in Packet
      /\ Buildable(PacketOf(i)) /\ LengthFits(PacketOf(i))
      /\ Start(i + 1) = at + Len(b)
      /\ \A j \in 1 .. Len(b) :
           at + j =< Len(datagram) /\ ~Hit(at + j - 1) => datagram[at + j] = b[j]
      /\ Len(datagram) \in Nat /\ datagram \in Seq(Byte)
      /\ at + HeaderSize =< Start(i + 1) /\ Start(i + 1) \in Nat
  BY SentFacts, WithinPackets DEF Joined, TypeOK
<1>2. /\ b \in Seq(Byte) /\ Len(b) \in Nat /\ Len(b) >= HeaderSize
      /\ b[1] \div 64 = 2
      /\ (b[1] \div 32) % 2 = 1 =>
           /\ Len(b) > HeaderSize
           /\ b[Len(b)] \in 1 .. Len(b) - HeaderSize
  BY <1>1, BuiltFacts
<1>3. damage.kind = "flip" => damage.at \notin at .. at + Len(b) - 1
  BY <1>1 DEF Intact
<1>4. at + HeaderSize =< Len(datagram)
  BY <1>1 DEF HeaderSize
<1>5. LengthKept(i)
  <2>1. /\ at + 2 \in at .. at + Len(b) - 1 /\ at + 3 \in at .. at + Len(b) - 1
    <3> HIDE DEF at, b
    <3> QED BY <1>1, <1>2 DEF HeaderSize
  <2> QED BY <1>3, <2>1 DEF LengthKept, Hit
<1>6. PacketEnd(at) = Start(i + 1)
  BY <1>4, <1>5, Framing
<1>7. \A j \in 1 .. Len(b) : datagram[at + j] = b[j]
  <2> SUFFICES ASSUME NEW j \in 1 .. Len(b)
               PROVE  datagram[at + j] = b[j]
    OBVIOUS
  <2> HIDE DEF at, b
  <2>1. at + j =< Len(datagram) /\ at + j - 1 \in at .. at + Len(b) - 1
    BY <1>1, <1>2
  <2>2. ~Hit(at + j - 1)
    BY <1>3, <2>1 DEF Hit
  <2> QED BY <1>1, <2>1, <2>2
<1> HIDE DEF at, b
<1>8. /\ ParsedAt(at) = Alone(b) /\ ByteAt(at) = b[1]
      /\ BodyAt(at) = SubSeq(b, HeaderSize + 1, Len(b))
  BY <1>1, <1>2, <1>6, <1>7, SeenAlone
<1>9. ASSUME PaddingFlag(at)
      PROVE  PaddingFits(at)
  <2> DEFINE body == SubSeq(b, HeaderSize + 1, Len(b))
             n    == Len(b) - HeaderSize
  <2>1. Len(b) > HeaderSize /\ b[Len(b)] \in 1 .. Len(b) - HeaderSize
    BY <1>2, <1>8, <1>9 DEF PaddingFlag
  <2>2. n \in Nat /\ n # 0 /\ HeaderSize \in Nat /\ HeaderSize + n = Len(b)
        /\ n \in 1 .. n /\ ~(Len(b) =< HeaderSize)
    BY <1>2, <2>1 DEF HeaderSize
  <2>3. /\ Len(body) = n
        /\ \A j \in 1 .. n : body[j] = b[HeaderSize + j]
    <3> DEFINE l == Len(b)
    <3>1. /\ HeaderSize \in Nat /\ l \in Nat /\ l =< Len(b) /\ n = l - HeaderSize
      <4>1. \A x \in Nat : x =< x
        OBVIOUS
      <4>2. HeaderSize \in Nat /\ l \in Nat
        BY Zenon, <1>2, <2>2
      <4> QED BY Zenon, <4>1, <4>2
    <3> HIDE DEF l, n
    <3>2. /\ Len(SubSeq(b, HeaderSize + 1, l)) = IF l =< HeaderSize THEN 0 ELSE l - HeaderSize
          /\ \A j \in 1 .. l - HeaderSize : SubSeq(b, HeaderSize + 1, l)[j] = b[HeaderSize + j]
      BY <1>2, <3>1, SliceOfBytes
    <3> QED BY <2>2, <3>1, <3>2 DEF l
  <2> HIDE DEF body, n
  <2>4. Last(body) = b[Len(b)] /\ Len(body) = n
    BY <2>2, <2>3 DEF Last
  <2>5. Last(body) \in 1 .. Len(body) /\ body # <<>>
    BY <2>1, <2>2, <2>4 DEF n
  <2> QED BY <1>8, <2>5 DEF PaddingFits, body
<1>10. WholeAt(at)
  BY <1>4, <1>6 DEF WholeAt
<1>11. Version(at) = 2
  BY <1>2, <1>8 DEF Version
<1> QED BY <1>6, <1>8, <1>9, <1>10, <1>11 DEF at, b

(* The parser takes it in either mode.                                       *)
LEMMA IntactReturns ==
  ASSUME TypeOK, Joined, NEW i \in 1 .. Len(sent),
         Intact(i), Start(i + 1) =< Len(datagram)
  PROVE  ParsedAt(Start(i)) = <<Returns(i)>> /\ ~Improper(Start(i))
<1>1. /\ ParsedAt(Start(i)) = Alone(Built(PacketOf(i)))
      /\ Version(Start(i)) = 2
      /\ PaddingFlag(Start(i)) => PaddingFits(Start(i))
  BY IntactPacket
<1>2. /\ PacketOf(i) \in Packet
      /\ Buildable(PacketOf(i)) /\ LengthFits(PacketOf(i))
  BY SentFacts DEF Joined
<1>3. ParsedAt(Start(i)) = <<Returns(i)>>
  BY <1>1, <1>2, PacketsComeBack DEF Returns
<1> QED BY <1>1, <1>3 DEF Improper, Malformed

LEMMA TurnAt ==
  ASSUME TypeOK, Joined, NEW m \in Mode, Turn(m), Takes(m) \/ Skips(m),
         NEW i \in 1 .. Len(sent) + 1, parser[m].offset = Start(i),
         i \in 1 .. Len(sent) => LengthKept(i)
  PROVE  i \in 1 .. Len(sent) /\ parser'[m].offset = Start(i + 1)
<1>1. /\ Start(i) + HeaderSize =< Len(datagram)
      /\ parser'[m].offset = PacketEnd(Start(i))
  BY DEF Takes, Skips, WholeAt
<1>2. /\ Len(sent) \in Nat /\ Start(i) \in Nat /\ Len(datagram) \in Nat
      /\ Start(Len(sent) + 1) \in Nat
      /\ Len(datagram) =< Start(Len(sent) + 1)
  BY WithinPackets
<1>3. i # Len(sent) + 1
  BY <1>1, <1>2 DEF HeaderSize
<1>4. i \in 1 .. Len(sent)
  BY <1>2, <1>3
<1> QED BY <1>1, <1>4, Framing

(* Each parser is always at the head of a packet, or at the end of the last. *)
InStep ==
  phase = "parsing" /\ (\A i \in 1 .. Len(sent) : LengthKept(i)) =>
    \A m \in Mode : \E i \in 1 .. Len(sent) + 1 : parser[m].offset = Start(i)

LEMMA FreshUntilParsing ==
  TypeOK /\ phase # "parsing" => Fresh
BY DEF TypeOK, Fresh

LEMMA InStepFresh ==
  TypeOK /\ Fresh => InStep
<1> SUFFICES ASSUME TypeOK, Fresh, NEW m \in Mode
             PROVE  \E i \in 1 .. Len(sent) + 1 : parser[m].offset = Start(i)
  BY DEF InStep
<1>1. 1 \in 1 .. Len(sent) + 1 /\ Start(1) = 0
  BY LenProperties DEF TypeOK, Start
<1> QED BY <1>1 DEF Fresh

LEMMA InStepTurn ==
  ASSUME TypeOK, Joined, InStep, NEW m \in Mode, Turn(m)
  PROVE  InStep'
<1>1. /\ phase = "parsing" /\ sent' = sent /\ damage' = damage
  BY DEF Turn, Running
<1>2. /\ \A i : Start(i)' = Start(i) /\ (LengthKept(i)' <=> LengthKept(i))
      /\ Len(sent)' = Len(sent)
  BY <1>1 DEF Start, LengthKept, Hit
<1> SUFFICES ASSUME \A i \in 1 .. Len(sent) : LengthKept(i),
                    NEW k \in Mode
             PROVE  \E i \in 1 .. Len(sent) + 1 : parser'[k].offset = Start(i)
  BY <1>2 DEF InStep
<1>3. PICK i \in 1 .. Len(sent) + 1 : parser[k].offset = Start(i)
  BY <1>1 DEF InStep
<1>4. CASE k # m
  BY <1>3, <1>4, OtherMode
<1>5. CASE k = m /\ Stops(m)
  BY <1>3, <1>5 DEF Stops
<1>6. CASE k = m /\ ~Stops(m)
  <2>1. i \in 1 .. Len(sent) /\ parser'[m].offset = Start(i + 1)
    BY <1>3, <1>6, TurnAt DEF Turn
  <2>2. i + 1 \in 1 .. Len(sent) + 1
    BY <2>1, WithinPackets
  <2> QED BY <1>6, <2>1, <2>2
<1> QED BY <1>4, <1>5, <1>6

----------------------------------------------------------------------------
(* What comes back of a compound that was cut, or that a flipped bit hit.    *)

(* m has returned the first k packets and stands behind them; it ends where  *)
(* the next one is not whole.                                                *)
CutWalk(m) ==
  \E k \in 0 .. Len(sent) :
    /\ parser[m].offset = Start(k + 1) /\ Start(k + 1) =< Len(datagram)
    /\ Len(parser[m].packets) = k
    /\ \A i \in 1 .. k : parser[m].packets[i] = Returns(i)
    /\ parser[m].status # "parsing" =>
         /\ k = Len(sent) \/ Len(datagram) < Start((k + 1) + 1)
         /\ parser[m].status =
              IF /\ HeaderSize =< Len(datagram)
                 /\ m = "lenient" \/ Start(k + 1) = Len(datagram)
              THEN "done" ELSE "raised"

Cutting == damage.kind = "cut" => \A m \in Mode : CutWalk(m)

Damaged(d) ==
  /\ damage.kind = "flip" /\ damage.at \in Start(d) .. Start(d + 1) - 1
  /\ LengthKept(d)

(* Lenient mode stands behind packet k: it has what came before the damaged  *)
(* packet d and what came after, and one packet or none for d itself.        *)
DamagedWalk(d) ==
  \E k \in 0 .. Len(sent) :
    /\ Lenient.offset = Start(k + 1)
    /\ Len(Lenient.packets) = k \/ (d =< k /\ Len(Lenient.packets) = k - 1)
    /\ \A i \in 1 .. d - 1 : i =< k => Lenient.packets[i] = Returns(i)
    /\ \A i \in d + 1 .. k :
         Lenient.packets[Len(Lenient.packets) - (k - i)] = Returns(i)
    /\ Lenient.status # "parsing" => k = Len(sent) /\ Lenient.status = "done"

Contained == \A d \in 1 .. Len(sent) : Damaged(d) => DamagedWalk(d)

LEMMA WalksFresh == TypeOK /\ Fresh => Cutting /\ Contained
<1> SUFFICES ASSUME TypeOK, Fresh
             PROVE  Cutting /\ Contained
  OBVIOUS
<1>1. /\ 0 \in 0 .. Len(sent) /\ Start(0 + 1) = 0 /\ Len(datagram) \in Nat
      /\ 0 =< Len(datagram)
      /\ Len(<<>>) = 0 /\ (1 .. 0) = {}
  BY LenProperties DEF TypeOK, Start
<1>2. ASSUME NEW m \in Mode
      PROVE  CutWalk(m)
  <2>1. /\ parser[m].status = "parsing" /\ parser[m].offset = 0
        /\ parser[m].packets = <<>>
    BY DEF Fresh
  <2> QED BY <1>1, <2>1 DEF CutWalk
<1>3. ASSUME NEW d \in 1 .. Len(sent)
      PROVE  DamagedWalk(d)
  <2>1. /\ Lenient.status = "parsing" /\ Lenient.offset = 0 /\ Lenient.packets = <<>>
    BY Modes DEF Fresh, Lenient
  <2>2. /\ \A i \in 1 .. d - 1 : ~(i =< 0)
        /\ d + 1 .. 0 = {}
    OBVIOUS
  <2> QED BY <1>1, <2>1, <2>2 DEF DamagedWalk
<1> QED BY <1>2, <1>3 DEF Cutting, Contained

LEMMA SameWalk ==
  ASSUME sent' = sent, damage' = damage, datagram' = datagram
  PROVE  /\ \A i : /\ Start(i)' = Start(i) /\ Returns(i)' = Returns(i)
                   /\ LengthKept(i)' <=> LengthKept(i)
                   /\ Damaged(i)' <=> Damaged(i)
         /\ Len(sent)' = Len(sent) /\ Len(datagram)' = Len(datagram)
  BY DEF Start, Returns, PacketOf, LengthKept, Damaged, Hit

LEMMA CutTurn ==
  ASSUME TypeOK, Joined, damage.kind = "cut",
         NEW m \in Mode, CutWalk(m), Turn(m)
  PROVE  CutWalk(m)'
<1> DEFINE l == Len(datagram)
<1>1. PICK k \in 0 .. Len(sent) :
        /\ parser[m].offset = Start(k + 1) /\ Start(k + 1) =< l
        /\ Len(parser[m].packets) = k
        /\ \A i \in 1 .. k : parser[m].packets[i] = Returns(i)
  BY DEF CutWalk
<1>2. /\ sent' = sent /\ damage' = damage /\ datagram' = datagram
      /\ parser[m].packets \in Seq(Parsable)
  BY ParserFields DEF Turn
<1>3. /\ \A i : Start(i)' = Start(i) /\ Returns(i)' = Returns(i)
      /\ Len(sent)' = Len(sent) /\ Len(datagram)' = l
  BY <1>2, SameWalk
<1>4. /\ l \in Nat /\ Len(sent) \in Nat
      /\ k + 1 \in 1 .. Len(sent) + 1
      /\ Start(k + 1) \in Nat
      /\ l =< Start(Len(sent) + 1)
  BY WithinPackets
<1>5. \A i : Intact(i) /\ LengthKept(i)
  BY DEF Intact, LengthKept, Hit
<1>6. CASE k # Len(sent) /\ Start((k + 1) + 1) =< l
  <2>1. k + 1 \in 1 .. Len(sent) /\ (k + 1) + 1 # 1
    BY <1>4, <1>6
  <2>2. /\ WholeAt(Start(k + 1)) /\ PacketEnd(Start(k + 1)) = Start((k + 1) + 1)
        /\ ParsedAt(Start(k + 1)) = <<Returns(k + 1)>> /\ ~Improper(Start(k + 1))
    BY <1>5, <1>6, <2>1, IntactPacket, IntactReturns
  <2>3. Start(k + 1) + HeaderSize =< l
    BY <2>2 DEF WholeAt
  <2>4. HeaderSize =< l /\ Start(k + 1) # l
    BY <1>4, <2>3 DEF HeaderSize
  <2>5. Takes(m)
    <3>1. ~(l < HeaderSize)
      BY <1>4, <2>4 DEF HeaderSize
    <3>2. ~Stops(m)
      BY <1>1, <2>2, <2>4, <3>1 DEF Stops
    <3>3. ~Skips(m)
      <4>1. <<Returns(k + 1)>> # Malformed
        BY DEF Malformed
      <4> QED BY Zenon, <1>1, <2>2, <4>1 DEF Skips
    <3> QED BY <3>2, <3>3 DEF Turn
  <2>6. PICK p \in Parsable :
          /\ ParsedAt(parser[m].offset) = <<p>>
          /\ parser'[m].packets = Append(parser[m].packets, p)
    BY <2>5 DEF Takes
  <2>7. /\ p = Returns(k + 1)
        /\ parser'[m].status = "parsing"
        /\ parser'[m].offset = Start((k + 1) + 1)
    BY <1>1, <2>2, <2>5, <2>6 DEF Takes
  <2>8. /\ Len(parser'[m].packets) = k + 1
        /\ \A i \in 1 .. k : parser'[m].packets[i] = parser[m].packets[i]
        /\ parser'[m].packets[k + 1] = p
    BY <1>1, <1>2, <2>6, AppendProperties
  <2>9. \A i \in 1 .. k + 1 : parser'[m].packets[i] = Returns(i)
    <3>1. \A i \in 1 .. k + 1 : i \in 1 .. k \/ i = k + 1
      BY <1>4
    <3> QED BY <1>1, <2>7, <2>8, <3>1
  <2>10. k + 1 \in 0 .. Len(sent)
    BY <2>1
  <2> HIDE DEF l
  <2> QED BY <1>3, <1>6, <2>7, <2>8, <2>9, <2>10 DEF CutWalk
<1>7. CASE k = Len(sent) \/ ~(Start((k + 1) + 1) =< l)
  <2>1. ~WholeAt(Start(k + 1))
    <3>1. CASE k = Len(sent)
      <4>1. Start(k + 1) = l
        BY <1>1, <1>4, <3>1
      <4>2. ~(Start(k + 1) + HeaderSize =< l)
        BY <1>4, <4>1 DEF HeaderSize
      <4> QED BY <4>2 DEF WholeAt
    <3>2. CASE k # Len(sent) /\ Start(k + 1) + HeaderSize =< l
      <4>1. k + 1 \in 1 .. Len(sent)
        BY <1>4, <3>2
      <4>2. PacketEnd(Start(k + 1)) = Start((k + 1) + 1)
        BY <1>5, <3>2, <4>1, Framing
      <4> QED BY <1>7, <3>2, <4>2 DEF WholeAt
    <3> QED BY <3>1, <3>2 DEF WholeAt
  <2>2. Stops(m)
    BY <1>1, <2>1 DEF Turn, Skips, Takes
  <2>3. k # Len(sent) => l < Start((k + 1) + 1)
    <3>1. ASSUME k # Len(sent)
          PROVE  Start((k + 1) + 1) \in Nat
      <4>1. (k + 1) + 1 \in 1 .. Len(sent) + 1
        BY <1>4, <3>1
      <4> QED BY <4>1, StartType
    <3> QED BY <1>4, <1>7, <3>1
  <2>4. /\ parser'[m].offset = Start(k + 1)
        /\ parser'[m].packets = parser[m].packets
    BY <1>1, <2>2 DEF Stops
  <2>5. parser'[m].status =
          IF HeaderSize =< l /\ (m = "lenient" \/ Start(k + 1) = l)
          THEN "done" ELSE "raised"
    <3>1. l < HeaderSize <=> ~(HeaderSize =< l)
      BY <1>4 DEF HeaderSize
    <3>2. m \in {"strict", "lenient"}
      BY DEF Mode
    <3>3. Start(k + 1) + HeaderSize =< l => HeaderSize =< l /\ Start(k + 1) # l
      BY <1>4 DEF HeaderSize
    <3> QED BY <1>1, <2>1, <2>2, <3>1, <3>2, <3>3 DEF Stops, Refused
  <2> HIDE DEF l
  <2> QED BY <1>1, <1>3, <2>3, <2>4, <2>5 DEF CutWalk
<1> QED BY <1>6, <1>7

(* The damage lies in one packet only.                                       *)
LEMMA DamageElsewhere ==
  ASSUME TypeOK, Joined, NEW d \in 1 .. Len(sent), Damaged(d),
         NEW i \in 1 .. Len(sent)
  PROVE  LengthKept(i) /\ (i # d => Intact(i))
<1> DEFINE n == Len(sent)
           at == damage.at
<1>1. /\ n \in Nat
      /\ \A j \in 1 .. n : /\ Start(j) \in Nat /\ Start(j + 1) \in Nat
                           /\ Start(j) + 4 =< Start(j + 1)
      /\ \A j, k \in 1 .. n + 1 : j < k => Start(j) < Start(k)
  BY WithinPackets, SentFacts DEF Joined, HeaderSize
<1>2. /\ at \in Start(d) .. Start(d + 1) - 1
      /\ LengthKept(d)
  BY DEF Damaged
<1>3. Start(d) \in Nat /\ Start(d + 1) \in Nat /\ Start(i) \in Nat /\ Start(i + 1) \in Nat
      /\ Start(i) + 4 =< Start(i + 1)
  BY <1>1
<1> HIDE DEF n, at
<1>4. ASSUME i # d
      PROVE  at \notin Start(i) .. Start(i + 1) - 1
  <2>1. i \in Int /\ d \in Int /\ i \in 1 .. n /\ d \in 1 .. n
    BY DEF n
  <2>2. CASE i < d
    <3>1. i + 1 = d \/ i + 1 < d
      BY <2>1, <2>2
    <3>2. i + 1 \in 1 .. n + 1 /\ d \in 1 .. n + 1
      BY <1>1, <2>1
    <3>3. i + 1 < d => Start(i + 1) < Start(d)
      BY <1>1, <3>2
    <3>4. Start(i + 1) =< Start(d)
      BY <1>3, <3>1, <3>3
    <3> QED BY <1>2, <1>3, <3>4
  <2>3. CASE d < i
    <3>1. d + 1 = i \/ d + 1 < i
      BY <2>1, <2>3
    <3>2. d + 1 \in 1 .. n + 1 /\ i \in 1 .. n + 1
      BY <1>1, <2>1
    <3>3. d + 1 < i => Start(d + 1) < Start(i)
      BY <1>1, <3>2
    <3>4. Start(d + 1) =< Start(i)
      BY <1>3, <3>1, <3>3
    <3> QED BY <1>2, <1>3, <3>4
  <2> QED BY <1>4, <2>1, <2>2, <2>3
<1>5. i # d => Intact(i)
  BY <1>4 DEF Intact, at
<1>6. LengthKept(i)
  <2>1. CASE i = d
    BY <1>2, <2>1
  <2>2. CASE i # d
    <3>1. /\ Start(i) + 2 \in Start(i) .. Start(i + 1) - 1
          /\ Start(i) + 3 \in Start(i) .. Start(i + 1) - 1
      BY <1>3, SMTT(40)
    <3>2. at # Start(i) + 2 /\ at # Start(i) + 3
      BY <1>4, <2>2, <3>1
    <3> QED BY <3>2 DEF LengthKept, Hit, at
  <2> QED BY <2>1, <2>2
<1> QED BY <1>5, <1>6

LEMMA DamagedTurn ==
  ASSUME TypeOK, Joined, NEW d \in 1 .. Len(sent), Damaged(d),
         DamagedWalk(d), Turn("lenient")
  PROVE  DamagedWalk(d)'
<1> DEFINE l == Len(datagram)
           n == Len(sent)
           c == Len(Lenient.packets)
<1>1. PICK k \in 0 .. n :
        /\ Lenient.offset = Start(k + 1)
        /\ c = k \/ (d =< k /\ c = k - 1)
        /\ \A i \in 1 .. d - 1 : i =< k => Lenient.packets[i] = Returns(i)
        /\ \A i \in d + 1 .. k : Lenient.packets[c - (k - i)] = Returns(i)
  BY DEF DamagedWalk
<1>2. /\ sent' = sent /\ damage' = damage /\ datagram' = datagram
      /\ Lenient.packets \in Seq(Parsable) /\ c \in Nat
  BY Modes, ParserFields DEF Turn, Lenient
<1>3. /\ \A i : Start(i)' = Start(i) /\ Returns(i)' = Returns(i)
      /\ Len(sent)' = n
  BY <1>2, SameWalk
<1>4. /\ l \in Nat /\ n \in Nat /\ l = Start(n + 1)
      /\ k + 1 \in 1 .. n + 1 /\ d \in Int /\ 1 =< d /\ k \in Nat
      /\ \A i \in 1 .. n : Start(i) + HeaderSize =< Start(i + 1)
      /\ \A i \in 1 .. n + 1 : Start(i) \in Nat /\ Start(i) =< l
  BY WithinPackets DEF Joined, Damaged
<1>5. CASE k # n
  <2>1. k + 1 \in 1 .. n /\ (k + 1) + 1 \in 1 .. n + 1 /\ k + 1 \in 0 .. n
    BY <1>4, <1>5
  <2>2. /\ Start(k + 1) + HeaderSize =< l /\ Start((k + 1) + 1) =< l
        /\ Start(k + 1) # l /\ HeaderSize =< l
    <3>1. /\ Start(k + 1) + 4 =< Start((k + 1) + 1) /\ Start((k + 1) + 1) =< l
          /\ Start(k + 1) \in Nat /\ Start((k + 1) + 1) \in Nat
      BY <1>4, <2>1 DEF HeaderSize
    <3> QED BY <1>4, <3>1 DEF HeaderSize
  <2>3. LengthKept(k + 1) /\ (k + 1 # d => Intact(k + 1))
    BY <2>1, DamageElsewhere
  <2>4. PacketEnd(Start(k + 1)) = Start((k + 1) + 1) /\ WholeAt(Start(k + 1))
    BY <2>1, <2>2, <2>3, Framing DEF WholeAt
  <2>5. Takes("lenient") \/ Skips("lenient")
    <3>1. ~(l < HeaderSize)
      BY <1>4, <2>2 DEF HeaderSize
    <3>2. ~Stops("lenient")
      BY <1>1, <2>2, <2>4, <3>1 DEF Stops, Lenient
    <3> QED BY <3>2 DEF Turn
  <2>6. Lenient'.offset = Start((k + 1) + 1) /\ Lenient'.status = "parsing"
    BY <1>1, <2>4, <2>5 DEF Takes, Skips, Lenient
  <2>7. CASE Skips("lenient")
    <3>1. k + 1 = d
      <4>1. ASSUME k + 1 # d
            PROVE  FALSE
        <5>1. ParsedAt(Start(k + 1)) = <<Returns(k + 1)>>
          BY <2>1, <2>2, <2>3, <4>1, IntactReturns
        <5>2. <<Returns(k + 1)>> # Malformed
          BY DEF Malformed
        <5>3. ParsedAt(Start(k + 1)) = Malformed
          BY <1>1, <2>7 DEF Skips, Lenient
        <5> QED BY <5>1, <5>2, <5>3
      <4> QED BY <4>1
    <3>2. Lenient'.packets = Lenient.packets
      BY <2>7 DEF Skips, Lenient
    <3> DEFINE c2 == Len(Lenient'.packets)
    <3>3. c2 = k /\ d =< k + 1 /\ c2 = (k + 1) - 1
      <4>1. ~(d =< k)
        BY <1>4, <3>1
      <4>2. c = k
        BY <1>1, <4>1
      <4>3. d =< k + 1 /\ k = (k + 1) - 1
        BY <1>4, <3>1
      <4> QED BY <3>2, <4>2, <4>3
    <3>4. \A i \in 1 .. d - 1 : i =< k
      BY <1>4, <3>1
    <3>5. \A i \in d + 1 .. k + 1 : FALSE
      BY <1>4, <3>1
    <3>6. \A i \in 1 .. d - 1 : i =< k + 1 => Lenient'.packets[i] = Returns(i)
      BY <1>1, <3>2, <3>4
    <3> QED BY <1>3, <2>1, <2>6, <3>3, <3>5, <3>6 DEF DamagedWalk
  <2>8. CASE Takes("lenient")
    <3>1. PICK p \in Parsable :
            /\ ParsedAt(Lenient.offset) = <<p>>
            /\ Lenient'.packets = Append(Lenient.packets, p)
      BY <2>8 DEF Takes, Lenient
    <3>2. k + 1 # d => p = Returns(k + 1)
      <4>1. k + 1 # d => ParsedAt(Start(k + 1)) = <<Returns(k + 1)>>
        BY <2>1, <2>2, <2>3, IntactReturns
      <4> QED BY <1>1, <3>1, <4>1
    <3>3. /\ Len(Lenient'.packets) = c + 1
          /\ \A i \in 1 .. c : Lenient'.packets[i] = Lenient.packets[i]
          /\ Lenient'.packets[c + 1] = p
      BY <1>2, <3>1, AppendProperties
    <3> HIDE DEF c
    <3>4. c + 1 = k + 1 \/ (d =< k + 1 /\ c + 1 = (k + 1) - 1)
      BY <1>1, <1>2, <1>4
    <3>5. ASSUME NEW i \in 1 .. d - 1, i =< k + 1
          PROVE  Lenient'.packets[i] = Returns(i)
      <4>1. CASE i = k + 1
        <5>1. c = k /\ k + 1 # d
          BY <1>1, <1>4, <3>5, <4>1
        <5> QED BY <3>2, <3>3, <4>1, <5>1
      <4>2. CASE i # k + 1
        <5>1. i =< k /\ i \in 1 .. c
          BY <1>1, <1>2, <1>4, <3>5, <4>2
        <5> QED BY <1>1, <3>3, <5>1
      <4> QED BY <4>1, <4>2
    <3>6. ASSUME NEW i \in d + 1 .. k + 1
          PROVE  Lenient'.packets[(c + 1) - ((k + 1) - i)] = Returns(i)
      <4>1. CASE i = k + 1
        <5>1. k + 1 # d /\ (c + 1) - ((k + 1) - i) = c + 1
          BY <1>2, <1>4, <4>1
        <5> QED BY <3>2, <3>3, <4>1, <5>1
      <4>2. CASE i # k + 1
        <5>1. /\ i \in d + 1 .. k
              /\ (c + 1) - ((k + 1) - i) = c - (k - i)
              /\ c - (k - i) \in 1 .. c
          BY <1>1, <1>2, <1>4, <3>6, <4>2
        <5> QED BY <1>1, <3>3, <5>1
      <4> QED BY <4>1, <4>2
    <3> QED BY <1>3, <2>1, <2>6, <3>3, <3>4, <3>5, <3>6, SMTT(40) DEF DamagedWalk
  <2> QED BY <2>5, <2>7, <2>8
<1>6. CASE k = n
  <2>1. Lenient.offset = l /\ Start(k + 1) = l
    BY <1>1, <1>4, <1>6
  <2>2. ~(l + HeaderSize =< l)
    BY <1>4 DEF HeaderSize
  <2>3. HeaderSize =< l /\ ~(l < HeaderSize)
    <3>1. Start(d) + 4 =< Start(d + 1) /\ Start(d) \in Nat /\ Start(d + 1) \in Nat
          /\ Start(d + 1) =< l
      <4>1. d + 1 \in 1 .. n + 1 /\ d \in 1 .. n + 1
        BY <1>4
      <4> QED BY <1>4, <4>1 DEF HeaderSize
    <3> QED BY <1>4, <3>1 DEF HeaderSize
  <2>4. Stops("lenient")
    BY <2>1, <2>2 DEF Turn, Takes, Skips, WholeAt, Lenient
  <2>5. /\ Lenient'.packets = Lenient.packets /\ Lenient'.offset = Lenient.offset
        /\ Lenient'.status = "done"
    BY <2>1, <2>3, <2>4 DEF Stops, Lenient
  <2> QED BY <1>1, <1>3, <1>6, <2>5 DEF DamagedWalk
<1> QED BY <1>5, <1>6

----------------------------------------------------------------------------
(* Any step leaves both parsers untouched, or is a turn of one.              *)

LEMMA Steps ==
  ASSUME TypeOK, [Next]_vars
  PROVE  Fresh' \/ (\E m \in Mode : Turn(m)) \/ UNCHANGED vars
<1>1. ASSUME phase = "building", parser' = parser
      PROVE  Fresh'
  <2>1. phase # "parsing"
    BY <1>1
  <2>2. Fresh
    BY <2>1, FreshUntilParsing
  <2> QED BY <1>1, <2>2 DEF Fresh
<1>2. ASSUME NEW p \in Packet, BuildOne(p) \/ BuildError(p)
      PROVE  Fresh'
  BY <1>1, <1>2 DEF BuildOne, BuildError
<1>3. ASSUME NEW n \in 0 .. Len(datagram), Cut(n)
      PROVE  Fresh'
  BY <1>1, <1>3 DEF Cut, Deliver
<1>4. ASSUME NEW at \in 0 .. Len(datagram) - 1, NEW bit \in Bit, FlipBit(at, bit)
      PROVE  Fresh'
  BY <1>1, <1>4 DEF FlipBit, Deliver
<1>5. ASSUME NEW m \in Mode, Parse(m)
      PROVE  Turn(m)
  BY <1>5, TurnStep
<1> QED BY <1>2, <1>3, <1>4, <1>5 DEF Next

LEMMA AgreeStep == TypeOK /\ Agree /\ [Next]_vars => Agree'
<1> SUFFICES ASSUME TypeOK, Agree, [Next]_vars
             PROVE  Agree'
  OBVIOUS
<1>1. (Fresh => Agree)'
  BY AgreeFresh, PTL
<1>2. ASSUME NEW m \in Mode, Turn(m)
      PROVE  Agree'
  BY <1>2, AgreeStrict, AgreeLenient DEF Mode
<1>3. CASE UNCHANGED vars
  BY <1>3, SameBytes DEF vars, Agree, InTurn, Walked, Behind, Beyond, Strict, Lenient
<1> QED BY <1>1, <1>2, <1>3, Steps

LEMMA InStepStep == TypeOK /\ Joined /\ InStep /\ [Next]_vars => InStep'
<1> SUFFICES ASSUME TypeOK, Joined, InStep, [Next]_vars
             PROVE  InStep'
  OBVIOUS
<1>1. (TypeOK /\ Fresh => InStep)'
  BY InStepFresh, PTL
<1>2. TypeOK'
  BY TypeStep
<1>3. ASSUME NEW m \in Mode, Turn(m)
      PROVE  InStep'
  BY <1>3, InStepTurn
<1>4. CASE UNCHANGED vars
  BY <1>4 DEF vars, InStep, Start, LengthKept, Hit
<1> QED BY <1>1, <1>2, <1>3, <1>4, Steps

LEMMA WalksStep ==
  TypeOK /\ Joined /\ Cutting /\ Contained /\ [Next]_vars
    => Cutting' /\ Contained'
<1> SUFFICES ASSUME TypeOK, Joined, Cutting, Contained, [Next]_vars
             PROVE  Cutting' /\ Contained'
  OBVIOUS
<1>1. (TypeOK /\ Fresh => Cutting /\ Contained)'
  BY WalksFresh, PTL
<1>2. TypeOK'
  BY TypeStep
<1>3. ASSUME sent' = sent, damage' = damage, datagram' = datagram,
             NEW k \in Mode, parser'[k] = parser[k], CutWalk(k)
      PROVE  CutWalk(k)'
  BY <1>3, SameWalk DEF CutWalk
<1>4. ASSUME sent' = sent, damage' = damage, datagram' = datagram,
             Lenient' = Lenient, NEW d, DamagedWalk(d)
      PROVE  DamagedWalk(d)'
  BY <1>4, SameWalk DEF DamagedWalk
<1>5. ASSUME NEW m \in Mode, Turn(m)
      PROVE  Cutting' /\ Contained'
  <2>1. sent' = sent /\ damage' = damage /\ datagram' = datagram
    BY <1>5 DEF Turn
  <2>2. \A k \in Mode : k # m => parser'[k] = parser[k]
    BY <1>5, OtherMode
  <2>3. ASSUME damage.kind = "cut", NEW k \in Mode
        PROVE  CutWalk(k)'
    <3>1. CutWalk(k)
      BY <2>3 DEF Cutting
    <3>2. CASE k = m
      BY <1>5, <2>3, <3>1, <3>2, CutTurn
    <3>3. CASE k # m
      BY <1>3, <2>1, <2>2, <3>1, <3>3
    <3> QED BY <3>2, <3>3
  <2>4. Cutting'
    BY <2>1, <2>3 DEF Cutting
  <2>5. ASSUME NEW d \in 1 .. Len(sent), Damaged(d)
        PROVE  DamagedWalk(d)'
    <3>1. DamagedWalk(d)
      BY <2>5 DEF Contained
    <3>2. CASE m = "lenient"
      BY <1>5, <2>5, <3>1, <3>2, DamagedTurn
    <3>3. CASE m # "lenient"
      <4>1. Lenient' = Lenient
        BY <2>2, <3>3, Modes DEF Lenient
      <4> QED BY <1>4, <2>1, <3>1, <4>1
    <3> QED BY <3>2, <3>3
  <2>6. Contained'
    BY <2>1, <2>5, SameWalk DEF Contained
  <2> QED BY <2>4, <2>6
<1>6. CASE UNCHANGED vars
  <2>1. /\ sent' = sent /\ damage' = damage /\ datagram' = datagram
        /\ parser' = parser /\ Lenient' = Lenient
    BY <1>6 DEF vars, Lenient
  <2>2. Cutting'
    BY <1>3, <2>1 DEF Cutting
  <2>3. Contained'
    BY <1>4, <2>1, SameWalk DEF Contained
  <2> QED BY <2>2, <2>3
<1> QED BY <1>1, <1>2, <1>5, <1>6, Steps

----------------------------------------------------------------------------
IInv == TypeOK /\ Joined /\ Agree /\ InStep

(* With where each parser stands in a compound that was cut or hit.          *)
WalkInv == IInv /\ Cutting /\ Contained

LEMMA IInvInit == Init => WalkInv
<1> SUFFICES ASSUME Init
             PROVE  WalkInv
  OBVIOUS
<1>1. TypeOK /\ Joined
  BY TypeInit, JoinedInit
<1>2. phase # "parsing"
  BY DEF Init
<1>3. Fresh
  BY <1>1, <1>2, FreshUntilParsing
<1> QED BY <1>1, <1>3, AgreeFresh, InStepFresh, WalksFresh DEF IInv, WalkInv

LEMMA IInvStep == IInv /\ [Next]_vars => IInv'
BY TypeStep, JoinedStep, AgreeStep, InStepStep DEF IInv

(* IInv is an invariant of the compound on its way.                          *)
THEOREM IInvInvariant == Spec => []IInv
<1>1. Init => IInv
  BY IInvInit DEF WalkInv
<1> QED BY <1>1, IInvStep, PTL DEF Spec

(* Bytes stay bytes, no parser reads past what has arrived, and what the     *)
(* loop returns is what the body parsers return, one packet at a time.       *)
THEOREM TypeInvariant == Spec => []TypeOK
<1>1. IInv => TypeOK
  BY DEF IInv
<1> QED BY <1>1, IInvInvariant, PTL

(* As long as no length field is hit, whatever else is damaged or cut off,   *)
(* both parsers stand at the head of a packet the builder made.              *)
THEOREM ParsersStayInStep == Spec => []InStep
<1>1. IInv => InStep
  BY DEF IInv
<1> QED BY <1>1, IInvInvariant, PTL

----------------------------------------------------------------------------
(* The properties, read off the invariant.                                   *)

LEMMA PrefixBy ==
  ASSUME NEW S, NEW s \in Seq(S), NEW t \in Seq(S), Len(s) =< Len(t),
         \A i \in 1 .. Len(s) : s[i] = t[i]
  PROVE  IsPrefix(s, t)
<1> DEFINE k == Len(s)
           a == SubSeq(s, 1, k)
           b == SubSeq(t, 1, k)
<1>1. k \in Nat /\ Len(t) \in Nat
  BY LenProperties
<1>2. k - 1 + 1 = k /\ 1 \in Int /\ k \in Int
  BY <1>1
<1>3. (\A i \in 1 .. k : s[i] \in S) /\ (\A i \in 1 .. k : t[i] \in S)
  BY <1>1, ElementOfSeq
<1>4. IF 1 =< k THEN TRUE ELSE k = 0
  BY <1>1
<1> HIDE DEF k
<1>5. /\ a \in Seq(S) /\ Len(a) = k /\ \A i \in 1 .. k : a[i] = s[1 + i - 1]
      /\ b \in Seq(S) /\ Len(b) = k /\ \A i \in 1 .. k : b[i] = t[1 + i - 1]
  BY <1>2, <1>3, <1>4, SubSeqProperties
<1>6. \A i \in 1 .. k : 1 + i - 1 = i
  BY <1>1
<1>7. \A i \in 1 .. Len(a) : a[i] = b[i]
  BY <1>5, <1>6 DEF k
<1> HIDE DEF a, b
<1>8. a = b
  BY <1>5, <1>7, SeqEqual
<1> QED BY <1>8 DEF IsPrefix, a, b, k

LEMMA ReversedSeq ==
  ASSUME NEW S, NEW s \in Seq(S)
  PROVE  /\ Reverse(s) \in Seq(S) /\ Len(Reverse(s)) = Len(s)
         /\ \A i \in 1 .. Len(s) : Reverse(s)[i] = s[(Len(s) - i) + 1]
<1>1. Len(s) \in Nat
  BY LenProperties
<1>2. \A i \in 1 .. Len(s) : s[(Len(s) - i) + 1] \in S
  <2>1. \A i \in 1 .. Len(s) : (Len(s) - i) + 1 \in 1 .. Len(s)
    BY <1>1
  <2> QED BY <2>1, ElementOfSeq
<1> QED BY <1>1, <1>2 DEF Reverse

LEMMA SuffixBy ==
  ASSUME NEW S, NEW s \in Seq(S), NEW t \in Seq(S), Len(s) =< Len(t),
         \A i \in 1 .. Len(s) : s[(Len(s) - i) + 1] = t[(Len(t) - i) + 1]
  PROVE  IsSuffix(s, t)
<1>1. Len(s) \in Nat /\ Len(t) \in Nat
  BY LenProperties
<1>2. \A i \in 1 .. Len(s) : i \in 1 .. Len(t)
  BY <1>1
<1>3. /\ Reverse(s) \in Seq(S) /\ Len(Reverse(s)) = Len(s)
      /\ Reverse(t) \in Seq(S) /\ Len(Reverse(t)) = Len(t)
      /\ \A i \in 1 .. Len(s) : Reverse(s)[i] = s[(Len(s) - i) + 1]
      /\ \A i \in 1 .. Len(t) : Reverse(t)[i] = t[(Len(t) - i) + 1]
  BY ReversedSeq
<1>4. \A i \in 1 .. Len(Reverse(s)) : Reverse(s)[i] = Reverse(t)[i]
  BY <1>2, <1>3
<1>5. IsPrefix(Reverse(s), Reverse(t))
  BY <1>3, <1>4, PrefixBy
<1> QED BY <1>5 DEF IsSuffix

(* What the two modes return is one story: every packet of strict mode, in   *)
(* its order, is lenient mode's too, and what strict mode accepts whole,     *)
(* lenient mode returns alike; whatever bytes arrive.                        *)
THEOREM ModesAgreeHolds == Spec => []ModesAgree
<1>1. TypeOK /\ Agree => ModesAgree
  <2> SUFFICES ASSUME TypeOK, Agree, Ended("lenient")
               PROVE  /\ IsPrefix(Strict.packets, Lenient.packets)
                      /\ Strict.status = "done" =>
                           Lenient.status = "done" /\ Lenient.packets = Strict.packets
    BY DEF ModesAgree, Strict, Lenient
  <2>1. Lenient.status # "parsing"
    BY DEF Ended, Lenient
  <2>2. /\ Strict.packets \in Seq(Parsable) /\ Lenient.packets \in Seq(Parsable)
        /\ Len(Strict.packets) \in Nat /\ Len(Lenient.packets) \in Nat
    BY Modes, ParserFields DEF Strict, Lenient
  <2>3. PICK at : Behind(at) \/ Beyond
    BY DEF Agree
  <2>4. /\ Len(Strict.packets) =< Len(Lenient.packets)
        /\ \A i \in 1 .. Len(Strict.packets) : Strict.packets[i] = Lenient.packets[i]
    BY <2>1, <2>2, <2>3 DEF Behind, Beyond
  <2>5. IsPrefix(Strict.packets, Lenient.packets)
    BY <2>2, <2>4, PrefixBy
  <2>6. ASSUME Strict.status = "done"
        PROVE  Lenient.status = "done" /\ Lenient.packets = Strict.packets
    <3>1. Behind(at)
      BY <2>3, <2>6 DEF Beyond
    <3>2. /\ Len(Lenient.packets) = Len(Strict.packets) /\ Lenient.status = "done"
          /\ \A i \in 1 .. Len(Lenient.packets) : Lenient.packets[i] = Strict.packets[i]
      BY <2>1, <2>6, <3>1 DEF Behind
    <3> QED BY <2>2, <3>2, SeqEqual
  <2> QED BY <2>5, <2>6
<1>2. IInv => TypeOK /\ Agree
  BY DEF IInv
<1> QED BY <1>1, <1>2, IInvInvariant, PTL

(* Each turn of the loop ends it or takes it at least a header further, and  *)
(* never past what has arrived; a parser that has ended, and the one whose   *)
(* turn it is not, are left alone.  So there are at most Len(datagram) \div  *)
(* 4 + 1 turns: the safety half of Terminates.                               *)
Advance(m) ==
  \/ parser'[m] = parser[m]
  \/ /\ parser[m].status = "parsing"
     /\ \A k \in Mode \ {m} : parser'[k] = parser[k]
     /\ \/ /\ parser'[m].status # "parsing"
           /\ parser'[m].offset = parser[m].offset
           /\ parser'[m].packets = parser[m].packets
        \/ /\ parser'[m].status = "parsing"
           /\ parser[m].offset + HeaderSize =< parser'[m].offset
           /\ parser'[m].offset =< Len(datagram)
           /\ \/ parser'[m].packets = parser[m].packets
              \/ \E p \in Parsable : parser'[m].packets = Append(parser[m].packets, p)

THEOREM ParsersAdvance == Spec => [][\A m \in Mode : Advance(m)]_vars
<1>1. TypeOK /\ [Next]_vars => [\A m \in Mode : Advance(m)]_vars
  <2> SUFFICES ASSUME TypeOK, [Next]_vars, NEW m \in Mode
               PROVE  Advance(m)
    OBVIOUS
  <2>1. ASSUME parser' = parser
        PROVE  Advance(m)
    BY <2>1 DEF Advance
  <2>2. ASSUME NEW k \in Mode, Parse(k)
        PROVE  Advance(m)
    <3> DEFINE at == parser[k].offset
    <3>1. Turn(k)
      BY <2>2, TurnStep
    <3>2. CASE m # k
      BY <3>1, <3>2, OtherMode DEF Advance
    <3>3. CASE m = k
      <4>1. /\ parser[k].status = "parsing" /\ parser'[k].offset =< Len(datagram)
            /\ \A o \in Mode \ {k} : parser'[o] = parser[o]
        BY <3>1, OtherMode DEF Turn, Running
      <4>2. ASSUME Stops(k)
            PROVE  /\ parser'[k].status # "parsing"
                   /\ parser'[k].offset = at
                   /\ parser'[k].packets = parser[k].packets
        BY <4>2 DEF Stops, Refused
      <4>3. ASSUME Skips(k) \/ Takes(k)
            PROVE  /\ parser'[k].status = "parsing"
                   /\ at + HeaderSize =< parser'[k].offset
                   /\ \/ parser'[k].packets = parser[k].packets
                      \/ \E p \in Parsable :
                           parser'[k].packets = Append(parser[k].packets, p)
        <5>1. /\ WholeAt(at) /\ parser'[k].offset = PacketEnd(at)
              /\ at \in Nat /\ datagram \in Seq(Byte)
          BY <4>3, ParserFields DEF Skips, Takes, TypeOK
        <5>2. at + HeaderSize =< PacketEnd(at)
          BY <5>1, HeaderFacts DEF WholeAt, HeaderSize
        <5> QED BY <4>3, <5>1, <5>2 DEF Skips, Takes
      <4> QED BY <3>1, <3>3, <4>1, <4>2, <4>3 DEF Turn, Advance
    <3> QED BY <3>2, <3>3
  <2>3. CASE UNCHANGED vars
    BY <2>1, <2>3 DEF vars
  <2> QED BY <2>1, <2>2, <2>3 DEF Next, BuildOne, BuildError, Cut, FlipBit, Deliver
<1>2. IInv => TypeOK
  BY DEF IInv
<1> QED BY <1>1, <1>2, IInvInvariant, PTL DEF Spec

Answer == Parsable \cup {Returned(p) : p \in Packet}

(* The packets from a to b as they come back.                                *)
LEMMA ReturnedSlice ==
  ASSUME TypeOK, NEW a \in Nat, NEW b \in Nat, a =< b, b =< Len(sent)
  PROVE  /\ ReturnedOf(SubSeq(sent, a + 1, b)) \in Seq(Answer)
         /\ Len(ReturnedOf(SubSeq(sent, a + 1, b))) = b - a
         /\ \A i \in 1 .. b - a :
              ReturnedOf(SubSeq(sent, a + 1, b))[i] = Returns(a + i)
<1> DEFINE m == a + 1
           s == SubSeq(sent, m, b)
           n == b - a
<1>1. sent \in Seq(SentType) /\ Len(sent) \in Nat
  BY LenProperties DEF TypeOK
<1>2. m \in Int /\ b \in Int /\ n \in Nat
  OBVIOUS
<1>3. \A i \in m .. b : sent[i] \in SentType
  <2>1. \A i \in m .. b : i \in 1 .. Len(sent)
    BY <1>1
  <2> QED BY <1>1, <2>1, ElementOfSeq
<1>4. /\ b - m + 1 = n
      /\ (m =< b <=> ~(n = 0))
      /\ \A i \in 1 .. n : m + i - 1 = a + i /\ a + i \in m .. b /\ a + i \in 1 .. Len(sent)
  BY <1>1
<1> HIDE DEF m
<1>5. /\ s \in Seq(SentType)
      /\ Len(s) = IF m <= b THEN b - m + 1 ELSE 0
      /\ \A i \in 1 .. b - m + 1 : s[i] = sent[m + i - 1]
  BY <1>2, <1>3, SubSeqProperties
<1> HIDE DEF n, s
<1>6. Len(s) = n /\ DOMAIN s = 1 .. n
  BY <1>4, <1>5
<1>7. \A i \in 1 .. n : s[i] = sent[a + i]
  BY <1>4, <1>5
<1>8. \A i \in 1 .. n : Returned(s[i].packet) = Returns(a + i)
  BY <1>7 DEF Returns, PacketOf
<1>9. \A i \in 1 .. n : Returned(s[i].packet) \in Answer
  <2>1. \A i \in 1 .. n : s[i] \in SentType
    BY Zenon, <1>5, <1>6, ElementOfSeq
  <2>2. \A i \in 1 .. n : s[i].packet \in Packet
    BY <2>1 DEF SentType
  <2> QED BY <2>2 DEF Answer
<1>10. ReturnedOf(s) = [i \in 1 .. n |-> Returned(s[i].packet)]
  BY <1>6 DEF ReturnedOf
<1>11. /\ ReturnedOf(s) \in Seq(Answer)
       /\ Len(ReturnedOf(s)) = n
       /\ \A i \in 1 .. n : ReturnedOf(s)[i] = Returned(s[i].packet)
  BY <1>2, <1>9, <1>10
<1> QED BY <1>8, <1>11 DEF s, n, m

LEMMA PacketsAreAnswers ==
  ASSUME TypeOK, NEW m \in Mode
  PROVE  parser[m].packets \in Seq(Answer)
<1>1. parser[m].packets \in Seq(Parsable) /\ Parsable \subseteq Answer
  BY ParserFields DEF Answer
<1> QED BY <1>1

LEMMA WalkInvariant == Spec => []WalkInv
<1>1. WalkInv /\ [Next]_vars => WalkInv'
  BY IInvStep, WalksStep DEF WalkInv, IInv
<1> QED BY <1>1, IInvInit, PTL DEF Spec

LEMMA WholePackets ==
  ASSUME TypeOK, Joined, damage.kind = "cut", NEW k \in 0 .. Len(sent),
         Start(k + 1) =< damage.at,
         k = Len(sent) \/ damage.at < Start((k + 1) + 1)
  PROVE  Max({i \in 0 .. Len(sent) : Start(i + 1) =< damage.at}) = k
<1> DEFINE whole == {i \in 0 .. Len(sent) : Start(i + 1) =< damage.at}
<1>1. Len(sent) \in Nat /\ damage.at \in Nat
  BY LenProperties DEF TypeOK, DamageType
<1>2. ASSUME NEW i \in whole
      PROVE  i \in Int /\ i =< k
  <2>1. i \in 0 .. Len(sent) /\ Start(i + 1) =< damage.at
    OBVIOUS
  <2>2. ASSUME ~(i =< k)
        PROVE  FALSE
    <3>1. /\ k + 1 \in 0 .. Len(sent) /\ damage.at < Start((k + 1) + 1)
          /\ (k + 1) + 1 \in 1 .. Len(sent) + 1 /\ i + 1 \in 1 .. Len(sent) + 1
          /\ i + 1 = (k + 1) + 1 \/ (k + 1) + 1 < i + 1
      BY <1>1, <2>1, <2>2
    <3>2. (k + 1) + 1 < i + 1 => Start((k + 1) + 1) < Start(i + 1)
      BY <3>1 DEF Joined
    <3>3. Start((k + 1) + 1) \in Nat /\ Start(i + 1) \in Nat
      BY <3>1, StartType
    <3> QED BY <1>1, <2>1, <3>1, <3>2, <3>3
  <2> QED BY <2>1, <2>2
<1>3. k \in whole /\ k \in Int
  OBVIOUS
<1> HIDE DEF whole
<1>4. \E x \in whole : \A y \in whole : x >= y
  BY <1>2, <1>3
<1>5. Max(whole) \in whole /\ \A y \in whole : Max(whole) >= y
  BY <1>4 DEF Max
<1>6. Max(whole) = k
  <2>1. Max(whole) \in Int /\ Max(whole) =< k /\ Max(whole) >= k
    BY Zenon, <1>2, <1>3, <1>5
  <2> QED BY <1>3, <2>1
<1> QED BY <1>6 DEF whole

(* The packets that arrive whole come back as the builder was given them,    *)
(* from a compound of any length, cut anywhere or not at all, and strict     *)
(* mode takes a cut between packets only.                                    *)
THEOREM CutLeavesPrefixHolds == Spec => []CutLeavesPrefix
<1>1. WalkInv => CutLeavesPrefix
  <2> DEFINE whole == {i \in 0 .. Len(sent) : Start(i + 1) =< damage.at}
             got   == ReturnedOf(SubSeq(sent, 1, Max(whole)))
  <2> SUFFICES ASSUME WalkInv, damage.kind = "cut"
               PROVE  /\ Ended("lenient") =>
                           IF damage.at < HeaderSize
                           THEN parser["lenient"].status = "raised"
                           ELSE /\ parser["lenient"].status = "done"
                                /\ parser["lenient"].packets = got
                      /\ Ended("strict") =>
                           (parser["strict"].status = "done"
                              <=> damage.at > 0 /\ damage.at = Start(Max(whole) + 1))
    BY DEF CutLeavesPrefix
  <2>1. TypeOK /\ Joined /\ \A m \in Mode : CutWalk(m)
    BY DEF WalkInv, IInv, Cutting
  <2>2. /\ damage.at \in Nat /\ Len(datagram) = damage.at /\ Len(sent) \in Nat
    BY <2>1, WithinPackets DEF Joined, TypeOK, DamageType
  <2>3. ASSUME NEW m \in Mode, Ended(m)
        PROVE  \E k \in 0 .. Len(sent) :
                 /\ Max(whole) = k
                 /\ Len(parser[m].packets) = k
                 /\ \A i \in 1 .. k : parser[m].packets[i] = Returns(i)
                 /\ parser[m].status =
                      IF HeaderSize =< damage.at /\ (m = "lenient" \/ Start(k + 1) = damage.at)
                      THEN "done" ELSE "raised"
    <3>1. PICK k \in 0 .. Len(sent) :
            /\ Start(k + 1) =< Len(datagram)
            /\ Len(parser[m].packets) = k
            /\ \A i \in 1 .. k : parser[m].packets[i] = Returns(i)
            /\ parser[m].status # "parsing" =>
                 /\ k = Len(sent) \/ Len(datagram) < Start((k + 1) + 1)
                 /\ parser[m].status =
                      IF /\ HeaderSize =< Len(datagram)
                         /\ m = "lenient" \/ Start(k + 1) = Len(datagram)
                      THEN "done" ELSE "raised"
      BY <2>1 DEF CutWalk
    <3>2. parser[m].status # "parsing"
      BY <2>3 DEF Ended
    <3>3. Start(k + 1) =< damage.at /\ (k = Len(sent) \/ damage.at < Start((k + 1) + 1))
      BY <2>2, <3>1, <3>2
    <3>4. Max(whole) = k
      BY <2>1, <3>3, WholePackets
    <3> HIDE DEF whole
    <3> QED BY <2>2, <3>1, <3>2, <3>4
  <2> HIDE DEF whole
  <2>4. ASSUME Ended("lenient")
        PROVE  IF damage.at < HeaderSize THEN parser["lenient"].status = "raised"
               ELSE /\ parser["lenient"].status = "done"
                    /\ parser["lenient"].packets = got
    <3>1. PICK k \in 0 .. Len(sent) :
            /\ Max(whole) = k
            /\ Len(parser["lenient"].packets) = k
            /\ \A i \in 1 .. k : parser["lenient"].packets[i] = Returns(i)
            /\ parser["lenient"].status =
                 IF HeaderSize =< damage.at THEN "done" ELSE "raised"
      BY <2>3, <2>4, Modes
    <3>2. /\ k \in Nat /\ 0 \in Nat /\ 0 =< k /\ k =< Len(sent)
          /\ 0 + 1 = 1 /\ k - 0 = k
      BY <2>2
    <3>3. /\ ReturnedOf(SubSeq(sent, 0 + 1, k)) \in Seq(Answer)
          /\ Len(ReturnedOf(SubSeq(sent, 0 + 1, k))) = k - 0
          /\ \A i \in 1 .. k - 0 :
               ReturnedOf(SubSeq(sent, 0 + 1, k))[i] = Returns(0 + i)
      BY Zenon, <2>1, <3>2, ReturnedSlice
    <3>4. got = ReturnedOf(SubSeq(sent, 0 + 1, k))
      BY <3>1, <3>2
    <3>5. \A i \in 1 .. k : 0 + i = i
      BY <3>2
    <3> HIDE DEF got
    <3>6. /\ got \in Seq(Answer) /\ Len(got) = k
          /\ \A i \in 1 .. k : got[i] = Returns(i)
      BY <3>2, <3>3, <3>4, <3>5
    <3>7. parser["lenient"].packets \in Seq(Answer)
      BY <2>1, Modes, PacketsAreAnswers
    <3>8. \A i \in 1 .. Len(got) : got[i] = parser["lenient"].packets[i]
      BY <3>1, <3>6
    <3>9. Len(got) = Len(parser["lenient"].packets)
      BY <3>1, <3>6
    <3>10. got = parser["lenient"].packets
      BY <3>6, <3>7, <3>8, <3>9, SeqEqual
    <3>11. damage.at < HeaderSize <=> ~(HeaderSize =< damage.at)
      BY <2>2 DEF HeaderSize
    <3> QED BY <3>1, <3>10, <3>11
  <2>5. ASSUME Ended("strict")
        PROVE  parser["strict"].status = "done"
                 <=> damage.at > 0 /\ damage.at = Start(Max(whole) + 1)
    <3>1. PICK k \in 0 .. Len(sent) :
            /\ Max(whole) = k
            /\ parser["strict"].status =
                 IF HeaderSize =< damage.at /\ Start(k + 1) = damage.at
                 THEN "done" ELSE "raised"
      <4>1. PICK k \in 0 .. Len(sent) :
              /\ Max(whole) = k
              /\ parser["strict"].status =
                   IF HeaderSize =< damage.at
                      /\ ("strict" = "lenient" \/ Start(k + 1) = damage.at)
                   THEN "done" ELSE "raised"
        BY <2>3, <2>5, Modes
      <4> QED BY <4>1
    <3>2. damage.at > 0 /\ damage.at = Start(k + 1) => HeaderSize =< damage.at
      <4>1. CASE k = 0
        BY <4>1 DEF Start
      <4>2. CASE k # 0
        <5>1. k \in 1 .. Len(sent)
          BY <2>2, <4>2
        <5>2. /\ Start(k) + HeaderSize =< Start(k + 1)
              /\ Start(k) \in Nat /\ Start(k + 1) \in Nat
          BY <2>1, <5>1, WithinPackets, SentFacts
        <5> QED BY <5>2 DEF HeaderSize
      <4> QED BY <4>1, <4>2
    <3>3. HeaderSize =< damage.at => damage.at > 0
      BY <2>2 DEF HeaderSize
    <3> QED BY <3>1, <3>2, <3>3
  <2> QED BY <2>4, <2>5
<1> QED BY <1>1, WalkInvariant, PTL

(* A damaged bit that is not of a length field costs or changes the packet   *)
(* it lies in and no other, in a compound of any length.                     *)
THEOREM DamageIsContainedHolds == Spec => []DamageIsContained
<1>1. WalkInv => DamageIsContained
  <2> DEFINE n   == Len(sent)
             got == Lenient.packets
             c   == Len(got)
  <2> SUFFICES ASSUME WalkInv, damage.kind = "flip", Ended("lenient"),
                      NEW d \in 1 .. Len(sent),
                      damage.at \in Start(d) .. Start(d + 1) - 1,
                      damage.at \notin {Start(d) + 2, Start(d) + 3}
               PROVE  /\ Lenient.status = "done"
                      /\ c \in {n - 1, n}
                      /\ IsPrefix(ReturnedOf(SubSeq(sent, 1, d - 1)), got)
                      /\ IsSuffix(ReturnedOf(SubSeq(sent, d + 1, n)), got)
    BY DEF DamageIsContained, Lenient
  <2>1. TypeOK /\ Joined /\ n \in Nat
    BY LenProperties DEF WalkInv, IInv, TypeOK
  <2>2. Damaged(d)
    BY DEF Damaged, LengthKept, Hit
  <2>3. DamagedWalk(d)
    BY <2>2 DEF WalkInv, Contained
  <2>4. Lenient.status # "parsing"
    BY DEF Ended, Lenient
  <2>5. /\ c = n \/ c = n - 1
        /\ \A i \in 1 .. d - 1 : i =< n => got[i] = Returns(i)
        /\ \A i \in d + 1 .. n : got[c - (n - i)] = Returns(i)
        /\ Lenient.status = "done"
    BY <2>3, <2>4 DEF DamagedWalk
  <2>6. got \in Seq(Answer)
    BY <2>1, Modes, PacketsAreAnswers DEF Lenient
  <2>7. d \in Nat /\ d - 1 \in Nat /\ d =< n /\ c \in Nat
    BY <2>1, <2>6, LenProperties
  <2> HIDE DEF n, got, c
  <2>8. IsPrefix(ReturnedOf(SubSeq(sent, 1, d - 1)), got)
    <3> DEFINE before == ReturnedOf(SubSeq(sent, 0 + 1, d - 1))
    <3>1. /\ 0 \in Nat /\ 0 =< d - 1 /\ d - 1 =< n /\ (d - 1) - 0 = d - 1
          /\ d - 1 =< c
          /\ \A i \in 1 .. d - 1 : i =< n /\ 0 + i = i
      BY <2>1, <2>5, <2>7
    <3>2. /\ before \in Seq(Answer) /\ Len(before) = (d - 1) - 0
          /\ \A i \in 1 .. (d - 1) - 0 : before[i] = Returns(0 + i)
      BY Zenon, <2>1, <2>7, <3>1, ReturnedSlice DEF n
    <3> HIDE DEF before
    <3>3. \A i \in 1 .. Len(before) : before[i] = got[i]
      BY <2>5, <3>1, <3>2, SMTT(40)
    <3>4. IsPrefix(before, got)
      BY <2>6, <3>1, <3>2, <3>3, PrefixBy DEF c
    <3>5. 0 + 1 = 1
      OBVIOUS
    <3> QED BY Zenon, <3>4, <3>5 DEF before
  <2>9. IsSuffix(ReturnedOf(SubSeq(sent, d + 1, n)), got)
    <3> DEFINE after == ReturnedOf(SubSeq(sent, d + 1, n))
    <3>1. /\ after \in Seq(Answer) /\ Len(after) = n - d
          /\ \A i \in 1 .. n - d : after[i] = Returns(d + i)
      <4>1. n =< Len(sent)
        BY <2>1 DEF n
      <4> QED BY Zenon, <2>1, <2>7, <4>1, ReturnedSlice
    <3> HIDE DEF after
    <3>2. n - d =< c
      BY <2>1, <2>5, <2>7
    <3>3. ASSUME NEW i \in 1 .. Len(after)
          PROVE  after[(Len(after) - i) + 1] = got[(c - i) + 1]
      <4>1. /\ i \in Int /\ i \in 1 .. n - d
            /\ ((n - d) - i) + 1 \in 1 .. n - d
            /\ d + (((n - d) - i) + 1) = (n - i) + 1
            /\ (n - i) + 1 \in d + 1 .. n
            /\ c - (n - ((n - i) + 1)) = (c - i) + 1
        BY <2>1, <2>7, <3>1
      <4>2. after[((n - d) - i) + 1] = Returns((n - i) + 1)
        BY <3>1, <4>1
      <4>3. got[(c - i) + 1] = Returns((n - i) + 1)
        BY <2>5, <4>1
      <4> QED BY <3>1, <4>2, <4>3
    <3>4. IsSuffix(after, got)
      BY <2>6, <3>1, <3>2, <3>3, SuffixBy DEF c
    <3> QED BY <3>4 DEF after
  <2>10. c \in {n - 1, n}
    BY <2>5
  <2> QED BY <2>5, <2>8, <2>9, <2>10
<1> QED BY <1>1, WalkInvariant, PTL
=============================================================================
