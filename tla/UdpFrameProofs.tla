----------------------------- MODULE UdpFrameProofs -----------------------------
(* Proofs about UdpFrame: what decapsulate_udp makes of any frame that       *)
(* encapsulate_udp built, whatever networks put into it and wherever the     *)
(* capture cut it, and that the checksums of a built frame are right.        *)
(*                                                                           *)
(* A frame is described by where its layers lie in it, as far as it reaches  *)
(* (Layout), so that a capture that cuts it leaves the description true.     *)
(* Each network action is shown to keep the description, each action of the  *)
(* walk to go from where one layer begins to where the next one does.        *)
EXTENDS UdpFrame, FiniteSetTheorems, WellFoundedInduction, TLAPS

(* Every set of natural numbers that is not empty has a least element.       *)
LEMMA LeastNumber ==
  ASSUME NEW T, T \subseteq Nat, T # {}
  PROVE  \E n \in T : \A m \in T : n =< m
<1> DEFINE R == OpToRel(<, Nat)
<1>1. IsWellFoundedOn(R, Nat)
  BY NatLessThanWellFounded
<1> HIDE DEF R
<1>2. \E x \in T : \A y \in T : ~(<<y, x>> \in R)
  BY <1>1, WFMin
<1>3. \A x, y \in Nat : y < x => <<y, x>> \in R
  BY DEF R, OpToRel
<1>4. \E x \in T : \A y \in T : ~(y < x)
  BY <1>2, <1>3, Zenon
<1> QED BY <1>4

(* Induction over the natural numbers, for a set.                            *)
LEMMA Induction ==
  ASSUME NEW S, 0 \in S, \A n \in Nat : n \in S => n + 1 \in S
  PROVE  Nat \subseteq S
<1> DEFINE T == Nat \ S
<1>1. CASE T = {}
  BY <1>1
<1>2. CASE T # {}
  <2>1. PICK n \in T : \A m \in T : n =< m
    BY <1>2, LeastNumber
  <2>2. n - 1 \in Nat
    BY <2>1
  <2>3. n - 1 \in S
    BY <2>1, <2>2
  <2>4. (n - 1) + 1 \in S
    BY <2>2, <2>3
  <2> QED BY <2>1, <2>4
<1> QED BY <1>1, <1>2

----------------------------------------------------------------------------
(* t lies in s behind the first k bytes, as far as s reaches.                *)
Holds(s, k, t) == \A i \in Nat : 1 =< i /\ i =< Len(t) /\ k + i =< Len(s) => s[k + i] = t[i]

(* What lies in a part lies in the whole.                                    *)
LEMMA HoldsPart ==
  ASSUME NEW s \in Seq(Nat), NEW t \in Seq(Nat), NEW u \in Seq(Nat),
         NEW k \in Nat, NEW j \in Nat,
         Holds(s, k, t), Holds(t, j, u), j + Len(u) =< Len(t)
  PROVE  Holds(s, k + j, u)
<1> SUFFICES ASSUME NEW i \in Nat, 1 =< i, i =< Len(u), (k + j) + i =< Len(s)
             PROVE  s[(k + j) + i] = u[i]
  BY DEF Holds
<1>1. Len(u) \in Nat /\ Len(t) \in Nat /\ Len(s) \in Nat
  OBVIOUS
<1>2. j + i \in Nat /\ 1 =< j + i /\ j + i =< Len(t) /\ k + (j + i) = (k + j) + i
  BY <1>1
<1>3. t[j + i] = u[i]
  BY <1>2 DEF Holds
<1>4. s[k + (j + i)] = t[j + i]
  BY <1>2 DEF Holds
<1> QED BY <1>2, <1>3, <1>4

(* The bytes of a concatenation.                                             *)
LEMMA Concatenation ==
  ASSUME NEW s \in Seq(Nat), NEW t \in Seq(Nat)
  PROVE  /\ s \o t \in Seq(Nat)
         /\ Len(s \o t) = Len(s) + Len(t)
         /\ \A i \in 1 .. Len(s) : (s \o t)[i] = s[i]
         /\ \A i \in 1 .. Len(t) : (s \o t)[Len(s) + i] = t[i]
OBVIOUS

(* The parts of a concatenation lie behind each other.                       *)
LEMMA Joined ==
  ASSUME NEW s \in Seq(Nat), NEW t \in Seq(Nat)
  PROVE  /\ s \o t \in Seq(Nat)
         /\ Len(s \o t) = Len(s) + Len(t)
         /\ Holds(s \o t, 0, s)
         /\ Holds(s \o t, Len(s), t)
<1> DEFINE u == s \o t
<1>1. /\ u \in Seq(Nat)
      /\ Len(u) = Len(s) + Len(t)
      /\ \A i \in 1 .. Len(s) : u[i] = s[i]
      /\ \A i \in 1 .. Len(t) : u[Len(s) + i] = t[i]
  BY Concatenation, Zenon
<1> HIDE DEF u
<1>2. Holds(u, 0, s) /\ Holds(u, Len(s), t)
  BY <1>1 DEF Holds
<1> QED BY <1>1, <1>2 DEF u

(* What lies in s still does when bytes are appended.                        *)
LEMMA HoldsInFront ==
  ASSUME NEW s \in Seq(Nat), NEW t \in Seq(Nat), NEW u \in Seq(Nat), NEW k \in Nat,
         Holds(s, k, u), k + Len(u) =< Len(s)
  PROVE  Holds(s \o t, k, u)
<1>1. s \o t \in Seq(Nat) /\ Holds(s \o t, 0, s)
  BY Joined
<1>2. Holds(s \o t, 0 + k, u)
  BY <1>1, HoldsPart
<1> QED BY <1>2

(* What lies in t moves by the length of what is put before it.              *)
LEMMA HoldsBehind ==
  ASSUME NEW s \in Seq(Nat), NEW t \in Seq(Nat), NEW u \in Seq(Nat), NEW k \in Nat,
         Holds(t, k, u), k + Len(u) =< Len(t)
  PROVE  Holds(s \o t, Len(s) + k, u)
<1>1. s \o t \in Seq(Nat) /\ Holds(s \o t, Len(s), t) /\ Len(s) \in Nat
  BY Joined
<1> QED BY <1>1, HoldsPart

(* The bytes of a slice.                                                     *)
LEMMA SubSeqIs ==
  ASSUME NEW s \in Seq(Nat), NEW a \in Nat, NEW b \in Nat, a =< b, b =< Len(s)
  PROVE  /\ SubSeq(s, a + 1, b) \in Seq(Nat)
         /\ Len(SubSeq(s, a + 1, b)) = b - a
         /\ \A i \in Nat : 1 =< i /\ i =< b - a => SubSeq(s, a + 1, b)[i] = s[a + i]
<1>1. Len(s) \in Nat
  OBVIOUS
<1>2. SubSeq(s, a + 1, b) \in Seq(Nat) /\ Len(SubSeq(s, a + 1, b)) = b - a
  BY <1>1
<1>3. ASSUME NEW i \in Nat, 1 =< i, i =< b - a
      PROVE  SubSeq(s, a + 1, b)[i] = s[a + i]
  <2>1. i \in 1 .. (b - (a + 1)) + 1
    BY <1>3
  <2>2. SubSeq(s, a + 1, b)[i] = s[(i + (a + 1)) - 1]
    BY <1>1, <2>1
  <2>3. (i + (a + 1)) - 1 = a + i
    OBVIOUS
  <2> QED BY <2>2, <2>3
<1> QED BY <1>2, <1>3

(* Two sequences of the same length that agree everywhere are the same.      *)
LEMMA SameBytes ==
  ASSUME NEW s \in Seq(Nat), NEW t \in Seq(Nat), Len(s) = Len(t),
         \A i \in Nat : 1 =< i /\ i =< Len(t) => s[i] = t[i]
  PROVE  s = t
OBVIOUS

(* A slice of s that t lies in is t.                                         *)
LEMMA PartIs ==
  ASSUME NEW s \in Seq(Nat), NEW t \in Seq(Nat), NEW k \in Nat,
         Holds(s, k, t), k + Len(t) =< Len(s)
  PROVE  SubSeq(s, k + 1, k + Len(t)) = t
<1> DEFINE u == SubSeq(s, k + 1, k + Len(t))
<1>1. Len(t) \in Nat /\ k + Len(t) \in Nat /\ k =< k + Len(t)
  OBVIOUS
<1>2. /\ u \in Seq(Nat)
      /\ Len(u) = (k + Len(t)) - k
      /\ \A i \in Nat : 1 =< i /\ i =< (k + Len(t)) - k => u[i] = s[k + i]
  BY <1>1, SubSeqIs, Zenon
<1> HIDE DEF u
<1>3. Len(u) = Len(t)
  BY <1>1, <1>2
<1>4. \A i \in Nat : 1 =< i /\ i =< Len(t) => u[i] = t[i]
  BY <1>1, <1>2 DEF Holds
<1>5. u = t
  BY <1>2, <1>3, <1>4, SameBytes
<1> QED BY <1>5 DEF u

(* What is left of t where s ends.                                           *)
LEMMA CutPartIs ==
  ASSUME NEW s \in Seq(Nat), NEW t \in Seq(Nat), NEW k \in Nat,
         Holds(s, k, t), k =< Len(s), Len(s) =< k + Len(t)
  PROVE  SubSeq(s, k + 1, Len(s)) = SubSeq(t, 1, Len(s) - k)
<1> DEFINE u == SubSeq(s, k + 1, Len(s))
           n == Len(s) - k
           v == SubSeq(t, 0 + 1, n)
<1>1. Len(t) \in Nat /\ Len(s) \in Nat /\ n \in Nat /\ n =< Len(t) /\ 0 =< n /\ n - 0 = n
  OBVIOUS
<1>2. /\ u \in Seq(Nat)
      /\ Len(u) = n
      /\ \A i \in Nat : 1 =< i /\ i =< n => u[i] = s[k + i]
  <2>1. Len(s) =< Len(s)
    BY <1>1
  <2> QED BY <1>1, <2>1, SubSeqIs, Zenon
<1>3. /\ v \in Seq(Nat)
      /\ Len(v) = n
      /\ \A i \in Nat : 1 =< i /\ i =< n => v[i] = t[0 + i]
  <2>1. /\ v \in Seq(Nat)
        /\ Len(v) = n - 0
        /\ \A i \in Nat : 1 =< i /\ i =< n - 0 => v[i] = t[0 + i]
    <3> HIDE DEF n
    <3> QED BY <1>1, SubSeqIs, Zenon
  <2> HIDE DEF v, n
  <2> QED BY <1>1, <2>1
<1>4. n = Len(s) - k
  OBVIOUS
<1> HIDE DEF u, v, n
<1>5. ASSUME NEW i \in Nat, 1 =< i, i =< Len(v)
      PROVE  u[i] = v[i]
  <2>1. i =< n /\ i =< Len(t) /\ k + i =< Len(s)
    BY <1>1, <1>3, <1>4, <1>5
  <2>2. s[k + i] = t[i]
    BY <1>5, <2>1 DEF Holds
  <2>3. 0 + i = i
    OBVIOUS
  <2>4. u[i] = s[k + i] /\ v[i] = t[0 + i]
    BY <1>2, <1>3, <1>5, <2>1, Zenon
  <2> QED BY <2>2, <2>3, <2>4
<1>6. u = v
  BY <1>2, <1>3, <1>5, SameBytes
<1> QED BY <1>6 DEF u, v, n

(* A cut leaves everything where it lies, as far as the bytes reach.         *)
LEMMA HoldsCut ==
  ASSUME NEW s \in Seq(Nat), NEW n \in Nat, n =< Len(s)
  PROVE  /\ SubSeq(s, 1, n) \in Seq(Nat)
         /\ Len(SubSeq(s, 1, n)) = n
         /\ \A k \in Nat : \A t : Holds(s, k, t) => Holds(SubSeq(s, 1, n), k, t)
<1> DEFINE u == SubSeq(s, 0 + 1, n)
<1>1. /\ u \in Seq(Nat)
      /\ Len(u) = n - 0
      /\ \A i \in Nat : 1 =< i /\ i =< n - 0 => u[i] = s[0 + i]
  <2>1. 0 =< n /\ 0 \in Nat
    OBVIOUS
  <2> QED BY <2>1, SubSeqIs, Zenon
<1> HIDE DEF u
<1>2. Len(u) = n /\ \A i \in Nat : 1 =< i /\ i =< n => u[i] = s[i]
  BY <1>1
<1>3. ASSUME NEW k \in Nat, NEW t, Holds(s, k, t)
      PROVE  Holds(u, k, t)
  <2> SUFFICES ASSUME NEW i \in Nat, 1 =< i, i =< Len(t), k + i =< Len(u)
               PROVE  u[k + i] = t[i]
    BY DEF Holds
  <2>1. k + i \in Nat /\ 1 =< k + i /\ k + i =< n /\ k + i =< Len(s)
    BY <1>2
  <2>2. s[k + i] = t[i]
    BY <1>3, <2>1 DEF Holds
  <2> QED BY <1>2, <2>1, <2>2
<1> QED BY <1>1, <1>2, <1>3 DEF u

(* A word is two bytes.                                                      *)
LEMMA WordIs ==
  ASSUME NEW n \in Nat
  PROVE  Word(n) \in Seq(Nat) /\ Len(Word(n)) = 2
BY DEF Word

(* Reading the word at the place where one lies gives its value.             *)
LEMMA WordHeld ==
  ASSUME NEW n \in Nat, NEW s \in Seq(Nat), NEW k \in Nat, Holds(s, k, Word(n)),
         k + 2 =< Len(s)
  PROVE  WordAt(s, k) = n
<1>1. s[k + 1] = n \div 256 /\ s[k + 2] = n % 256
  <2>1. Len(Word(n)) = 2 /\ Word(n)[1] = n \div 256 /\ Word(n)[2] = n % 256
    BY DEF Word
  <2>2. k + 1 =< Len(s)
    OBVIOUS
  <2> QED BY <2>1, <2>2 DEF Holds
<1>2. n = (256 * (n \div 256)) + (n % 256)
  OBVIOUS
<1> QED BY <1>1, <1>2 DEF WordAt

(* Reading the byte at the place where one lies gives its value.             *)
LEMMA ByteHeld ==
  ASSUME NEW b \in Nat, NEW s \in Seq(Nat), NEW k \in Nat, Holds(s, k, <<b>>),
         k + 1 =< Len(s)
  PROVE  s[k + 1] = b
<1>1. Len(<<b>>) = 1 /\ <<b>>[1] = b
  OBVIOUS
<1> QED BY <1>1 DEF Holds

(* A byte of s gets another value.                                           *)
LEMMA ByteReplaced ==
  ASSUME NEW s \in Seq(Nat), NEW p \in Nat, 1 =< p, p =< Len(s), NEW v \in Nat
  PROVE  LET u == [s EXCEPT ![p] = v] IN
         /\ u \in Seq(Nat)
         /\ Len(u) = Len(s)
         /\ u[p] = v
         /\ \A i \in Nat : 1 =< i /\ i =< Len(s) /\ i # p => u[i] = s[i]
OBVIOUS

(* What lies beside a byte that gets another value still lies there.         *)
LEMMA Replaced ==
  ASSUME NEW s \in Seq(Nat), NEW p \in Nat, 1 =< p, p =< Len(s), NEW v \in Nat,
         NEW k \in Nat, NEW t \in Seq(Nat), Holds(s, k, t),
         p =< k \/ k + Len(t) < p
  PROVE  Holds([s EXCEPT ![p] = v], k, t)
<1> DEFINE u == [s EXCEPT ![p] = v]
<1>1. /\ u \in Seq(Nat)
      /\ Len(u) = Len(s)
      /\ \A i \in Nat : 1 =< i /\ i =< Len(s) /\ i # p => u[i] = s[i]
  BY ByteReplaced
<1> HIDE DEF u
<1> SUFFICES ASSUME NEW i \in Nat, 1 =< i, i =< Len(t), k + i =< Len(u)
             PROVE  u[k + i] = t[i]
  BY DEF Holds, u
<1>2. Len(t) \in Nat
  OBVIOUS
<1>3. k + i \in Nat /\ 1 =< k + i /\ k + i =< Len(s) /\ k + i # p
  BY <1>1, <1>2, SMTT(30)
<1>4. s[k + i] = t[i]
  BY <1>3 DEF Holds
<1> QED BY <1>1, <1>3, <1>4

(* Bytes are put into s behind the first l bytes.                            *)
Put(s, l, b) == SubSeq(s, 1, l) \o b \o SubSeq(s, l + 1, Len(s))

(* The bytes of s with b put behind the first l of them.                     *)
LEMMA PutIs ==
  ASSUME NEW s \in Seq(Nat), NEW b \in Seq(Nat), NEW l \in Nat, l =< Len(s)
  PROVE  /\ Put(s, l, b) \in Seq(Nat)
         /\ Len(Put(s, l, b)) = Len(s) + Len(b)
         /\ Holds(Put(s, l, b), l, b)
         /\ \A i \in Nat : 1 =< i /\ i =< l => Put(s, l, b)[i] = s[i]
         /\ \A i \in Nat : l < i /\ i =< Len(s) => Put(s, l, b)[i + Len(b)] = s[i]
<1> DEFINE x == SubSeq(s, 0 + 1, l)
           z == SubSeq(s, l + 1, Len(s))
           y == x \o b
           u == y \o z
<1>1. Len(s) \in Nat /\ Len(s) =< Len(s) /\ 0 \in Nat /\ 0 =< l /\ Len(b) \in Nat
  OBVIOUS
<1>2. /\ x \in Seq(Nat) /\ Len(x) = l - 0
      /\ \A i \in Nat : 1 =< i /\ i =< l - 0 => x[i] = s[0 + i]
  BY <1>1, SubSeqIs, ZenonT(40)
<1>3. /\ z \in Seq(Nat) /\ Len(z) = Len(s) - l
      /\ \A i \in Nat : 1 =< i /\ i =< Len(s) - l => z[i] = s[l + i]
  BY <1>1, SubSeqIs, ZenonT(40)
<1> HIDE DEF x, z
<1>4. Len(x) = l /\ \A i \in Nat : 1 =< i /\ i =< l => x[i] = s[i]
  BY <1>2
<1>5. /\ y \in Seq(Nat) /\ Len(y) = l + Len(b)
      /\ \A i \in 1 .. Len(x) : y[i] = x[i]
      /\ \A i \in 1 .. Len(b) : y[Len(x) + i] = b[i]
  BY <1>2, <1>4, Concatenation
<1> HIDE DEF y
<1>6. /\ u \in Seq(Nat) /\ Len(u) = Len(y) + Len(z)
      /\ \A i \in 1 .. Len(y) : u[i] = y[i]
      /\ \A i \in 1 .. Len(z) : u[Len(y) + i] = z[i]
  BY <1>3, <1>5, Concatenation
<1> HIDE DEF u
<1>7. Len(u) = Len(s) + Len(b)
  BY <1>1, <1>3, <1>5, <1>6
<1>8. Holds(u, l, b)
  <2> SUFFICES ASSUME NEW i \in Nat, 1 =< i, i =< Len(b)
               PROVE  u[l + i] = b[i]
    BY DEF Holds
  <2>1. i \in 1 .. Len(b) /\ l + i \in 1 .. Len(y)
    BY <1>1, <1>5
  <2> QED BY <1>4, <1>5, <1>6, <2>1
<1>9. ASSUME NEW i \in Nat, 1 =< i, i =< l
      PROVE  u[i] = s[i]
  <2>1. i \in 1 .. Len(x) /\ i \in 1 .. Len(y)
    BY <1>1, <1>4, <1>5, <1>9
  <2> QED BY <1>4, <1>5, <1>6, <1>9, <2>1
<1>10. ASSUME NEW i \in Nat, l < i, i =< Len(s)
       PROVE  u[i + Len(b)] = s[i]
  <2> DEFINE j == i - l
  <2>1. j \in Nat /\ 1 =< j /\ j =< Len(s) - l /\ l + j = i
        /\ j \in 1 .. Len(z) /\ Len(y) + j = i + Len(b)
    BY <1>1, <1>3, <1>5, <1>10
  <2> HIDE DEF j
  <2>2. u[Len(y) + j] = z[j] /\ z[j] = s[l + j]
    BY <1>3, <1>6, <2>1, Zenon
  <2> QED BY <2>1, <2>2, Zenon
<1>11. u = Put(s, l, b)
  <2>1. 0 + 1 = 1
    OBVIOUS
  <2> QED BY <2>1, Zenon DEF u, y, x, z, Put
<1> QED BY <1>6, <1>7, <1>8, <1>9, <1>10, <1>11, Zenon

(* What lies before the place where bytes are put stays.                     *)
LEMMA PutBehind ==
  ASSUME NEW s \in Seq(Nat), NEW b \in Seq(Nat), NEW l \in Nat, l =< Len(s),
         NEW k \in Nat, NEW t \in Seq(Nat), Holds(s, k, t), k + Len(t) =< l
  PROVE  Holds(Put(s, l, b), k, t)
<1> DEFINE u == Put(s, l, b)
<1>1. \A i \in Nat : 1 =< i /\ i =< l => u[i] = s[i]
  BY PutIs, ZenonT(40)
<1> HIDE DEF u
<1> SUFFICES ASSUME NEW i \in Nat, 1 =< i, i =< Len(t)
             PROVE  u[k + i] = t[i]
  BY DEF Holds, u
<1>2. Len(t) \in Nat
  OBVIOUS
<1>3. k + i \in Nat /\ 1 =< k + i /\ k + i =< l /\ k + i =< Len(s)
  BY <1>2
<1>4. s[k + i] = t[i]
  BY <1>3 DEF Holds
<1> QED BY <1>1, <1>3, <1>4

(* What lies behind the place where bytes are put moves by their number.     *)
LEMMA PutInFront ==
  ASSUME NEW s \in Seq(Nat), NEW b \in Seq(Nat), NEW l \in Nat, l =< Len(s),
         NEW k \in Nat, NEW t \in Seq(Nat), Holds(s, k, t), l =< k
  PROVE  Holds(Put(s, l, b), k + Len(b), t)
<1> DEFINE u == Put(s, l, b)
<1>1. /\ Len(u) = Len(s) + Len(b)
      /\ \A i \in Nat : l < i /\ i =< Len(s) => u[i + Len(b)] = s[i]
  BY PutIs, Zenon
<1> HIDE DEF u
<1> SUFFICES ASSUME NEW i \in Nat, 1 =< i, i =< Len(t), (k + Len(b)) + i =< Len(u)
             PROVE  u[(k + Len(b)) + i] = t[i]
  BY DEF Holds, u
<1>2. Len(t) \in Nat /\ Len(b) \in Nat /\ Len(s) \in Nat
  OBVIOUS
<1>3. k + i \in Nat /\ l < k + i /\ k + i =< Len(s) /\ (k + i) + Len(b) = (k + Len(b)) + i
  BY <1>1, <1>2
<1>4. s[k + i] = t[i]
  BY <1>3 DEF Holds
<1>5. u[(k + i) + Len(b)] = s[k + i]
  BY <1>1, <1>3, Zenon
<1> QED BY <1>3, <1>4, <1>5

----------------------------------------------------------------------------
(* flatten is the recursive function that FlattenSeq is defined by.          *)
Flatten(s, flatten) ==
  flatten = [i \in 1 .. Len(s) |-> IF i = 1 THEN s[i] ELSE flatten[i - 1] \o s[i]]

(* The recursion of FlattenSeq has a solution, so its CHOOSE is one.         *)
LEMMA FlattenExists ==
  ASSUME NEW s, Len(s) \in Nat
  PROVE  \E flatten : Flatten(s, flatten)
<1> DEFINE m == Len(s)
           Upto(k, g) ==
             g = [i \in 1 .. m |-> IF i > k THEN <<>>
                                   ELSE IF i = 1 THEN s[i] ELSE g[i - 1] \o s[i]]
           S == {k \in Nat : \E g : Upto(k, g)}
<1>0. m \in Nat
  OBVIOUS
<1> HIDE DEF m
<1>1. 0 \in S
  <2> DEFINE g == [i \in 1 .. m |-> <<>>]
  <2>1. \A i \in 1 .. m : i > 0
    OBVIOUS
  <2>2. Upto(0, g)
    BY <2>1
  <2> QED BY <2>2
<1>2. ASSUME NEW k \in Nat, k \in S PROVE k + 1 \in S
  <2>1. PICK g : Upto(k, g)
    BY <1>2
  <2> DEFINE h == [i \in 1 .. m |-> IF i > k + 1 THEN <<>>
                                    ELSE IF i = 1 THEN s[i] ELSE g[i - 1] \o s[i]]
  <2>2. ASSUME NEW i \in 1 .. m, i =< k PROVE h[i] = g[i]
    <3>1. ~(i > k) /\ ~(i > k + 1)
      BY <2>2
    <3>2. g[i] = IF i = 1 THEN s[i] ELSE g[i - 1] \o s[i]
      BY <2>1, <3>1, Zenon
    <3>3. h[i] = IF i = 1 THEN s[i] ELSE g[i - 1] \o s[i]
      BY <3>1, Zenon
    <3> QED BY <3>2, <3>3, Zenon
  <2>3. h = [i \in 1 .. m |-> IF i > k + 1 THEN <<>>
                              ELSE IF i = 1 THEN s[i] ELSE g[i - 1] \o s[i]]
    OBVIOUS
  <2> HIDE DEF h
  <2>4. ASSUME NEW i \in 1 .. m
        PROVE  (IF i > k + 1 THEN <<>> ELSE IF i = 1 THEN s[i] ELSE g[i - 1] \o s[i])
               = (IF i > k + 1 THEN <<>> ELSE IF i = 1 THEN s[i] ELSE h[i - 1] \o s[i])
    <3>1. CASE i > k + 1
      BY <3>1, Zenon
    <3>2. CASE i = 1
      BY <3>2, Zenon
    <3>3. CASE ~(i > k + 1) /\ i # 1
      <4>1. i - 1 \in 1 .. m /\ i - 1 =< k
        BY <1>0, <3>3
      <4>2. h[i - 1] = g[i - 1]
        BY <2>2, <4>1, Zenon
      <4> QED BY <4>2, Zenon
    <3> QED BY <3>1, <3>2, <3>3, Zenon
  <2>5. Upto(k + 1, h)
    <3>1. h = [i \in 1 .. m |-> IF i > k + 1 THEN <<>>
                                ELSE IF i = 1 THEN s[i] ELSE h[i - 1] \o s[i]]
      BY <2>3, <2>4, Zenon
    <3> QED BY <3>1, Zenon
  <2> HIDE DEF Upto
  <2>6. k + 1 \in Nat
    OBVIOUS
  <2> QED BY <2>5, <2>6
<1>3. \A k \in Nat : k \in S
  <2> HIDE DEF S
  <2> QED BY <1>1, <1>2, Induction
<1>4. \E flatten : Flatten(s, flatten)
  <2>1. PICK g : Upto(m, g)
    BY <1>0, <1>3
  <2>2. \A i \in 1 .. m : ~(i > m)
    BY <1>0
  <2>3. g = [i \in 1 .. m |-> IF i = 1 THEN s[i] ELSE g[i - 1] \o s[i]]
    BY <2>1, <2>2
  <2> QED BY <2>3 DEF Flatten, m
<1> QED BY <1>4

(* Where the parts of a flattened sequence begin.                            *)
Offsets(s, off) ==
  LET m == Len(s) IN
  /\ off \in [1 .. m + 1 -> Nat]
  /\ off[1] = 0
  /\ off[m + 1] = Len(FlattenSeq(s))
  /\ \A i \in 1 .. m :
       /\ off[i + 1] = off[i] + Len(s[i])
       /\ off[i + 1] =< Len(FlattenSeq(s))
       /\ Holds(FlattenSeq(s), off[i], s[i])

(* The sequences that FlattenSeq joins lie behind each other in the result.  *)
LEMMA Flattened ==
  ASSUME NEW m \in Nat, m # 0, NEW s \in [1 .. m -> Seq(Nat)]
  PROVE  /\ FlattenSeq(s) \in Seq(Nat)
         /\ \E off : Offsets(s, off)
<1>1. Len(s) = m
  OBVIOUS
<1> DEFINE g == CHOOSE g : Flatten(s, g)
<1>2. Flatten(s, g)
  <2>1. \E flatten : Flatten(s, flatten)
    BY <1>1, FlattenExists
  <2> QED BY <2>1, Zenon
<1>3. FlattenSeq(s) = g[m]
  BY <1>1, Zenon DEF FlattenSeq, Flatten
<1> HIDE DEF g
<1>4. \A i \in 1 .. m : g[i] = IF i = 1 THEN s[i] ELSE g[i - 1] \o s[i]
  BY <1>1, <1>2, Zenon DEF Flatten
<1> DEFINE off == [i \in 1 .. m + 1 |-> IF i = 1 THEN 0 ELSE Len(g[i - 1])]
           Good(k) ==
             /\ g[k] \in Seq(Nat)
             /\ off[k + 1] = Len(g[k])
             /\ \A i \in 1 .. k :
                  /\ off[i] \in Nat
                  /\ off[i + 1] = off[i] + Len(s[i])
                  /\ off[i + 1] =< Len(g[k])
                  /\ Holds(g[k], off[i], s[i])
           S == {k \in Nat : 1 =< k /\ k =< m => Good(k)}
<1>5. off[1] = 0 /\ \A k \in 1 .. m : off[k + 1] = Len(g[k])
  <2>1. 1 \in 1 .. m + 1
    OBVIOUS
  <2>2. ASSUME NEW k \in 1 .. m
        PROVE  k + 1 \in 1 .. m + 1 /\ k + 1 # 1 /\ (k + 1) - 1 = k
    OBVIOUS
  <2> QED BY <2>1, <2>2, Zenon
<1>6. \A i \in 1 .. m : s[i] \in Seq(Nat)
  OBVIOUS
<1>7. 0 \in S
  OBVIOUS
<1> HIDE DEF off
<1>8. ASSUME NEW k \in Nat, k \in S PROVE k + 1 \in S
  <2> SUFFICES ASSUME k + 1 =< m PROVE Good(k + 1)
    OBVIOUS
  <2>1. k + 1 \in 1 .. m
    OBVIOUS
  <2>2. off[(k + 1) + 1] = Len(g[k + 1])
    BY <1>5, <2>1
  <2>3. CASE k = 0
    <3>1. g[1] = s[1]
      BY <1>4, <2>1, <2>3
    <3>2. s[1] \in Seq(Nat)
      BY <1>6, <2>1, <2>3
    <3>3. off[2] = Len(s[1])
      BY <2>2, <2>3, <3>1
    <3>4. Holds(s[1], 0, s[1])
      BY DEF Holds
    <3>5. Good(1)
      <4>1. off[1 + 1] = Len(g[1])
        BY <3>1, <3>3
      <4>2. ASSUME NEW i \in 1 .. 1
            PROVE  /\ off[i] \in Nat
                   /\ off[i + 1] = off[i] + Len(s[i])
                   /\ off[i + 1] =< Len(g[1])
                   /\ Holds(g[1], off[i], s[i])
        <5>1. i = 1 /\ i + 1 = 2
          OBVIOUS
        <5>2. Len(s[1]) \in Nat
          BY <3>2
        <5> QED BY <1>5, <3>1, <3>3, <3>4, <5>1, <5>2
      <4> QED BY <3>1, <3>2, <4>1, <4>2
    <3> QED BY <2>3, <3>5
  <2>4. CASE k # 0
    <3>1. k \in 1 .. m /\ (k + 1) - 1 = k /\ k + 1 # 1
      BY <2>4
    <3>2. Good(k)
      BY <1>8, <3>1
    <3>3. g[k + 1] = g[k] \o s[k + 1]
      BY <1>4, <2>1, <3>1
    <3> DEFINE a == g[k]
               b == s[k + 1]
    <3>4. a \in Seq(Nat) /\ b \in Seq(Nat)
      BY <1>6, <2>1, <3>2
    <3> HIDE DEF a, b
    <3>5. a \o b \in Seq(Nat) /\ Len(a \o b) = Len(a) + Len(b) /\ Holds(a \o b, Len(a), b)
          /\ Len(a) \in Nat /\ Len(b) \in Nat
      BY <3>4, Joined
    <3>6. off[k + 1] = Len(a)
      BY <3>2 DEF a
    <3>7. ASSUME NEW i \in 1 .. k
          PROVE  /\ off[i] \in Nat
                 /\ off[i + 1] = off[i] + Len(s[i])
                 /\ off[i + 1] =< Len(a \o b)
                 /\ Holds(a \o b, off[i], s[i])
      <4>1. /\ off[i] \in Nat
            /\ off[i + 1] = off[i] + Len(s[i])
            /\ off[i + 1] =< Len(a)
            /\ Holds(a, off[i], s[i])
        BY <3>2 DEF a
      <4>2. s[i] \in Seq(Nat)
        <5>1. i \in 1 .. m
          BY <3>1
        <5> QED BY <1>6, <5>1, Zenon
      <4>3. Holds(a \o b, off[i], s[i])
        BY <3>4, <4>1, <4>2, HoldsInFront
      <4>4. Len(s[i]) \in Nat
        BY <4>2
      <4> QED BY <3>5, <4>1, <4>3, <4>4
    <3>8. /\ off[k + 1] \in Nat
          /\ off[(k + 1) + 1] = off[k + 1] + Len(s[k + 1])
          /\ off[(k + 1) + 1] =< Len(a \o b)
          /\ Holds(a \o b, off[k + 1], s[k + 1])
      <4>1. off[(k + 1) + 1] = Len(a \o b)
        BY <2>2, <3>3 DEF a, b
      <4>2. off[(k + 1) + 1] = off[k + 1] + Len(b)
        BY <3>5, <3>6, <4>1
      <4>3. off[(k + 1) + 1] =< Len(a \o b)
        BY <3>5, <4>1
      <4> QED BY <3>5, <3>6, <4>2, <4>3 DEF b
    <3>9. ASSUME NEW i \in 1 .. k + 1
          PROVE  /\ off[i] \in Nat
                 /\ off[i + 1] = off[i] + Len(s[i])
                 /\ off[i + 1] =< Len(a \o b)
                 /\ Holds(a \o b, off[i], s[i])
      <4>1. i \in 1 .. k \/ i = k + 1
        OBVIOUS
      <4> QED BY <3>7, <3>8, <4>1, Zenon
    <3> QED BY <2>2, <3>3, <3>5, <3>9 DEF a, b
  <2> QED BY <2>3, <2>4
<1>9. m \in S
  <2> HIDE DEF S
  <2> QED BY <1>7, <1>8, Induction
<1>10. Good(m)
  BY <1>9
<1>11. off \in [1 .. m + 1 -> Nat]
  <2>1. ASSUME NEW i \in 1 .. m + 1 PROVE off[i] \in Nat
    <3>1. CASE i = m + 1
      <4>1. Len(g[m]) \in Nat
        BY <1>10
      <4> QED BY <1>10, <3>1, <4>1
    <3>2. CASE i # m + 1
      <4>1. i \in 1 .. m
        BY <3>2
      <4> QED BY <1>10, <4>1, Zenon
    <3> QED BY <3>1, <3>2
  <2>2. off = [i \in 1 .. m + 1 |-> off[i]]
    BY DEF off
  <2> QED BY <2>1, <2>2, Zenon
<1>12. Offsets(s, off)
  <2> HIDE DEF Good
  <2>1. /\ off[m + 1] = Len(g[m])
        /\ \A i \in 1 .. m :
             /\ off[i + 1] = off[i] + Len(s[i])
             /\ off[i + 1] =< Len(g[m])
             /\ Holds(g[m], off[i], s[i])
    BY <1>10, Zenon DEF Good
  <2> QED BY <1>1, <1>3, <1>5, <1>11, <2>1, Zenon DEF Offsets
<1> QED BY <1>3, <1>10, <1>12, Zenon

----------------------------------------------------------------------------
(* The sum of the words.                                                     *)
Pick(s) == CHOOSE x \in s : TRUE

(* iter is the recursive function that FoldFunction is defined by.           *)
SumFold(seq, iter) ==
  iter = [s \in SUBSET DOMAIN seq |->
            IF s = {} THEN 0 ELSE seq[Pick(s)] + iter[s \ {Pick(s)}]]

(* The element that a fold takes next is one of the set.                     *)
LEMMA PickOfSet ==
  ASSUME NEW s, s # {}
  PROVE  Pick(s) \in s
BY Zenon DEF Pick

(* The recursion of the sum has a solution on the subsets of the domain.     *)
LEMMA SumFoldExists ==
  ASSUME NEW seq, NEW n \in Nat, DOMAIN seq = 1 .. n
  PROVE  \E iter : SumFold(seq, iter)
<1> DEFINE D == DOMAIN seq
           Upto(k, iter) ==
             iter = [s \in SUBSET D |->
                       IF Cardinality(s) > k THEN 0
                       ELSE IF s = {} THEN 0
                       ELSE seq[Pick(s)] + iter[s \ {Pick(s)}]]
           S == {k \in Nat : \E iter : Upto(k, iter)}
<1>1. \A s \in SUBSET D : IsFiniteSet(s) /\ Cardinality(s) \in Nat /\ Cardinality(s) =< n
  <2>1. IsFiniteSet(D) /\ Cardinality(D) = n
    BY FS_Interval
  <2> QED BY <2>1, FS_Subset, FS_CardinalityType
<1>2. \A s \in SUBSET D : s # {} => s \ {Pick(s)} \in SUBSET D /\ Cardinality(s \ {Pick(s)}) = Cardinality(s) - 1
  BY <1>1, PickOfSet, FS_RemoveElement
<1>3. 0 \in S
  <2> DEFINE iter == [s \in SUBSET D |-> 0]
  <2>1. \A s \in SUBSET D : s = {} \/ Cardinality(s) > 0
    BY <1>1, FS_EmptySet
  <2>2. Upto(0, iter)
    BY <2>1
  <2> QED BY <2>2
<1>4. ASSUME NEW k \in Nat, k \in S PROVE k + 1 \in S
  <2>1. PICK g : Upto(k, g)
    BY <1>4
  <2> DEFINE h == [s \in SUBSET D |->
                     IF Cardinality(s) > k + 1 THEN 0
                     ELSE IF s = {} THEN 0
                     ELSE seq[Pick(s)] + g[s \ {Pick(s)}]]
  <2>2. \A s \in SUBSET D : Cardinality(s) =< k => h[s] = g[s]
    <3> SUFFICES ASSUME NEW s \in SUBSET D, Cardinality(s) =< k
                 PROVE  h[s] = g[s]
      OBVIOUS
    <3>1. ~(Cardinality(s) > k) /\ ~(Cardinality(s) > k + 1)
      BY <1>1
    <3>2. g[s] = IF s = {} THEN 0 ELSE seq[Pick(s)] + g[s \ {Pick(s)}]
      BY <2>1, <3>1, Zenon
    <3>3. h[s] = IF s = {} THEN 0 ELSE seq[Pick(s)] + g[s \ {Pick(s)}]
      BY <3>1, Zenon
    <3> QED BY <3>2, <3>3, Zenon
  <2>3. \A s \in SUBSET D :
          s # {} /\ Cardinality(s) =< k + 1 => h[s \ {Pick(s)}] = g[s \ {Pick(s)}]
    <3> HIDE DEF h
    <3> SUFFICES ASSUME NEW s \in SUBSET D, s # {}, Cardinality(s) =< k + 1
                 PROVE  h[s \ {Pick(s)}] = g[s \ {Pick(s)}]
      OBVIOUS
    <3>1. Cardinality(s \ {Pick(s)}) =< k /\ s \ {Pick(s)} \in SUBSET D
      <4>1. /\ s \ {Pick(s)} \in SUBSET D
            /\ Cardinality(s \ {Pick(s)}) = Cardinality(s) - 1
        BY <1>2, Zenon
      <4>2. Cardinality(s) \in Nat
        BY <1>1, Zenon
      <4> HIDE DEF D
      <4> QED BY <4>1, <4>2
    <3> QED BY <2>2, <3>1
  <2>4. Upto(k + 1, h)
    <3>1. h = [s \in SUBSET D |->
                 IF Cardinality(s) > k + 1 THEN 0
                 ELSE IF s = {} THEN 0
                 ELSE seq[Pick(s)] + g[s \ {Pick(s)}]]
      OBVIOUS
    <3> HIDE DEF h
    <3>2. ASSUME NEW s \in SUBSET D
          PROVE  (IF Cardinality(s) > k + 1 THEN 0
                  ELSE IF s = {} THEN 0
                  ELSE seq[Pick(s)] + g[s \ {Pick(s)}])
                 = (IF Cardinality(s) > k + 1 THEN 0
                    ELSE IF s = {} THEN 0
                    ELSE seq[Pick(s)] + h[s \ {Pick(s)}])
      <4>1. CASE Cardinality(s) > k + 1
        BY <4>1, Zenon
      <4>2. CASE s = {}
        BY <4>2, Zenon
      <4>3. CASE ~(Cardinality(s) > k + 1) /\ s # {}
        <5>1. Cardinality(s) =< k + 1
          BY <1>1, <4>3
        <5>2. h[s \ {Pick(s)}] = g[s \ {Pick(s)}]
          BY <2>3, <4>3, <5>1
        <5> QED BY <5>2, Zenon
      <4> QED BY <4>1, <4>2, <4>3, Zenon
    <3>3. h = [s \in SUBSET D |->
                 IF Cardinality(s) > k + 1 THEN 0
                 ELSE IF s = {} THEN 0
                 ELSE seq[Pick(s)] + h[s \ {Pick(s)}]]
      <4> HIDE DEF D
      <4> QED BY <3>1, <3>2
    <3> HIDE DEF D
    <3> QED BY <3>3
  <2> HIDE DEF h, Upto
  <2>5. k + 1 \in Nat
    OBVIOUS
  <2> QED BY <2>4, <2>5
<1>5. n \in S
  <2> HIDE DEF S
  <2> QED BY <1>3, <1>4, Induction
<1>6. PICK iter : Upto(n, iter)
  BY <1>5
<1>7. \A s \in SUBSET D : ~(Cardinality(s) > n)
  BY <1>1
<1> QED BY <1>6, <1>7 DEF SumFold

Sum(f) == FoldFunction(+, 0, f)

(* FoldFunction sums by that solution.                                       *)
LEMMA SumUnfolds ==
  ASSUME NEW f, NEW k \in Nat, DOMAIN f = 1 .. k
  PROVE  \E iter : SumFold(f, iter) /\ Sum(f) = iter[1 .. k]
<1> DEFINE iter == CHOOSE iter : SumFold(f, iter)
<1>1. Sum(f) = iter[DOMAIN f]
  BY Zenon DEF Sum, FoldFunction, FoldFunctionOnSet, MapThenFoldSet, SumFold, Pick
<1>2. SumFold(f, iter)
  BY SumFoldExists
<1> HIDE DEF iter
<1> QED BY <1>1, <1>2

(* A word that is zero may be filled in afterwards.                          *)
LEMMA SumFilledIn ==
  ASSUME NEW k \in Nat, NEW f \in [1 .. k -> Nat], NEW g \in [1 .. k -> Nat],
         NEW j \in 1 .. k, f[j] = 0, \A i \in 1 .. k : i # j => f[i] = g[i]
  PROVE  /\ Sum(f) \in Nat
         /\ Sum(g) = Sum(f) + g[j]
<1> DEFINE D == 1 .. k
<1>1. PICK F : SumFold(f, F) /\ Sum(f) = F[D]
  BY SumUnfolds
<1>2. PICK G : SumFold(g, G) /\ Sum(g) = G[D]
  BY SumUnfolds
<1>3. IsFiniteSet(D) /\ Cardinality(D) = k
  BY FS_Interval
<1>4. \A s \in SUBSET D : IsFiniteSet(s) /\ Cardinality(s) \in Nat /\ Cardinality(s) =< k
  <2> HIDE DEF D
  <2> QED BY <1>3, FS_Subset, FS_CardinalityType
<1> DEFINE Differ(s) == G[s] = F[s] + (IF j \in s THEN g[j] ELSE 0)
           S == {n \in Nat : \A s \in SUBSET D :
                   Cardinality(s) = n => F[s] \in Nat /\ Differ(s)}
<1>5. \A s \in SUBSET D :
        /\ F[s] = IF s = {} THEN 0 ELSE f[Pick(s)] + F[s \ {Pick(s)}]
        /\ G[s] = IF s = {} THEN 0 ELSE g[Pick(s)] + G[s \ {Pick(s)}]
  BY <1>1, <1>2 DEF SumFold
<1>6. 0 \in S
  <2> SUFFICES ASSUME NEW s \in SUBSET D, Cardinality(s) = 0
               PROVE  F[s] \in Nat /\ Differ(s)
    OBVIOUS
  <2>1. s = {}
    BY <1>4, FS_EmptySet
  <2>2. F[s] = 0 /\ G[s] = 0
    BY <1>5, <2>1
  <2> QED BY <2>1, <2>2
<1>7. ASSUME NEW n \in Nat, n \in S PROVE n + 1 \in S
  <2> SUFFICES ASSUME NEW s \in SUBSET D, Cardinality(s) = n + 1
               PROVE  F[s] \in Nat /\ Differ(s)
    OBVIOUS
  <2>1. s # {}
    <3>1. Cardinality(s) # 0
      OBVIOUS
    <3> QED BY <3>1, FS_EmptySet, Zenon
  <2> DEFINE x == Pick(s)
             t == s \ {x}
  <2>2. x \in s /\ x \in D
    BY <2>1, PickOfSet
  <2>3. t \in SUBSET D /\ Cardinality(t) = n
    <3>1. \A x1 \in s : Cardinality(s \ {x1}) = Cardinality(s) - 1
      <4>1. IsFiniteSet(s)
        BY <1>4, Zenon
      <4> HIDE DEF D, x
      <4> QED BY <4>1, FS_RemoveElement
    <3>2. Cardinality(t) = Cardinality(s) - 1
      BY <2>2, <3>1, Zenon
    <3>3. t \in SUBSET D
      OBVIOUS
    <3> HIDE DEF t
    <3> QED BY <3>2, <3>3
  <2>4. F[t] \in Nat /\ Differ(t)
    BY <1>7, <2>3
  <2>5. F[s] = f[x] + F[t] /\ G[s] = g[x] + G[t]
    BY <1>5, <2>1
  <2>6. j \in t <=> j \in s /\ j # x
    OBVIOUS
  <2> HIDE DEF x, t
  <2>7. f[x] \in Nat /\ g[x] \in Nat /\ g[j] \in Nat /\ (x # j => f[x] = g[x])
    BY <2>2
  <2>8. CASE x = j
    BY <2>2, <2>4, <2>5, <2>6, <2>7, <2>8
  <2>9. CASE x # j
    BY <2>4, <2>5, <2>6, <2>7, <2>9
  <2> QED BY <2>8, <2>9
<1>8. k \in S
  <2> HIDE DEF S
  <2> QED BY <1>6, <1>7, Induction
<1>9. F[D] \in Nat /\ Differ(D)
  BY <1>3, <1>8
<1> QED BY <1>1, <1>2, <1>9

----------------------------------------------------------------------------
(* The carries.                                                              *)

Folded(n) == IF n = 0 THEN 0 ELSE 1 + ((n - 1) % AllOnes)

CarriedBy(carried) ==
  carried = [n \in Nat |->
               IF n =< AllOnes THEN n
               ELSE carried[(n % (AllOnes + 1)) + (n \div (AllOnes + 1))]]

Multiple(n) == n % AllOnes = 0

(* A number and its folded form leave the same remainder modulo 0xFFFF.      *)
LEMMA Folds ==
  ASSUME NEW n \in Nat
  PROVE  /\ Folded(n) \in Nat /\ Folded(n) =< AllOnes
         /\ Folded(n) = 0 <=> n = 0
         /\ Multiple(n - Folded(n))
<1>1. CASE n = 0
  BY <1>1 DEF Folded, AllOnes, Multiple
<1>2. CASE n # 0
  <2>1. PICK m \in Nat : m = n - 1
    BY <1>2
  <2> DEFINE q == m \div AllOnes
             r == m % AllOnes
  <2>2. q \in Nat /\ r \in Nat /\ r < AllOnes /\ m = (AllOnes * q) + r
    BY DEF AllOnes
  <2>3. Folded(n) = 1 + r
    BY <1>2, <2>1 DEF Folded
  <2> HIDE DEF q, r
  <2>4. n - Folded(n) = AllOnes * q
    BY <2>1, <2>2, <2>3 DEF AllOnes
  <2>5. (AllOnes * q) % AllOnes = 0
    BY <2>2 DEF AllOnes
  <2>6. Folded(n) \in Nat /\ Folded(n) =< AllOnes /\ Folded(n) # 0
    BY <2>2, <2>3 DEF AllOnes
  <2> QED BY <1>2, <2>4, <2>5, <2>6, Zenon DEF Multiple
<1> QED BY <1>1, <1>2

(* Only the folded form is a word, leaves that remainder, and is zero for    *)
(* zero alone.                                                               *)
LEMMA FoldedUnique ==
  ASSUME NEW n \in Nat, NEW f \in Nat, f =< AllOnes, Multiple(n - f),
         f = 0 <=> n = 0
  PROVE  f = Folded(n)
<1>1. Folded(n) \in Nat /\ Folded(n) =< AllOnes /\ Multiple(n - Folded(n))
      /\ (Folded(n) = 0 <=> n = 0)
  BY Folds
<1>2. PICK g \in Nat : g = Folded(n)
  BY <1>1
<1>3. (n - f) % AllOnes = 0 /\ (n - g) % AllOnes = 0
  BY <1>1, <1>2 DEF Multiple
<1>4. f = g
  BY <1>1, <1>2, <1>3 DEF AllOnes
<1> QED BY <1>2, <1>4

(* Folding the carry back in changes neither the remainder nor that the sum  *)
(* is not zero.                                                              *)
LEMMA FoldedStep ==
  ASSUME NEW n \in Nat, ~(n =< AllOnes),
         NEW m, m = (n % (AllOnes + 1)) + (n \div (AllOnes + 1))
  PROVE  m \in Nat /\ m < n /\ Folded(m) = Folded(n)
<1> DEFINE a == n \div (AllOnes + 1)
           b == n % (AllOnes + 1)
<1>1. a \in Nat /\ b \in Nat /\ n = ((AllOnes + 1) * a) + b /\ a >= 1
  BY DEF AllOnes
<1>2. m = b + a
  OBVIOUS
<1> HIDE DEF a, b
<1>3. m \in Nat /\ m < n /\ m # 0
  BY <1>1, <1>2 DEF AllOnes
<1>4. PICK f \in Nat : f = Folded(m)
  BY <1>3, Folds
<1>5. f =< AllOnes /\ f # 0 /\ (m - f) % AllOnes = 0
  BY <1>3, <1>4, Folds DEF Multiple
<1>6. (n - f) % AllOnes = 0
  BY <1>1, <1>2, <1>5 DEF AllOnes
<1>7. f = Folded(n)
  <2>1. n # 0
    BY <1>3
  <2> QED BY <1>5, <1>6, <2>1, FoldedUnique DEF Multiple
<1> QED BY <1>3, <1>4, <1>7

(* A word is its own folded form.                                            *)
LEMMA FoldedSmall ==
  ASSUME NEW n \in Nat, n =< AllOnes
  PROVE  Folded(n) = n
<1>1. (n - n) % AllOnes = 0
  BY DEF AllOnes
<1> QED BY <1>1, FoldedUnique DEF Multiple

(* The recursion that adds carries back has a solution: each turn makes the  *)
(* number smaller.                                                           *)
LEMMA CarriedExists == \E carried : CarriedBy(carried)
<1> DEFINE c == [n \in Nat |-> Folded(n)]
           Next1(n) == (n % (AllOnes + 1)) + (n \div (AllOnes + 1))
<1>1. ASSUME NEW n \in Nat
      PROVE  Folded(n) = IF n =< AllOnes THEN n ELSE c[Next1(n)]
  <2>1. CASE n =< AllOnes
    BY <2>1, FoldedSmall, Zenon
  <2>2. CASE ~(n =< AllOnes)
    <3>1. Next1(n) \in Nat /\ Folded(Next1(n)) = Folded(n)
      BY <2>2, FoldedStep, Zenon
    <3>2. c[Next1(n)] = Folded(Next1(n))
      BY <3>1, Zenon
    <3> QED BY <2>2, <3>1, <3>2, Zenon
  <2> QED BY <2>1, <2>2, Zenon
<1>2. c = [n \in Nat |-> IF n =< AllOnes THEN n ELSE c[Next1(n)]]
  <2>1. c = [n \in Nat |-> Folded(n)]
    BY Zenon
  <2> HIDE DEF c, Next1
  <2> QED BY <1>1, <2>1
<1> QED BY <1>2, Zenon DEF CarriedBy

(* Every solution of that recursion is the folded form.                      *)
LEMMA CarriedIsFolded ==
  ASSUME NEW carried, CarriedBy(carried), NEW n \in Nat
  PROVE  carried[n] = Folded(n)
<1> DEFINE T == {k \in Nat : carried[k] # Folded(k)}
           Next1(k) == (k % (AllOnes + 1)) + (k \div (AllOnes + 1))
<1>1. SUFFICES ASSUME T # {} PROVE FALSE
  BY Zenon
<1>2. PICK k \in T : \A m \in T : k =< m
  BY <1>1, LeastNumber
<1>3. k \in Nat /\ carried[k] # Folded(k)
  BY Zenon
<1>4. carried[k] = IF k =< AllOnes THEN k ELSE carried[Next1(k)]
  BY <1>3, Zenon DEF CarriedBy
<1>5. CASE k =< AllOnes
  BY <1>3, <1>4, <1>5, FoldedSmall, Zenon
<1>6. CASE ~(k =< AllOnes)
  <2> DEFINE m == Next1(k)
  <2>1. m \in Nat /\ m < k /\ Folded(m) = Folded(k)
    BY <1>3, <1>6, FoldedStep, Zenon
  <2>2. ~(k =< m)
    <3> HIDE DEF m
    <3> QED BY <1>3, <2>1
  <2>3. carried[m] = Folded(m)
    BY <1>2, <2>1, <2>2, Zenon
  <2> QED BY <1>3, <1>4, <1>6, <2>1, <2>3, Zenon
<1> QED BY <1>5, <1>6, Zenon

(* The complement of the folded sum, which brings the sum of all words to a  *)
(* multiple of 0xFFFF.                                                       *)
LEMMA ChecksumCompletes ==
  ASSUME NEW bytes, SumWords(bytes) \in Nat
  PROVE  /\ Checksum16(bytes) \in Nat /\ Checksum16(bytes) =< AllOnes
         /\ Multiple(SumWords(bytes) + Checksum16(bytes))
         /\ Checksum16(bytes) = 0 => Multiple(SumWords(bytes) + AllOnes)
<1> DEFINE carried == CHOOSE carried : CarriedBy(carried)
<1>1. CarriedBy(carried)
  BY CarriedExists, Zenon
<1>2. Checksum16(bytes) = AllOnes - carried[SumWords(bytes)]
  BY Zenon DEF Checksum16, CarriedBy
<1> HIDE DEF carried
<1> DEFINE n == SumWords(bytes)
           f == Folded(n)
<1>3. Checksum16(bytes) = AllOnes - f
  BY <1>1, <1>2, CarriedIsFolded, Zenon
<1>4. f \in Nat /\ f =< AllOnes /\ (n - f) % AllOnes = 0
  BY Folds DEF Multiple
<1> HIDE DEF f
<1>5. PICK c \in Nat : c = Checksum16(bytes)
  BY <1>3, <1>4 DEF AllOnes
<1>6. c = AllOnes - f
  BY <1>3, <1>5
<1> HIDE DEF n
<1>7. n \in Nat
  BY DEF n
<1>8. c =< AllOnes /\ (n + c) % AllOnes = 0 /\ (c = 0 => (n + AllOnes) % AllOnes = 0)
  BY <1>4, <1>6, <1>7 DEF AllOnes
<1> QED BY <1>5, <1>8, Zenon DEF Multiple, n

----------------------------------------------------------------------------
(* s and t differ at most in the word behind the first k bytes.              *)
Alike(s, t, k) ==
  /\ Len(s) = Len(t)
  /\ \A i \in Nat : 1 =< i /\ i =< Len(s) /\ i # k + 1 /\ i # k + 2 => s[i] = t[i]

(* Sequences alike but for a word are so when the same bytes are appended.   *)
LEMMA AlikeInFront ==
  ASSUME NEW s \in Seq(Nat), NEW t \in Seq(Nat), NEW k, Alike(s, t, k),
         NEW b \in Seq(Nat)
  PROVE  Alike(s \o b, t \o b, k)
<1> DEFINE x == s \o b
           y == t \o b
<1>1. /\ x \in Seq(Nat) /\ Len(x) = Len(s) + Len(b)
      /\ \A i \in 1 .. Len(s) : x[i] = s[i]
      /\ \A i \in 1 .. Len(b) : x[Len(s) + i] = b[i]
  BY Concatenation
<1>2. /\ y \in Seq(Nat) /\ Len(y) = Len(t) + Len(b)
      /\ \A i \in 1 .. Len(t) : y[i] = t[i]
      /\ \A i \in 1 .. Len(b) : y[Len(t) + i] = b[i]
  BY Concatenation
<1>3. Len(s) = Len(t) /\ Len(s) \in Nat /\ Len(b) \in Nat
  BY DEF Alike
<1> HIDE DEF x, y
<1> SUFFICES ASSUME NEW i \in Nat, 1 =< i, i =< Len(x), i # k + 1, i # k + 2
             PROVE  x[i] = y[i]
  BY <1>1, <1>2, <1>3 DEF Alike, x, y
<1>4. CASE i =< Len(s)
  <2>1. i \in 1 .. Len(s)
    BY <1>3, <1>4
  <2>2. s[i] = t[i]
    BY <1>4 DEF Alike
  <2> QED BY <1>1, <1>2, <1>3, <2>1, <2>2
<1>5. CASE i > Len(s)
  <2> DEFINE j == i - Len(s)
  <2>1. j \in 1 .. Len(b) /\ i = Len(s) + j
    BY <1>1, <1>3, <1>5
  <2> HIDE DEF j
  <2>2. x[Len(s) + j] = b[j] /\ y[Len(t) + j] = b[j]
    BY <1>1, <1>2, <2>1, Zenon
  <2> QED BY <1>3, <2>1, <2>2, Zenon
<1> QED BY <1>3, <1>4, <1>5

(* Sequences alike but for a word are so behind the same bytes.              *)
LEMMA AlikeBehind ==
  ASSUME NEW s \in Seq(Nat), NEW t \in Seq(Nat), NEW k \in Nat, Alike(s, t, k),
         NEW b \in Seq(Nat)
  PROVE  Alike(b \o s, b \o t, Len(b) + k)
<1> DEFINE x == b \o s
           y == b \o t
<1>1. /\ x \in Seq(Nat) /\ Len(x) = Len(b) + Len(s)
      /\ \A i \in 1 .. Len(b) : x[i] = b[i]
      /\ \A i \in 1 .. Len(s) : x[Len(b) + i] = s[i]
  BY Concatenation
<1>2. /\ y \in Seq(Nat) /\ Len(y) = Len(b) + Len(t)
      /\ \A i \in 1 .. Len(b) : y[i] = b[i]
      /\ \A i \in 1 .. Len(t) : y[Len(b) + i] = t[i]
  BY Concatenation
<1>3. Len(s) = Len(t) /\ Len(s) \in Nat /\ Len(b) \in Nat
  BY DEF Alike
<1> HIDE DEF x, y
<1> SUFFICES ASSUME NEW i \in Nat, 1 =< i, i =< Len(x),
                    i # (Len(b) + k) + 1, i # (Len(b) + k) + 2
             PROVE  x[i] = y[i]
  BY <1>1, <1>2, <1>3 DEF Alike, x, y
<1>4. CASE i =< Len(b)
  <2>1. i \in 1 .. Len(b)
    BY <1>3, <1>4
  <2> QED BY <1>1, <1>2, <2>1, Zenon
<1>5. CASE i > Len(b)
  <2> DEFINE j == i - Len(b)
  <2>1. j \in Nat /\ 1 =< j /\ j =< Len(s) /\ j # k + 1 /\ j # k + 2 /\ j \in 1 .. Len(s) /\ i = Len(b) + j
    BY <1>1, <1>3, <1>5
  <2> HIDE DEF j
  <2>2. s[j] = t[j]
    BY <2>1 DEF Alike
  <2>3. x[Len(b) + j] = s[j] /\ y[Len(b) + j] = t[j]
    BY <1>1, <1>2, <1>3, <2>1
  <2> QED BY <2>1, <2>2, <2>3
<1> QED BY <1>3, <1>4, <1>5

(* A field that is zero, and the field filled in.                            *)
LEMMA AlikeWord ==
  ASSUME NEW a \in Seq(Nat), NEW c \in Nat
  PROVE  /\ Alike(a \o Word(0), a \o Word(c), Len(a))
         /\ a \o Word(0) \in Seq(Nat) /\ a \o Word(c) \in Seq(Nat)
         /\ Holds(a \o Word(0), Len(a), Word(0)) /\ Holds(a \o Word(c), Len(a), Word(c))
         /\ Len(a \o Word(0)) = Len(a) + 2 /\ Len(a \o Word(c)) = Len(a) + 2
<1>1. /\ Word(0) \in Seq(Nat) /\ Len(Word(0)) = 2
      /\ Word(c) \in Seq(Nat) /\ Len(Word(c)) = 2
  BY WordIs
<1>2. Alike(Word(0), Word(c), 0)
  <2>1. \A i \in Nat : 1 =< i /\ i =< 2 => i = 0 + 1 \/ i = 0 + 2
    OBVIOUS
  <2> QED BY <1>1, <2>1, Zenon DEF Alike
<1>3. Alike(a \o Word(0), a \o Word(c), Len(a) + 0)
  BY <1>1, <1>2, AlikeBehind
<1>4. Len(a) + 0 = Len(a)
  OBVIOUS
<1> QED BY <1>1, <1>3, <1>4, Joined

(* An element of a sequence of numbers is a number.                          *)
LEMMA ByteIs ==
  ASSUME NEW s \in Seq(Nat), NEW i \in 1 .. Len(s)
  PROVE  s[i] \in Nat
OBVIOUS

(* t is s with c for a word that was zero: it sums to c more.                *)
SumsTo(s, t, c) ==
  /\ SumWords(s) \in Nat
  /\ SumWords(t) = SumWords(s) + c

(* The sum of the words is that without the word, and the word.              *)
LEMMA WordFilledIn ==
  ASSUME NEW s \in Seq(Nat), NEW t \in Seq(Nat), NEW h \in Nat, NEW c \in Nat,
         Alike(s, t, 2 * h), (2 * h) + 2 =< Len(s),
         Holds(s, 2 * h, Word(0)), Holds(t, 2 * h, Word(c))
  PROVE  SumsTo(s, t, c)
<1> DEFINE z == Zeros(Len(s) % 2)
           x == s \o z
           y == t \o z
<1>1. Len(s) = Len(t) /\ Len(s) \in Nat
  BY DEF Alike
<1>2. z \in Seq(Nat) /\ Len(z) = Len(s) % 2
  <2>1. PICK d \in Nat : d = Len(s) % 2
    BY <1>1
  <2>2. Zeros(d) \in Seq(Nat) /\ Len(Zeros(d)) = d
    BY DEF Zeros
  <2> QED BY <2>1, <2>2
<1> HIDE DEF z
<1>3. /\ x \in Seq(Nat) /\ Len(x) = Len(s) + Len(z)
      /\ y \in Seq(Nat) /\ Len(y) = Len(s) + Len(z)
  BY <1>1, <1>2, Joined
<1>4. Alike(x, y, 2 * h)
  BY <1>2, AlikeInFront
<1>5. Holds(x, 2 * h, Word(0)) /\ Holds(y, 2 * h, Word(c))
  <2>1. Word(0) \in Seq(Nat) /\ Len(Word(0)) = 2 /\ Word(c) \in Seq(Nat) /\ Len(Word(c)) = 2
    BY WordIs
  <2>2. 2 * h \in Nat
    OBVIOUS
  <2>3. (2 * h) + 2 =< Len(t)
    BY <1>1
  <2> DEFINE k == 2 * h
  <2> HIDE DEF k
  <2>4. k \in Nat /\ k + 2 =< Len(s) /\ k + 2 =< Len(t)
        /\ Holds(s, k, Word(0)) /\ Holds(t, k, Word(c))
    BY <2>2, <2>3 DEF k
  <2>5. Holds(x, k, Word(0)) /\ Holds(y, k, Word(c))
    BY <1>2, <2>1, <2>4, HoldsInFront
  <2> QED BY <2>5 DEF k
<1> DEFINE K == Len(x) \div 2
           f == [i \in 1 .. K |-> WordAt(x, 2 * (i - 1))]
           g == [i \in 1 .. K |-> WordAt(y, 2 * (i - 1))]
<1>6. SumWords(s) = Sum(f)
  BY Zenon DEF SumWords, Sum, z
<1>7. SumWords(t) = Sum(g)
  <2>1. Len(y) = Len(x) /\ Len(t) = Len(s)
    BY <1>1, <1>3
  <2>2. SumWords(t) = Sum([i \in 1 .. Len(y) \div 2 |-> WordAt(y, 2 * (i - 1))])
    BY <2>1, Zenon DEF SumWords, Sum, z
  <2> HIDE DEF x, y
  <2> QED BY <2>1, <2>2, Zenon
<1> HIDE DEF x, y
<1>8. K \in Nat /\ 2 * K = Len(x) /\ Len(x) \in Nat
  <2>1. PICK n \in Nat : n = Len(s)
    BY <1>1
  <2>2. Len(x) = n + (n % 2)
    BY <1>2, <1>3, <2>1
  <2>3. n + (n % 2) \in Nat /\ (n + (n % 2)) \div 2 \in Nat
        /\ 2 * ((n + (n % 2)) \div 2) = n + (n % 2)
    BY SMTT(30)
  <2> QED BY <2>2, <2>3
<1> HIDE DEF K
<1>9. ASSUME NEW i \in 1 .. K
      PROVE  /\ 2 * (i - 1) \in Nat
             /\ WordAt(x, 2 * (i - 1)) \in Nat
             /\ WordAt(y, 2 * (i - 1)) \in Nat
             /\ i # h + 1 => WordAt(x, 2 * (i - 1)) = WordAt(y, 2 * (i - 1))
  <2> DEFINE j == 2 * (i - 1)
  <2>1. j \in Nat /\ j + 2 =< Len(x) /\ (i # h + 1 => j # 2 * h /\ j + 1 # 2 * h /\ j # (2 * h) + 1)
    BY <1>8
  <2> HIDE DEF j
  <2>2. j + 1 \in Nat /\ j + 2 \in Nat /\ j + 1 \in 1 .. Len(x) /\ j + 2 \in 1 .. Len(x)
    BY <1>8, <2>1
  <2> DEFINE a == j + 1
             b == j + 2
  <2>3. x[a] \in Nat /\ x[b] \in Nat
    BY <1>3, <2>2, ByteIs, Zenon
  <2>4. y[a] \in Nat /\ y[b] \in Nat
    <3>1. Len(y) = Len(x)
      BY <1>3
    <3> QED BY <1>3, <2>2, <3>1, ByteIs, Zenon
  <2>5. i # h + 1 => x[a] = y[a] /\ x[b] = y[b]
    <3>1. /\ a \in Nat /\ 1 =< a /\ a =< Len(x)
          /\ b \in Nat /\ 1 =< b /\ b =< Len(x)
          /\ i # h + 1 => /\ a # (2 * h) + 1 /\ a # (2 * h) + 2
                          /\ b # (2 * h) + 1 /\ b # (2 * h) + 2
      BY <1>8, <2>1
    <3> HIDE DEF a, b
    <3> QED BY <1>4, <3>1, Zenon DEF Alike
  <2> HIDE DEF a, b
  <2>6. /\ WordAt(x, j) \in Nat /\ WordAt(y, j) \in Nat
        /\ i # h + 1 => WordAt(x, j) = WordAt(y, j)
    <3>1. WordAt(x, j) = (256 * x[a]) + x[b] /\ WordAt(y, j) = (256 * y[a]) + y[b]
      BY DEF WordAt, a, b
    <3>2. (256 * x[a]) + x[b] \in Nat /\ (256 * y[a]) + y[b] \in Nat
      <4>1. \A p \in Nat : \A q \in Nat : (256 * p) + q \in Nat
        OBVIOUS
      <4> HIDE DEF x, y, a, b
      <4> QED BY <2>3, <2>4, <4>1, ZenonT(40)
    <3> QED BY <2>5, <3>1, <3>2, Zenon
  <2> QED BY <2>1, <2>6 DEF j
<1>10. f \in [1 .. K -> Nat] /\ g \in [1 .. K -> Nat]
  BY <1>9
<1>11. h + 1 \in 1 .. K /\ 2 * ((h + 1) - 1) = 2 * h
  BY <1>1, <1>2, <1>3, <1>8
<1>12. f[h + 1] = 0 /\ g[h + 1] = c
  <2>1. WordAt(x, 2 * h) = 0 /\ WordAt(y, 2 * h) = c
    <3>1. 2 * h \in Nat /\ (2 * h) + 2 =< Len(x) /\ (2 * h) + 2 =< Len(y)
      BY <1>1, <1>2, <1>3
    <3> DEFINE k == 2 * h
    <3>2. k \in Nat /\ k + 2 =< Len(x) /\ k + 2 =< Len(y)
      BY <3>1
    <3>3. Holds(x, k, Word(0)) /\ Holds(y, k, Word(c))
      BY <1>5
    <3> HIDE DEF k
    <3>4. WordAt(x, k) = 0 /\ WordAt(y, k) = c
      BY <1>3, <3>2, <3>3, WordHeld
    <3> QED BY <3>4 DEF k
  <2> QED BY <1>11, <2>1
<1>13. \A i \in 1 .. K : i # h + 1 => f[i] = g[i]
  BY <1>9
<1> HIDE DEF f, g
<1>14. Sum(f) \in Nat /\ Sum(g) = Sum(f) + g[h + 1]
  BY <1>8, <1>10, <1>11, <1>12, <1>13, SumFilledIn, Zenon
<1>15. SumWords(s) \in Nat /\ SumWords(t) = SumWords(s) + c
  BY <1>6, <1>7, <1>12, <1>14
<1> QED BY <1>15, Zenon DEF SumsTo

----------------------------------------------------------------------------
(* Three parts lie behind each other.                                        *)
LEMMA Joined3 ==
  ASSUME NEW a \in Seq(Nat), NEW b \in Seq(Nat), NEW c \in Seq(Nat)
  PROVE  LET s == a \o b \o c IN
         /\ s \in Seq(Nat)
         /\ Len(s) = Len(a) + Len(b) + Len(c)
         /\ Holds(s, 0, a)
         /\ Holds(s, Len(a), b)
         /\ Holds(s, Len(a) + Len(b), c)
<1> DEFINE t == a \o b
           s == t \o c
<1>1. /\ t \in Seq(Nat) /\ Len(t) = Len(a) + Len(b)
      /\ Holds(t, 0, a) /\ Holds(t, Len(a), b)
  BY Joined
<1> HIDE DEF t
<1>2. /\ s \in Seq(Nat) /\ Len(s) = Len(t) + Len(c)
      /\ Holds(s, Len(t), c)
  BY <1>1, Joined
<1>3. Len(a) \in Nat /\ Len(b) \in Nat /\ Len(c) \in Nat /\ 0 + Len(a) =< Len(t) /\ Len(a) + Len(b) =< Len(t)
  BY <1>1
<1>4. Holds(s, 0, a)
  BY <1>1, <1>3, HoldsInFront
<1>5. Holds(s, Len(a), b)
  BY <1>1, <1>3, HoldsInFront
<1> QED BY <1>1, <1>2, <1>3, <1>4, <1>5 DEF t

(* Five parts lie behind each other.                                         *)
LEMMA Joined5 ==
  ASSUME NEW a \in Seq(Nat), NEW b \in Seq(Nat), NEW c \in Seq(Nat),
         NEW d \in Seq(Nat), NEW e \in Seq(Nat)
  PROVE  LET s == a \o b \o c \o d \o e IN
         /\ s \in Seq(Nat)
         /\ Len(s) = Len(a) + Len(b) + Len(c) + Len(d) + Len(e)
         /\ Holds(s, 0, a)
         /\ Holds(s, Len(a), b)
         /\ Holds(s, Len(a) + Len(b), c)
         /\ Holds(s, Len(a) + Len(b) + Len(c), d)
         /\ Holds(s, Len(a) + Len(b) + Len(c) + Len(d), e)
<1> DEFINE t == a \o b \o c
           s == t \o d \o e
<1>1. /\ t \in Seq(Nat) /\ Len(t) = Len(a) + Len(b) + Len(c)
      /\ Holds(t, 0, a) /\ Holds(t, Len(a), b) /\ Holds(t, Len(a) + Len(b), c)
  BY Joined3, ZenonT(40)
<1> HIDE DEF t
<1>2. /\ s \in Seq(Nat) /\ Len(s) = Len(t) + Len(d) + Len(e)
      /\ Holds(s, 0, t) /\ Holds(s, Len(t), d) /\ Holds(s, Len(t) + Len(d), e)
  BY <1>1, Joined3, ZenonT(40)
<1> HIDE DEF s
<1>3. /\ Len(a) \in Nat /\ Len(b) \in Nat /\ Len(c) \in Nat /\ Len(d) \in Nat
      /\ Len(e) \in Nat
  OBVIOUS
<1>4. Holds(s, 0 + 0, a)
  <2>1. 0 + Len(a) =< Len(t)
    BY <1>1, <1>3
  <2> QED BY <1>1, <1>2, <2>1, HoldsPart
<1>5. Holds(s, 0 + Len(a), b)
  <2>1. Len(a) + Len(b) =< Len(t)
    BY <1>1, <1>3
  <2> QED BY <1>1, <1>2, <1>3, <2>1, HoldsPart
<1>6. Holds(s, 0 + (Len(a) + Len(b)), c)
  <2>1. (Len(a) + Len(b)) + Len(c) =< Len(t) /\ Len(a) + Len(b) \in Nat
    BY <1>1, <1>3
  <2> QED BY <1>1, <1>2, <2>1, HoldsPart
<1>7. 0 + 0 = 0 /\ 0 + Len(a) = Len(a) /\ 0 + (Len(a) + Len(b)) = Len(a) + Len(b)
  BY <1>3
<1>8. Holds(s, 0, a) /\ Holds(s, Len(a), b) /\ Holds(s, Len(a) + Len(b), c)
  BY <1>4, <1>5, <1>6, <1>7, Zenon
<1>9. Len(s) = Len(a) + Len(b) + Len(c) + Len(d) + Len(e)
  BY <1>1, <1>2, <1>3
<1> QED BY <1>1, <1>2, <1>8, <1>9, Zenon DEF s, t

----------------------------------------------------------------------------
(* What is asked for.                                                        *)
V4(r) == Version(r.src) = 4

N(r) == Len(r.payload)

AddressLength(r) == IF V4(r) THEN 4 ELSE 16

Accepted(r) == r \in Request /\ Valid(r)

(* A function to bytes is a sequence of numbers.                             *)
LEMMA BytesOf ==
  ASSUME NEW n \in Nat, NEW a \in [1 .. n -> Byte]
  PROVE  a \in Seq(Nat) /\ Len(a) = n
<1>1. Byte \subseteq Nat
  BY DEF Byte
<1> HIDE DEF Byte
<1>2. \A i \in 1 .. n : a[i] \in Nat
  BY <1>1
<1>3. a \in [1 .. n -> Nat]
  BY <1>2
<1> QED BY <1>3

(* A sequence of bytes is one of numbers.                                    *)
LEMMA SeqOfBytes ==
  ASSUME NEW s \in Seq(Byte)
  PROVE  s \in Seq(Nat)
<1>1. s \in [1 .. Len(s) -> Byte] /\ Len(s) \in Nat
  OBVIOUS
<1> QED BY <1>1, BytesOf

(* An address is four bytes for version 4, else sixteen.                     *)
LEMMA AddressIs ==
  ASSUME NEW a \in Address
  PROVE  a \in Seq(Nat) /\ Len(a) = (IF Version(a) = 4 THEN 4 ELSE 16)
<1>1. CASE a \in [1 .. 4 -> Byte]
  <2>1. a \in Seq(Nat) /\ Len(a) = 4
    BY <1>1, BytesOf
  <2> QED BY <2>1 DEF Version
<1>2. CASE a \in [1 .. 16 -> Byte]
  <2>1. a \in Seq(Nat) /\ Len(a) = 16
    BY <1>2, BytesOf
  <2> QED BY <2>1 DEF Version
<1> QED BY <1>1, <1>2, Zenon DEF Address

(* What the checks of encapsulate_udp establish about a request.             *)
LEMMA RequestIs ==
  ASSUME NEW r, Accepted(r)
  PROVE  /\ r.src \in Seq(Nat) /\ Len(r.src) = AddressLength(r)
         /\ r.dst \in Seq(Nat) /\ Len(r.dst) = AddressLength(r)
         /\ r.src_port \in Nat /\ r.dst_port \in Nat
         /\ r.payload \in Seq(Nat) /\ N(r) \in Nat
         /\ r.link \in {EN10MB, LINUX_SLL, RAW}
         /\ V4(r) => 28 + N(r) =< LengthMax
         /\ ~V4(r) => 8 + N(r) =< LengthMax
<1>1. r \in [link: Int, src: Address \cup {None}, dst: Address \cup {None},
             src_port: Int, dst_port: Int, payload: Seq(Byte)]
  BY UdpFrameAssumption, Zenon DEF Accepted
<1>2. /\ r.src \in Address \cup {None} /\ r.dst \in Address \cup {None}
      /\ r.src_port \in Int /\ r.dst_port \in Int
      /\ r.payload \in Seq(Byte)
  BY <1>1
<1>3. /\ None \notin {r.src, r.dst}
      /\ Version(r.src) = Version(r.dst)
      /\ \A port \in {r.src_port, r.dst_port} : 0 =< port /\ port =< AllOnes
      /\ Len(r.payload) =< MaxPayload(Version(r.src))
      /\ r.link \in {EN10MB, LINUX_SLL, RAW}
  BY Zenon DEF Accepted, Valid
<1>4. r.src \in Address /\ r.dst \in Address
  BY <1>2, <1>3
<1>5. r.src_port \in Nat /\ r.dst_port \in Nat
  BY <1>2, <1>3
<1>6. r.payload \in Seq(Nat)
  BY <1>2, SeqOfBytes
<1>7. N(r) \in Nat
  BY <1>6 DEF N
<1>8. /\ r.src \in Seq(Nat) /\ Len(r.src) = AddressLength(r)
      /\ r.dst \in Seq(Nat) /\ Len(r.dst) = AddressLength(r)
  BY <1>3, <1>4, AddressIs, Zenon DEF AddressLength, V4
<1>9. /\ V4(r) => 28 + N(r) =< LengthMax
      /\ ~V4(r) => 8 + N(r) =< LengthMax
  <2>1. LengthMax \in Nat
    BY UdpFrameAssumption
  <2>2. N(r) =< MaxPayload(Version(r.src))
    BY <1>3 DEF N
  <2> QED BY <1>7, <2>1, <2>2 DEF MaxPayload, V4
<1> QED BY <1>3, <1>5, <1>6, <1>7, <1>8, <1>9, Zenon

----------------------------------------------------------------------------
(* The datagram.                                                             *)
Segment(r, checksum) ==
  Word(r.src_port) \o Word(r.dst_port) \o Word(8 + Len(r.payload))
    \o Word(checksum) \o r.payload

(* The fields of a datagram.                                                 *)
LEMMA SegmentIs ==
  ASSUME NEW r, Accepted(r), NEW c \in Nat
  PROVE  LET s == Segment(r, c) IN
         /\ s \in Seq(Nat)
         /\ Len(s) = 8 + N(r)
         /\ Holds(s, 0, Word(r.src_port))
         /\ Holds(s, 2, Word(r.dst_port))
         /\ Holds(s, 4, Word(8 + N(r)))
         /\ Holds(s, 6, Word(c))
         /\ Holds(s, 8, r.payload)
<1>1. /\ r.src_port \in Nat /\ r.dst_port \in Nat
      /\ r.payload \in Seq(Nat) /\ N(r) \in Nat
  BY RequestIs
<1>2. 8 + N(r) \in Nat /\ N(r) = Len(r.payload)
  BY <1>1 DEF N
<1> DEFINE a == Word(r.src_port)
           b == Word(r.dst_port)
           l == Word(8 + N(r))
           d == Word(c)
           e == r.payload
           s == a \o b \o l \o d \o e
<1>3. /\ a \in Seq(Nat) /\ Len(a) = 2 /\ b \in Seq(Nat) /\ Len(b) = 2
      /\ l \in Seq(Nat) /\ Len(l) = 2 /\ d \in Seq(Nat) /\ Len(d) = 2
  BY <1>1, <1>2, WordIs, Zenon
<1>4. e \in Seq(Nat) /\ Len(e) = N(r)
  BY <1>1, <1>2
<1>5. s = Segment(r, c)
  BY <1>2, Zenon DEF Segment
<1> HIDE DEF a, b, l, d, e
<1>6. /\ s \in Seq(Nat)
      /\ Len(s) = Len(a) + Len(b) + Len(l) + Len(d) + Len(e)
      /\ Holds(s, 0, a)
      /\ Holds(s, Len(a), b)
      /\ Holds(s, Len(a) + Len(b), l)
      /\ Holds(s, Len(a) + Len(b) + Len(l), d)
      /\ Holds(s, Len(a) + Len(b) + Len(l) + Len(d), e)
  BY <1>3, <1>4, Joined5, ZenonT(40)
<1> HIDE DEF s
<1>7. /\ Len(s) = 8 + N(r)
      /\ Holds(s, 2, b) /\ Holds(s, 4, l) /\ Holds(s, 6, d) /\ Holds(s, 8, e)
  <2>1. Len(a) + Len(b) + Len(l) + Len(d) + Len(e) = 8 + N(r)
    BY <1>1, <1>3, <1>4
  <2>2. Len(a) + Len(b) = 4 /\ Len(a) + Len(b) + Len(l) = 6
        /\ Len(a) + Len(b) + Len(l) + Len(d) = 8
    BY <1>3
  <2> QED BY <1>3, <1>6, <2>1, <2>2, Zenon
<1> QED BY <1>5, <1>6, <1>7 DEF a, b, l, d, e

(* A pseudo-header is whole words, so that the datagram behind it begins     *)
(* with one.                                                                 *)
LEMMA PseudoHeaderIs ==
  ASSUME NEW r, Accepted(r), NEW n \in Nat
  PROVE  LET p == PseudoHeader(r, n) IN
         /\ p \in Seq(Nat)
         /\ \E h \in Nat : Len(p) = 2 * h
<1>1. /\ r.src \in Seq(Nat) /\ Len(r.src) = AddressLength(r)
      /\ r.dst \in Seq(Nat) /\ Len(r.dst) = AddressLength(r)
  BY RequestIs
<1>2. Word(n) \in Seq(Nat) /\ Len(Word(n)) = 2
  BY WordIs
<1>3. CASE V4(r)
  <2> DEFINE z == <<0, UDP>>
             a == r.src \o r.dst \o z
             p == a \o Word(n)
  <2>1. z \in Seq(Nat) /\ Len(z) = 2
    BY DEF UDP
  <2>2. p = PseudoHeader(r, n)
    BY <1>3, Zenon DEF PseudoHeader, V4
  <2> HIDE DEF z
  <2>3. a \in Seq(Nat) /\ Len(a) = Len(r.src) + Len(r.dst) + Len(z)
    BY <1>1, <2>1, Joined3, Zenon
  <2> HIDE DEF a
  <2>4. p \in Seq(Nat) /\ Len(p) = Len(a) + Len(Word(n))
    BY <1>2, <2>3, Joined, Zenon
  <2> HIDE DEF p
  <2>5. Len(p) = 2 * 6
    BY <1>1, <1>2, <1>3, <2>1, <2>3, <2>4 DEF AddressLength
  <2>6. 6 \in Nat
    OBVIOUS
  <2> QED BY <2>2, <2>4, <2>5, <2>6, Zenon
<1>4. CASE ~V4(r)
  <2> DEFINE z == <<0, 0>>
             y == <<0, 0, 0, UDP>>
             w == Word(n)
             a == r.src
             b == r.dst
             p == a \o b \o z \o w \o y
  <2>1. z \in Seq(Nat) /\ Len(z) = 2 /\ y \in Seq(Nat) /\ Len(y) = 4
    BY DEF UDP
  <2>2. p = PseudoHeader(r, n)
    BY <1>4, Zenon DEF PseudoHeader, V4
  <2>6. w \in Seq(Nat) /\ Len(w) = 2
    BY <1>2
  <2>7. a \in Seq(Nat) /\ Len(a) = 16 /\ b \in Seq(Nat) /\ Len(b) = 16
    BY <1>1, <1>4 DEF AddressLength
  <2> HIDE DEF z, y, w, a, b
  <2>3. /\ p \in Seq(Nat)
        /\ Len(p) = Len(a) + Len(b) + Len(z) + Len(w) + Len(y)
        /\ Holds(p, 0, a)
        /\ Holds(p, Len(a), b)
        /\ Holds(p, Len(a) + Len(b), z)
        /\ Holds(p, Len(a) + Len(b) + Len(z), w)
        /\ Holds(p, Len(a) + Len(b) + Len(z) + Len(w), y)
    BY <2>1, <2>6, <2>7, Joined5, ZenonT(40)
  <2> HIDE DEF p
  <2>4. Len(p) = 2 * 20
    BY <2>1, <2>3, <2>6, <2>7
  <2>5. 20 \in Nat
    OBVIOUS
  <2> QED BY <2>2, <2>3, <2>4, <2>5, Zenon
<1> QED BY <1>3, <1>4

(* Filling in the checksum changes no other byte of the datagram.            *)
LEMMA SegmentsAlike ==
  ASSUME NEW r, Accepted(r), NEW c \in Nat
  PROVE  Alike(Segment(r, 0), Segment(r, c), 6)
<1>1. /\ r.src_port \in Nat /\ r.dst_port \in Nat
      /\ r.payload \in Seq(Nat) /\ 8 + Len(r.payload) \in Nat
  BY RequestIs
<1> DEFINE u == Word(r.src_port)
           v == Word(r.dst_port)
           w == Word(8 + Len(r.payload))
           a == u \o v \o w
<1>2. /\ u \in Seq(Nat) /\ Len(u) = 2
      /\ v \in Seq(Nat) /\ Len(v) = 2
      /\ w \in Seq(Nat) /\ Len(w) = 2
  BY <1>1, WordIs, Zenon
<1>3. a \in Seq(Nat) /\ Len(a) = 6
  <2> HIDE DEF u, v, w
  <2>1. a \in Seq(Nat) /\ Len(a) = Len(u) + Len(v) + Len(w)
    BY <1>2, Joined3, Zenon
  <2> HIDE DEF a
  <2> QED BY <1>2, <2>1
<1>4. /\ Segment(r, 0) = (a \o Word(0)) \o r.payload
      /\ Segment(r, c) = (a \o Word(c)) \o r.payload
  BY Zenon DEF Segment
<1> HIDE DEF a
<1>5. /\ Alike(a \o Word(0), a \o Word(c), 6)
      /\ a \o Word(0) \in Seq(Nat) /\ a \o Word(c) \in Seq(Nat)
  BY <1>3, AlikeWord
<1> DEFINE x == a \o Word(0)
           y == a \o Word(c)
<1>6. x \in Seq(Nat) /\ y \in Seq(Nat) /\ Alike(x, y, 6)
  BY <1>5
<1> HIDE DEF x, y
<1>7. Alike(x \o r.payload, y \o r.payload, 6)
  BY <1>1, <1>6, AlikeInFront
<1> QED BY <1>4, <1>7 DEF x, y

(* Whoever sums up the datagram and the pseudo-header gets all-ones, and the *)
(* checksum is never zero, which stands for "no checksum".                   *)
LEMMA UdpSegmentIs ==
  ASSUME NEW r, Accepted(r)
  PROVE  LET s == UdpSegment(r) IN
         /\ \E c \in Nat : s = Segment(r, c)
         /\ WordAt(s, 6) # 0
         /\ Multiple(SumWords(PseudoHeader(r, Len(s)) \o s))
<1> DEFINE o == Segment(r, 0)
           c == UdpChecksum(r, o)
           s == Segment(r, c)
           p == PseudoHeader(r, 8 + N(r))
           k == Checksum16(p \o o)
<1>1. UdpSegment(r) = s
  BY Zenon DEF UdpSegment, Segment
<1>2. o \in Seq(Nat) /\ Len(o) = 8 + N(r) /\ Holds(o, 6, Word(0)) /\ N(r) \in Nat
  BY SegmentIs, RequestIs
<1>3. c = IF k = 0 THEN AllOnes ELSE k
  BY <1>2, Zenon DEF UdpChecksum
<1> HIDE DEF o
<1>4. p \in Seq(Nat) /\ 8 + N(r) \in Nat
  BY <1>2, PseudoHeaderIs
<1>5. PICK h \in Nat : Len(p) = 2 * h
  BY <1>4, PseudoHeaderIs
<1> HIDE DEF p
<1>6. (2 * h) + 6 = 2 * (h + 3) /\ h + 3 \in Nat
  OBVIOUS
<1>7. ASSUME NEW d \in Nat
      PROVE  /\ SumWords(p \o o) \in Nat
             /\ SumWords(p \o Segment(r, d)) = SumWords(p \o o) + d
  <2> DEFINE t == Segment(r, d)
             x == p \o o
             y == p \o t
  <2>1. t \in Seq(Nat) /\ Holds(t, 6, Word(d)) /\ Len(t) = 8 + N(r)
    BY SegmentIs
  <2>2. Alike(o, t, 6)
    BY SegmentsAlike DEF o
  <2> HIDE DEF t
  <2>3. Alike(x, y, Len(p) + 6)
    BY <1>2, <1>4, <2>1, <2>2, AlikeBehind
  <2>4. Word(0) \in Seq(Nat) /\ Len(Word(0)) = 2 /\ Word(d) \in Seq(Nat) /\ Len(Word(d)) = 2
    BY WordIs
  <2>5. 6 + 2 =< Len(o) /\ 6 + 2 =< Len(t)
    BY <1>2, <2>1
  <2>6. Holds(x, Len(p) + 6, Word(0)) /\ Holds(y, Len(p) + 6, Word(d))
    BY <1>2, <1>4, <2>1, <2>4, <2>5, HoldsBehind
  <2>7. x \in Seq(Nat) /\ y \in Seq(Nat) /\ Len(x) = Len(p) + Len(o)
    BY <1>2, <1>4, <2>1, Joined
  <2> HIDE DEF x, y
  <2>8. Len(p) + 6 = 2 * (h + 3) /\ (2 * (h + 3)) + 2 =< Len(x)
    BY <1>2, <1>5, <2>7
  <2> DEFINE j == h + 3
  <2>9. /\ j \in Nat /\ (2 * j) + 2 =< Len(x) /\ Alike(x, y, 2 * j)
        /\ Holds(x, 2 * j, Word(0)) /\ Holds(y, 2 * j, Word(d))
    BY <1>6, <2>3, <2>6, <2>8
  <2> HIDE DEF j
  <2>10. SumWords(x) \in Nat /\ SumWords(y) = SumWords(x) + d
    <3>1. SumsTo(x, y, d)
      BY <2>7, <2>9, WordFilledIn, Zenon
    <3> QED BY <3>1, Zenon DEF SumsTo
  <2> QED BY <2>10 DEF x, y, t
<1>8. SumWords(p \o o) \in Nat
  <2>1. 0 \in Nat
    OBVIOUS
  <2> QED BY <1>7, <2>1, Zenon
<1>9. /\ k \in Nat /\ k =< AllOnes
      /\ Multiple(SumWords(p \o o) + k)
      /\ k = 0 => Multiple(SumWords(p \o o) + AllOnes)
  BY <1>8, ChecksumCompletes, Zenon
<1>10. c \in Nat /\ c # 0 /\ Multiple(SumWords(p \o o) + c)
  <2>1. AllOnes \in Nat /\ AllOnes # 0
    BY DEF AllOnes
  <2> HIDE DEF c, k
  <2> QED BY <1>3, <1>9, <2>1, Zenon
<1> HIDE DEF c, k
<1>11. /\ s \in Seq(Nat) /\ Len(s) = 8 + N(r) /\ Holds(s, 6, Word(c))
  BY <1>10, SegmentIs
<1>12. WordAt(s, 6) = c
  <2>1. 6 + 2 =< Len(s) /\ 6 \in Nat
    BY <1>2, <1>11
  <2> HIDE DEF s
  <2> QED BY <1>10, <1>11, <2>1, WordHeld
<1>13. Multiple(SumWords(p \o s))
  BY <1>7, <1>10, Zenon
<1>14. PseudoHeader(r, Len(s)) = p
  BY <1>11, Zenon DEF p
<1> QED BY <1>1, <1>10, <1>12, <1>13, <1>14, Zenon

----------------------------------------------------------------------------
(* The IP headers.                                                           *)
HeaderLength(r) == IF V4(r) THEN 20 ELSE 40

(* What decapsulate_udp reads of an IP header behind the first ip bytes of f,*)
(* with inner bytes of options in it, or first the type of what is behind it.*)
Fields(r, inner, first) ==
  IF V4(r)
  THEN {<<0, <<IF inner = 0 THEN 69 ELSE 70>> >>,
        <<2, Word((28 + inner) + N(r))>>,
        <<9, <<UDP>> >>,
        <<12, r.src>>,
        <<16, r.dst>>}
  ELSE {<<0, <<96>> >>,
        <<6, <<first>> >>,
        <<8, r.src>>,
        <<24, r.dst>>}

IpPart(f, ip, r, inner, first) ==
  \A q \in Fields(r, inner, first) : Holds(f, ip + q[1], q[2])

(* The fields that decapsulate_udp reads lie in the IP header.               *)
LEMMA FieldsAre ==
  ASSUME NEW r, Accepted(r), NEW inner \in Nat, NEW first \in Nat,
         NEW q \in Fields(r, inner, first)
  PROVE  /\ q[1] \in Nat
         /\ q[2] \in Seq(Nat)
         /\ q[1] + Len(q[2]) =< HeaderLength(r)
<1>1. CASE V4(r)
  <2>1. /\ r.src \in Seq(Nat) /\ Len(r.src) = 4
        /\ r.dst \in Seq(Nat) /\ Len(r.dst) = 4 /\ N(r) \in Nat
    BY <1>1, RequestIs DEF AddressLength
  <2> DEFINE w == Word((28 + inner) + N(r))
             x == <<IF inner = 0 THEN 69 ELSE 70>>
             y == <<UDP>>
  <2>2. w \in Seq(Nat) /\ Len(w) = 2
    <3>1. (28 + inner) + N(r) \in Nat
      BY <2>1
    <3> QED BY <3>1, WordIs
  <2>3. x \in Seq(Nat) /\ Len(x) = 1 /\ y \in Seq(Nat) /\ Len(y) = 1
    BY DEF UDP
  <2> DEFINE k == q[1]
             t == q[2]
  <2>4. \/ k = 0 /\ t = x
        \/ k = 2 /\ t = w
        \/ k = 9 /\ t = y
        \/ k = 12 /\ t = r.src
        \/ k = 16 /\ t = r.dst
    BY <1>1 DEF Fields
  <2> HIDE DEF w, x, y, k, t
  <2>5. HeaderLength(r) = 20
    BY <1>1 DEF HeaderLength
  <2>6. k \in Nat /\ t \in Seq(Nat) /\ k + Len(t) =< HeaderLength(r)
    <3>1. CASE k = 0 /\ t = x
      <4>1. k = 0 /\ t \in Seq(Nat) /\ Len(t) = 1
        BY <2>3, <3>1, Zenon
      <4> QED BY <2>5, <4>1
    <3>2. CASE k = 2 /\ t = w
      <4>1. k = 2 /\ t \in Seq(Nat) /\ Len(t) = 2
        BY <2>2, <3>2, Zenon
      <4> QED BY <2>5, <4>1
    <3>3. CASE k = 9 /\ t = y
      <4>1. k = 9 /\ t \in Seq(Nat) /\ Len(t) = 1
        BY <2>3, <3>3, Zenon
      <4> QED BY <2>5, <4>1
    <3>4. CASE k = 12 /\ t = r.src
      <4>1. k = 12 /\ t \in Seq(Nat) /\ Len(t) = 4
        BY <2>1, <3>4, Zenon
      <4> QED BY <2>5, <4>1
    <3>5. CASE k = 16 /\ t = r.dst
      <4>1. k = 16 /\ t \in Seq(Nat) /\ Len(t) = 4
        BY <2>1, <3>5, Zenon
      <4> QED BY <2>5, <4>1
    <3> QED BY <3>1, <3>2, <3>3, <3>4, <3>5, <2>4
  <2> QED BY <2>6 DEF k, t
<1>2. CASE ~V4(r)
  <2>1. /\ r.src \in Seq(Nat) /\ Len(r.src) = 16
        /\ r.dst \in Seq(Nat) /\ Len(r.dst) = 16
    BY <1>2, RequestIs DEF AddressLength
  <2> DEFINE x == <<96>>
             y == <<first>>
  <2>2. x \in Seq(Nat) /\ Len(x) = 1 /\ y \in Seq(Nat) /\ Len(y) = 1
    OBVIOUS
  <2> DEFINE k == q[1]
             t == q[2]
  <2>3. \/ k = 0 /\ t = x
        \/ k = 6 /\ t = y
        \/ k = 8 /\ t = r.src
        \/ k = 24 /\ t = r.dst
    BY <1>2 DEF Fields
  <2> HIDE DEF x, y, k, t
  <2>4. HeaderLength(r) = 40
    BY <1>2 DEF HeaderLength
  <2>5. k \in Nat /\ t \in Seq(Nat) /\ k + Len(t) =< HeaderLength(r)
    <3>1. CASE k = 0 /\ t = x
      <4>1. k = 0 /\ t \in Seq(Nat) /\ Len(t) = 1
        BY <2>2, <3>1, Zenon
      <4> QED BY <2>4, <4>1
    <3>2. CASE k = 6 /\ t = y
      <4>1. k = 6 /\ t \in Seq(Nat) /\ Len(t) = 1
        BY <2>2, <3>2, Zenon
      <4> QED BY <2>4, <4>1
    <3>3. CASE k = 8 /\ t = r.src
      <4>1. k = 8 /\ t \in Seq(Nat) /\ Len(t) = 16
        BY <2>1, <3>3, Zenon
      <4> QED BY <2>4, <4>1
    <3>4. CASE k = 24 /\ t = r.dst
      <4>1. k = 24 /\ t \in Seq(Nat) /\ Len(t) = 16
        BY <2>1, <3>4, Zenon
      <4> QED BY <2>4, <4>1
    <3> QED BY <3>1, <3>2, <3>3, <3>4, <2>3
  <2> QED BY <2>5 DEF k, t
<1> QED BY <1>1, <1>2

(* They lie in a frame where the header does.                                *)
LEMMA IpPartWithin ==
  ASSUME NEW r, Accepted(r), NEW inner \in Nat, NEW first \in Nat,
         NEW f \in Seq(Nat), NEW p \in Seq(Nat), NEW ip \in Nat,
         Holds(f, ip, p), HeaderLength(r) =< Len(p),
         IpPart(p, 0, r, inner, first)
  PROVE  IpPart(f, ip, r, inner, first)
<1> SUFFICES ASSUME NEW q \in Fields(r, inner, first)
             PROVE  Holds(f, ip + q[1], q[2])
  BY DEF IpPart
<1>1. /\ q[1] \in Nat /\ q[2] \in Seq(Nat)
      /\ q[1] + Len(q[2]) =< HeaderLength(r)
  BY FieldsAre
<1>2. Len(q[2]) \in Nat /\ Len(p) \in Nat /\ HeaderLength(r) \in Nat
  BY <1>1 DEF HeaderLength
<1> DEFINE k == q[1]
           t == q[2]
<1>3. k \in Nat /\ t \in Seq(Nat) /\ k + Len(t) =< Len(p) /\ 0 + k = k
  BY <1>1, <1>2
<1>4. Holds(p, 0 + k, t)
  BY Zenon DEF IpPart
<1> HIDE DEF k, t
<1>5. Holds(p, k, t)
  BY <1>3, <1>4
<1>6. Holds(f, ip + k, t)
  BY <1>3, <1>5, HoldsPart
<1> QED BY <1>6 DEF k, t

(* The literal bytes of the headers.                                         *)
LEMMA BytesAre ==
  /\ <<69, 0>> \in Seq(Nat) /\ Len(<<69, 0>>) = 2
  /\ <<69>> \in Seq(Nat) /\ Len(<<69>>) = 1 /\ Holds(<<69, 0>>, 0, <<69>>)
  /\ <<0, 0, 0, 0, 64, UDP>> \in Seq(Nat) /\ Len(<<0, 0, 0, 0, 64, UDP>>) = 6
  /\ <<UDP>> \in Seq(Nat) /\ Len(<<UDP>>) = 1
  /\ Holds(<<0, 0, 0, 0, 64, UDP>>, 5, <<UDP>>)
  /\ <<96, 0, 0, 0>> \in Seq(Nat) /\ Len(<<96, 0, 0, 0>>) = 4
  /\ <<96>> \in Seq(Nat) /\ Len(<<96>>) = 1 /\ Holds(<<96, 0, 0, 0>>, 0, <<96>>)
  /\ <<UDP, 64>> \in Seq(Nat) /\ Len(<<UDP, 64>>) = 2
  /\ Holds(<<UDP, 64>>, 0, <<UDP>>)
<1>1. /\ <<69, 0>> \in Seq(Nat) /\ Len(<<69, 0>>) = 2
      /\ <<69>> \in Seq(Nat) /\ Len(<<69>>) = 1
      /\ <<96, 0, 0, 0>> \in Seq(Nat) /\ Len(<<96, 0, 0, 0>>) = 4
      /\ <<96>> \in Seq(Nat) /\ Len(<<96>>) = 1
  OBVIOUS
<1>2. /\ <<0, 0, 0, 0, 64, UDP>> \in Seq(Nat) /\ Len(<<0, 0, 0, 0, 64, UDP>>) = 6
      /\ <<UDP>> \in Seq(Nat) /\ Len(<<UDP>>) = 1
      /\ <<UDP, 64>> \in Seq(Nat) /\ Len(<<UDP, 64>>) = 2
  BY DEF UDP
<1>3. \A i \in Nat : 1 =< i /\ i =< 1 => i = 1
  OBVIOUS
<1>4. Holds(<<69, 0>>, 0, <<69>>)
  <2>1. <<69, 0>>[0 + 1] = 69 /\ <<69>>[1] = 69
    OBVIOUS
  <2> QED BY <1>1, <1>3, <2>1 DEF Holds
<1>5. Holds(<<96, 0, 0, 0>>, 0, <<96>>)
  <2>1. <<96, 0, 0, 0>>[0 + 1] = 96 /\ <<96>>[1] = 96
    OBVIOUS
  <2> QED BY <1>1, <1>3, <2>1 DEF Holds
<1>6. Holds(<<0, 0, 0, 0, 64, UDP>>, 5, <<UDP>>)
  <2>1. <<0, 0, 0, 0, 64, UDP>>[5 + 1] = UDP /\ <<UDP>>[1] = UDP
    OBVIOUS
  <2> QED BY <1>2, <1>3, <2>1 DEF Holds
<1>7. Holds(<<UDP, 64>>, 0, <<UDP>>)
  <2>1. <<UDP, 64>>[0 + 1] = UDP /\ <<UDP>>[1] = UDP
    OBVIOUS
  <2> QED BY <1>2, <1>3, <2>1 DEF Holds
<1> QED BY <1>1, <1>2, <1>4, <1>5, <1>6, <1>7

Header4(r, n, checksum) ==
  <<69, 0>> \o Word(20 + n) \o <<0, 0, 0, 0, 64, UDP>> \o Word(checksum)
    \o r.src \o r.dst

(* The fields of an IPv4 header.                                             *)
LEMMA Header4Is ==
  ASSUME NEW r, Accepted(r), V4(r), NEW n \in Nat, NEW c \in Nat
  PROVE  LET h == Header4(r, n, c) IN
         /\ h \in Seq(Nat)
         /\ Len(h) = 20
         /\ Holds(h, 0, <<69>>)
         /\ Holds(h, 2, Word(20 + n))
         /\ Holds(h, 9, <<UDP>>)
         /\ Holds(h, 10, Word(c))
         /\ Holds(h, 12, r.src)
         /\ Holds(h, 16, r.dst)
         /\ Alike(Header4(r, n, 0), h, 10)
<1>1. /\ r.src \in Seq(Nat) /\ Len(r.src) = 4
      /\ r.dst \in Seq(Nat) /\ Len(r.dst) = 4
  BY RequestIs DEF AddressLength
<1> DEFINE x == <<69, 0>>
           l == Word(20 + n)
           z == <<0, 0, 0, 0, 64, UDP>>
           a == x \o l \o z
           o == a \o Word(0)
           b == a \o Word(c)
           s == r.src
           d == r.dst
           h == b \o s \o d
<1>2. /\ x \in Seq(Nat) /\ Len(x) = 2 /\ z \in Seq(Nat) /\ Len(z) = 6
      /\ Holds(x, 0, <<69>>) /\ Holds(z, 5, <<UDP>>)
      /\ <<69>> \in Seq(Nat) /\ Len(<<69>>) = 1
      /\ <<UDP>> \in Seq(Nat) /\ Len(<<UDP>>) = 1
  BY BytesAre, Zenon
<1>3. l \in Seq(Nat) /\ Len(l) = 2
  <2>1. 20 + n \in Nat
    OBVIOUS
  <2> QED BY <2>1, WordIs
<1>4. s \in Seq(Nat) /\ Len(s) = 4 /\ d \in Seq(Nat) /\ Len(d) = 4
  BY <1>1
<1>5. Header4(r, n, c) = h /\ Header4(r, n, 0) = o \o s \o d
  BY Zenon DEF Header4
<1> HIDE DEF x, l, z, s, d
<1>6. /\ a \in Seq(Nat) /\ Len(a) = Len(x) + Len(l) + Len(z)
      /\ Holds(a, 0, x) /\ Holds(a, Len(x), l) /\ Holds(a, Len(x) + Len(l), z)
  <2>1. x \in Seq(Nat) /\ l \in Seq(Nat) /\ z \in Seq(Nat)
    BY <1>2, <1>3, Zenon
  <2> QED BY <2>1, Joined3, Zenon
<1> HIDE DEF a
<1>7. Len(a) = 10 /\ Holds(a, 2, l) /\ Holds(a, 4, z)
  BY <1>2, <1>3, <1>6
<1>8. /\ Alike(o, b, Len(a)) /\ o \in Seq(Nat) /\ b \in Seq(Nat)
      /\ Holds(b, Len(a), Word(c)) /\ Len(b) = Len(a) + 2 /\ Holds(b, 0, a)
  <2>1. Word(c) \in Seq(Nat)
    BY WordIs
  <2> QED BY <1>6, <2>1, AlikeWord, Joined
<1> HIDE DEF o, b
<1>9. Alike(o, b, 10) /\ Holds(b, 10, Word(c)) /\ Len(b) = 12
  BY <1>7, <1>8
<1>10. /\ h \in Seq(Nat) /\ Len(h) = Len(b) + Len(s) + Len(d)
       /\ Holds(h, 0, b) /\ Holds(h, Len(b), s) /\ Holds(h, Len(b) + Len(s), d)
  BY <1>4, <1>8, Joined3, ZenonT(40)
<1>11. Alike(o \o s \o d, h, 10)
  <2> DEFINE os == o \o s
             bs == b \o s
  <2>1. Alike(os, bs, 10) /\ os \in Seq(Nat) /\ bs \in Seq(Nat)
    BY <1>4, <1>8, <1>9, AlikeInFront, Joined
  <2> HIDE DEF os, bs
  <2>2. Alike(os \o d, bs \o d, 10)
    BY <1>4, <2>1, AlikeInFront
  <2> QED BY <2>2 DEF os, bs
<1> HIDE DEF h
<1>12. Len(h) = 20 /\ Holds(h, 12, s) /\ Holds(h, 16, d)
  BY <1>4, <1>9, <1>10
<1>13. Holds(h, 0, a) /\ Holds(h, 10, Word(c))
  <2>1. Word(c) \in Seq(Nat) /\ Len(Word(c)) = 2
    BY WordIs
  <2>2. 0 + Len(a) =< Len(b) /\ 10 + Len(Word(c)) =< Len(b) /\ 10 \in Nat /\ 0 \in Nat
    BY <1>7, <1>9, <2>1
  <2>3. Holds(h, 0 + 0, a) /\ Holds(h, 0 + 10, Word(c))
    BY <1>6, <1>8, <1>9, <1>10, <2>1, <2>2, HoldsPart
  <2> QED BY <2>3
<1>14. Holds(h, 0, x) /\ Holds(h, 2, l) /\ Holds(h, 4, z)
  <2>1. 0 + Len(x) =< Len(a) /\ 2 + Len(l) =< Len(a) /\ 4 + Len(z) =< Len(a)
        /\ 0 \in Nat /\ 2 \in Nat /\ 4 \in Nat
    BY <1>2, <1>3, <1>7
  <2>2. Holds(h, 0 + 0, x) /\ Holds(h, 0 + 2, l) /\ Holds(h, 0 + 4, z)
    BY <1>2, <1>3, <1>6, <1>7, <1>10, <1>13, <2>1, HoldsPart
  <2> QED BY <2>2
<1>15. Holds(h, 0, <<69>>) /\ Holds(h, 9, <<UDP>>)
  <2>1. 0 + Len(<<69>>) =< Len(x) /\ 5 + Len(<<UDP>>) =< Len(z)
        /\ 0 \in Nat /\ 5 \in Nat /\ 4 \in Nat
    BY <1>2
  <2>2. Holds(h, 0 + 0, <<69>>) /\ Holds(h, 4 + 5, <<UDP>>)
    BY <1>2, <1>10, <1>14, <2>1, HoldsPart
  <2> QED BY <2>2
<1> QED BY <1>5, <1>10, <1>11, <1>12, <1>13, <1>14, <1>15, Zenon DEF l, s, d

(* The IPv4 header of encapsulate_udp, and that its words sum to a multiple  *)
(* of 0xFFFF.                                                                *)
LEMMA Ipv4HeaderIs ==
  ASSUME NEW r, Accepted(r), V4(r), NEW segment \in Seq(Nat),
         Len(segment) = 8 + N(r)
  PROVE  LET h == Ipv4Header(r, segment) IN
         /\ h \in Seq(Nat)
         /\ Len(h) = 20
         /\ IpPart(h, 0, r, 0, UDP)
         /\ Multiple(SumWords(h))
<1> DEFINE n == Len(segment)
           o == Header4(r, n, 0)
           c == Checksum16(o)
           h == Header4(r, n, c)
<1>1. n \in Nat /\ N(r) \in Nat /\ n = 8 + N(r)
  BY RequestIs
<1>2. Ipv4Header(r, segment) = h
  BY Zenon DEF Ipv4Header, Header4
<1> HIDE DEF n
<1>3. ASSUME NEW d \in Nat
      PROVE  /\ SumWords(o) \in Nat
             /\ SumWords(Header4(r, n, d)) = SumWords(o) + d
  <2> DEFINE t == Header4(r, n, d)
  <2>1. /\ o \in Seq(Nat) /\ Len(o) = 20 /\ Holds(o, 10, Word(0))
        /\ t \in Seq(Nat) /\ Holds(t, 10, Word(d)) /\ Alike(o, t, 10)
    BY <1>1, Header4Is
  <2> HIDE DEF o, t
  <2>2. 10 = 2 * 5 /\ (2 * 5) + 2 =< Len(o) /\ 5 \in Nat
    BY <2>1
  <2> DEFINE j == 5
  <2> HIDE DEF j
  <2>3. j \in Nat /\ (2 * j) + 2 =< Len(o) /\ 2 * j = 10
    BY <2>2 DEF j
  <2>4. Alike(o, t, 2 * j) /\ Holds(o, 2 * j, Word(0)) /\ Holds(t, 2 * j, Word(d))
    BY <2>1, <2>3
  <2>5. SumWords(o) \in Nat /\ SumWords(t) = SumWords(o) + d
    <3>1. SumsTo(o, t, d)
      BY <2>1, <2>3, <2>4, WordFilledIn, Zenon
    <3> QED BY <3>1, Zenon DEF SumsTo
  <2> QED BY <2>5 DEF t
<1>4. SumWords(o) \in Nat
  <2>1. 0 \in Nat
    OBVIOUS
  <2> QED BY <1>3, <2>1, Zenon
<1>5. c \in Nat /\ Multiple(SumWords(o) + c)
  BY <1>4, ChecksumCompletes, Zenon
<1> HIDE DEF c
<1>6. Multiple(SumWords(h))
  BY <1>3, <1>5, Zenon
<1>7. /\ h \in Seq(Nat) /\ Len(h) = 20
      /\ Holds(h, 0, <<69>>) /\ Holds(h, 2, Word(20 + n)) /\ Holds(h, 9, <<UDP>>)
      /\ Holds(h, 12, r.src) /\ Holds(h, 16, r.dst)
  BY <1>1, <1>5, Header4Is
<1> HIDE DEF h
<1>8. 20 + n = (28 + 0) + N(r)
  BY <1>1
<1>9. IpPart(h, 0, r, 0, UDP)
  <2>1. 0 + 2 = 2 /\ 0 + 9 = 9 /\ 0 + 12 = 12 /\ 0 + 16 = 16 /\ 0 + 0 = 0
    OBVIOUS
  <2> SUFFICES ASSUME NEW q \in Fields(r, 0, UDP)
               PROVE  Holds(h, 0 + q[1], q[2])
    BY DEF IpPart
  <2> DEFINE k == q[1]
             t == q[2]
  <2>2. \/ k = 0 /\ t = <<69>>
        \/ k = 2 /\ t = Word(20 + n)
        \/ k = 9 /\ t = <<UDP>>
        \/ k = 12 /\ t = r.src
        \/ k = 16 /\ t = r.dst
    BY <1>8 DEF Fields
  <2> HIDE DEF k, t
  <2>3. Holds(h, 0 + k, t)
    BY <1>7, <2>1, <2>2
  <2> QED BY <2>3 DEF k, t
<1> QED BY <1>2, <1>6, <1>7, <1>9, Zenon

(* The IPv6 header of encapsulate_udp.                                       *)
LEMMA Ipv6HeaderIs ==
  ASSUME NEW r, Accepted(r), ~V4(r), NEW segment \in Seq(Nat)
  PROVE  LET h == Ipv6Header(r, segment) IN
         /\ h \in Seq(Nat)
         /\ Len(h) = 40
         /\ IpPart(h, 0, r, 0, UDP)
<1> DEFINE x == <<96, 0, 0, 0>>
           l == Word(Len(segment))
           z == <<UDP, 64>>
           s == r.src
           d == r.dst
           h == x \o l \o z \o s \o d
<1>1. /\ x \in Seq(Nat) /\ Len(x) = 4 /\ z \in Seq(Nat) /\ Len(z) = 2
      /\ Holds(x, 0, <<96>>) /\ Holds(z, 0, <<UDP>>)
      /\ <<96>> \in Seq(Nat) /\ Len(<<96>>) = 1
      /\ <<UDP>> \in Seq(Nat) /\ Len(<<UDP>>) = 1
  BY BytesAre, Zenon
<1>2. l \in Seq(Nat) /\ Len(l) = 2
  <2>1. Len(segment) \in Nat
    OBVIOUS
  <2> QED BY <2>1, WordIs
<1>3. s \in Seq(Nat) /\ Len(s) = 16 /\ d \in Seq(Nat) /\ Len(d) = 16
  BY RequestIs DEF AddressLength
<1>4. Ipv6Header(r, segment) = h
  BY Zenon DEF Ipv6Header
<1> HIDE DEF x, l, z, s, d
<1>5. /\ h \in Seq(Nat)
      /\ Len(h) = Len(x) + Len(l) + Len(z) + Len(s) + Len(d)
      /\ Holds(h, 0, x)
      /\ Holds(h, Len(x), l)
      /\ Holds(h, Len(x) + Len(l), z)
      /\ Holds(h, Len(x) + Len(l) + Len(z), s)
      /\ Holds(h, Len(x) + Len(l) + Len(z) + Len(s), d)
  <2>1. x \in Seq(Nat) /\ l \in Seq(Nat) /\ z \in Seq(Nat) /\ s \in Seq(Nat) /\ d \in Seq(Nat)
    BY <1>1, <1>2, <1>3, Zenon
  <2> QED BY <2>1, Joined5, ZenonT(40)
<1> HIDE DEF h
<1>6. Len(h) = 40 /\ Holds(h, 6, z) /\ Holds(h, 8, s) /\ Holds(h, 24, d)
  BY <1>1, <1>2, <1>3, <1>5
<1>7. Holds(h, 0, <<96>>) /\ Holds(h, 6, <<UDP>>)
  <2>1. 0 + Len(<<96>>) =< Len(x) /\ 0 + Len(<<UDP>>) =< Len(z) /\ 0 \in Nat /\ 6 \in Nat
    BY <1>1
  <2>2. Holds(h, 0 + 0, <<96>>) /\ Holds(h, 6 + 0, <<UDP>>)
    BY <1>1, <1>5, <1>6, <2>1, HoldsPart
  <2> QED BY <2>2
<1>8. IpPart(h, 0, r, 0, UDP)
  <2>1. 0 + 6 = 6 /\ 0 + 8 = 8 /\ 0 + 24 = 24 /\ 0 + 0 = 0
    OBVIOUS
  <2> SUFFICES ASSUME NEW q \in Fields(r, 0, UDP)
               PROVE  Holds(h, 0 + q[1], q[2])
    BY DEF IpPart
  <2> DEFINE k == q[1]
             t == q[2]
  <2>2. \/ k = 0 /\ t = <<96>>
        \/ k = 6 /\ t = <<UDP>>
        \/ k = 8 /\ t = s
        \/ k = 24 /\ t = d
    BY DEF Fields, s, d
  <2> HIDE DEF k, t
  <2>3. Holds(h, 0 + k, t)
    BY <1>6, <1>7, <2>1, <2>2
  <2> QED BY <2>3 DEF k, t
<1> QED BY <1>4, <1>5, <1>6, <1>8, Zenon

(* A packet is a header and the datagram.                                    *)
LEMMA PacketIs ==
  ASSUME NEW r, Accepted(r)
  PROVE  /\ Packet(r) \in Seq(Nat)
         /\ Len(Packet(r)) = HeaderLength(r) + 8 + N(r)
         /\ IpPart(Packet(r), 0, r, 0, UDP)
         /\ Holds(Packet(r), HeaderLength(r), UdpSegment(r))
         /\ UdpSegment(r) \in Seq(Nat)
         /\ Len(UdpSegment(r)) = 8 + N(r)
         /\ V4(r) => \E h \in Seq(Nat) : /\ Len(h) = 20
                                         /\ Holds(Packet(r), 0, h)
                                         /\ Multiple(SumWords(h))
<1> DEFINE segment == UdpSegment(r)
           h == IF V4(r) THEN Ipv4Header(r, segment) ELSE Ipv6Header(r, segment)
<1>1. PICK c \in Nat : segment = Segment(r, c)
  BY UdpSegmentIs
<1>2. segment \in Seq(Nat) /\ Len(segment) = 8 + N(r) /\ N(r) \in Nat
  BY <1>1, SegmentIs, RequestIs
<1>3. Packet(r) = h \o segment
  BY Zenon DEF Packet, V4
<1> HIDE DEF segment
<1>4. /\ h \in Seq(Nat) /\ Len(h) = HeaderLength(r)
      /\ IpPart(h, 0, r, 0, UDP)
      /\ V4(r) => Multiple(SumWords(h))
  <2>1. CASE V4(r)
    <3>1. h = Ipv4Header(r, segment)
      BY <2>1, Zenon
    <3> QED BY <1>2, <2>1, <3>1, Ipv4HeaderIs, Zenon DEF HeaderLength
  <2>2. CASE ~V4(r)
    <3>1. h = Ipv6Header(r, segment)
      BY <2>2, Zenon
    <3> QED BY <1>2, <2>2, <3>1, Ipv6HeaderIs, Zenon DEF HeaderLength
  <2> QED BY <2>1, <2>2
<1> HIDE DEF h
<1> DEFINE p == h \o segment
<1>5. /\ p \in Seq(Nat) /\ Len(p) = Len(h) + Len(segment)
      /\ Holds(p, 0, h) /\ Holds(p, Len(h), segment)
  BY <1>2, <1>4, Joined, Zenon
<1> HIDE DEF p
<1>6. Len(p) = (HeaderLength(r) + 8) + N(r)
  <2>1. HeaderLength(r) \in Nat
    BY DEF HeaderLength
  <2> QED BY <1>2, <1>4, <1>5, <2>1
<1>7. IpPart(p, 0, r, 0, UDP)
  <2>1. HeaderLength(r) =< Len(h) /\ UDP \in Nat /\ 0 \in Nat
    BY <1>4 DEF UDP, HeaderLength
  <2> QED BY <1>4, <1>5, <2>1, IpPartWithin
<1>8. V4(r) => \E h1 \in Seq(Nat) : Len(h1) = 20 /\ Holds(p, 0, h1) /\ Multiple(SumWords(h1))
  BY <1>4, <1>5 DEF HeaderLength
<1>9. Holds(p, HeaderLength(r), segment)
  BY <1>4, <1>5
<1> QED BY <1>2, <1>3, <1>5, <1>6, <1>7, <1>8, <1>9, Zenon DEF p, segment

----------------------------------------------------------------------------
(* Pieces of a frame, each with its place behind the first c bytes.          *)
Pieces(S, n) ==
  \A q \in S : /\ q[1] \in Nat
               /\ q[2] \in Seq(Nat)
               /\ q[1] + Len(q[2]) =< n

Lay(f, c, S) == \A q \in S : Holds(f, c + q[1], q[2])

(* A piece is bytes at an offset.                                            *)
LEMMA PieceIs ==
  ASSUME NEW S, NEW n \in Nat, Pieces(S, n), NEW q \in S
  PROVE  /\ q[1] \in Nat
         /\ q[2] \in Seq(Nat)
         /\ Len(q[2]) \in Nat
         /\ q[1] + Len(q[2]) =< n
<1>1. /\ q[1] \in Nat /\ q[2] \in Seq(Nat)
      /\ q[1] + Len(q[2]) =< n
  BY Zenon DEF Pieces
<1> QED BY <1>1

(* Pieces stay when bytes are appended.                                      *)
LEMMA LayInFront ==
  ASSUME NEW f \in Seq(Nat), NEW c \in Nat, NEW S, NEW n \in Nat, Pieces(S, n),
         Lay(f, c, S), c + n =< Len(f), NEW z \in Seq(Nat)
  PROVE  Lay(f \o z, c, S)
<1> SUFFICES ASSUME NEW q \in S
             PROVE  Holds(f \o z, c + q[1], q[2])
  BY DEF Lay
<1> DEFINE k == c + q[1]
           t == q[2]
<1>1. k \in Nat /\ t \in Seq(Nat) /\ k + Len(t) =< Len(f)
  BY PieceIs
<1>2. Holds(f, k, t)
  BY Zenon DEF Lay
<1> HIDE DEF k, t
<1>3. Holds(f \o z, k, t)
  BY <1>1, <1>2, HoldsInFront
<1> QED BY <1>3 DEF k, t

(* Pieces stay when the frame is cut, as far as it reaches.                  *)
LEMMA LayCut ==
  ASSUME NEW f \in Seq(Nat), NEW c \in Nat, NEW S, NEW n \in Nat, Pieces(S, n),
         Lay(f, c, S), NEW m \in Nat, m =< Len(f)
  PROVE  Lay(SubSeq(f, 1, m), c, S)
<1> SUFFICES ASSUME NEW q \in S
             PROVE  Holds(SubSeq(f, 1, m), c + q[1], q[2])
  BY DEF Lay
<1>1. c + q[1] \in Nat
  BY PieceIs
<1>2. Holds(f, c + q[1], q[2])
  BY Zenon DEF Lay
<1> QED BY <1>1, <1>2, HoldsCut, Zenon

(* Pieces before the place where bytes are put stay.                         *)
LEMMA LayPutBehind ==
  ASSUME NEW f \in Seq(Nat), NEW c \in Nat, NEW S, NEW n \in Nat, Pieces(S, n),
         Lay(f, c, S), NEW l \in Nat, l =< Len(f), c + n =< l, NEW b \in Seq(Nat)
  PROVE  Lay(Put(f, l, b), c, S)
<1> SUFFICES ASSUME NEW q \in S
             PROVE  Holds(Put(f, l, b), c + q[1], q[2])
  BY DEF Lay
<1> DEFINE k == c + q[1]
           t == q[2]
<1>1. k \in Nat /\ t \in Seq(Nat) /\ k + Len(t) =< l
  BY PieceIs, SMTT(30)
<1>2. Holds(f, k, t)
  BY Zenon DEF Lay
<1> HIDE DEF k, t
<1>3. Holds(Put(f, l, b), k, t)
  BY <1>1, <1>2, PutBehind
<1> QED BY <1>3 DEF k, t

(* Pieces behind the place where bytes are put move by their number.         *)
LEMMA LayPutInFront ==
  ASSUME NEW f \in Seq(Nat), NEW c \in Nat, NEW S, NEW n \in Nat, Pieces(S, n),
         Lay(f, c, S), NEW l \in Nat, l =< Len(f), l =< c, NEW b \in Seq(Nat)
  PROVE  Lay(Put(f, l, b), c + Len(b), S)
<1> SUFFICES ASSUME NEW q \in S
             PROVE  Holds(Put(f, l, b), (c + Len(b)) + q[1], q[2])
  BY DEF Lay
<1> DEFINE k == c + q[1]
           t == q[2]
<1>1. k \in Nat /\ t \in Seq(Nat) /\ l =< k /\ k + Len(b) = (c + Len(b)) + q[1]
  <2>1. Len(b) \in Nat
    OBVIOUS
  <2> QED BY <2>1, PieceIs
<1>2. Holds(f, k, t)
  BY Zenon DEF Lay
<1> HIDE DEF k
<1>3. Holds(Put(f, l, b), k + Len(b), t)
  BY <1>1, <1>2, PutInFront
<1> QED BY <1>1, <1>3, Zenon

(* Pieces beside a byte that gets another value stay.                        *)
LEMMA LayReplaced ==
  ASSUME NEW f \in Seq(Nat), NEW c \in Nat, NEW S, NEW n \in Nat, Pieces(S, n),
         Lay(f, c, S), NEW p \in Nat, 1 =< p, p =< Len(f), NEW v \in Nat,
         \A q \in S : p =< c + q[1] \/ (c + q[1]) + Len(q[2]) < p
  PROVE  Lay([f EXCEPT ![p] = v], c, S)
<1> SUFFICES ASSUME NEW q \in S
             PROVE  Holds([f EXCEPT ![p] = v], c + q[1], q[2])
  BY DEF Lay
<1> DEFINE k == c + q[1]
           t == q[2]
<1>1. k \in Nat /\ t \in Seq(Nat)
  BY PieceIs
<1>2. Holds(f, k, t) /\ (p =< k \/ k + Len(t) < p)
  BY Zenon DEF Lay
<1> HIDE DEF k, t
<1>3. Holds([f EXCEPT ![p] = v], k, t)
  BY <1>1, <1>2, Replaced
<1> QED BY <1>3 DEF k, t

(* Before all the pieces, or behind them.                                    *)
LEMMA LayReplacedOutside ==
  ASSUME NEW f \in Seq(Nat), NEW c \in Nat, NEW S, NEW n \in Nat, Pieces(S, n),
         Lay(f, c, S), NEW p \in Nat, 1 =< p, p =< Len(f), NEW v \in Nat,
         p =< c \/ c + n < p
  PROVE  Lay([f EXCEPT ![p] = v], c, S)
<1>1. ASSUME NEW q \in S
      PROVE  p =< c + q[1] \/ (c + q[1]) + Len(q[2]) < p
  BY PieceIs, SMTT(30)
<1> QED BY <1>1, LayReplaced

----------------------------------------------------------------------------
(* A frame.                                                                  *)
Type(r) == IF V4(r) THEN IPv4 ELSE IPv6

LinkLength(r) ==
  IF r.link = EN10MB THEN 14 ELSE IF r.link = LINUX_SLL THEN 16 ELSE 0

Start(r, w) == LinkLength(r) + (4 * w.tags)

UdpStart(r, w) == Start(r, w) + HeaderLength(r) + w.inner

TotalLength(r, w) == UdpStart(r, w) + 8 + N(r)

Tags(n) == {<<12 + (4 * j), Word(VLAN)>> : j \in {i \in Nat : i < n}}

LinkPieces(r, w) ==
  IF r.link = EN10MB
  THEN Tags(w.tags) \cup {<<12 + (4 * w.tags), Word(Type(r))>>}
  ELSE IF r.link = LINUX_SLL THEN {<<14, Word(Type(r))>>} ELSE {}

HeaderAt(chain, i) == IF i =< Len(chain) THEN chain[i].header ELSE UDP

Parts(chain) == [i \in DOMAIN chain |-> HeaderBytesOf(chain, i)]

Extensions(chain) == IF chain = <<>> THEN <<>> ELSE FlattenSeq(Parts(chain))

Layout(f, r, w, chain) ==
  /\ f \in Seq(Nat)
  /\ Lay(f, 0, LinkPieces(r, w))
  /\ Lay(f, Start(r, w), Fields(r, w.inner, HeaderAt(chain, 1)))
  /\ Holds(f, Start(r, w) + HeaderLength(r), Extensions(chain))
  /\ Holds(f, UdpStart(r, w), UdpSegment(r))

(* What networks can have put into a frame.                                  *)
Way(r, w, chain) ==
  /\ w.tags \in Nat /\ (r.link # EN10MB => w.tags = 0)
  /\ w.inner \in Nat /\ w.headers \in Nat
  /\ chain \in Chain \cup {<<>>}
  /\ V4(r) => /\ chain = <<>> /\ w.known
              /\ w.headers \in {0, 1} /\ w.inner = 4 * w.headers
  /\ ~V4(r) => /\ w.headers = Len(chain)
               /\ w.inner = Len(Extensions(chain))
               /\ w.known <=> \A i \in DOMAIN chain :
                                chain[i].header \in ExtensionHeader

(* EtherTypes are words.                                                     *)
LEMMA TypeIs ==
  ASSUME NEW r
  PROVE  /\ Type(r) \in Nat /\ VLAN \in Nat
         /\ Word(Type(r)) \in Seq(Nat) /\ Len(Word(Type(r))) = 2
         /\ Word(VLAN) \in Seq(Nat) /\ Len(Word(VLAN)) = 2
<1>1. Type(r) \in Nat /\ VLAN \in Nat
  BY DEF Type, IPv4, IPv6, VLAN
<1> QED BY <1>1, WordIs

(* The types lie in front of the IP header.                                  *)
LEMMA LinkPiecesAre ==
  ASSUME NEW r, NEW w, w.tags \in Nat
  PROVE  Pieces(LinkPieces(r, w), Start(r, w))
<1> DEFINE t == Word(Type(r))
           v == Word(VLAN)
           n == w.tags
<1>1. t \in Seq(Nat) /\ Len(t) = 2 /\ v \in Seq(Nat) /\ Len(v) = 2
  BY TypeIs
<1> SUFFICES ASSUME NEW q \in LinkPieces(r, w)
             PROVE  /\ q[1] \in Nat
                    /\ q[2] \in Seq(Nat)
                    /\ q[1] + Len(q[2]) =< Start(r, w)
  BY DEF Pieces
<1> DEFINE k == q[1]
           u == q[2]
<1>2. CASE r.link = EN10MB
  <2>1. Start(r, w) = 14 + (4 * n)
    BY <1>2 DEF Start, LinkLength
  <2>2. \/ \E j \in Nat : j < n /\ k = 12 + (4 * j) /\ u = v
        \/ k = 12 + (4 * n) /\ u = t
    BY <1>2 DEF LinkPieces, Tags
  <2>3. CASE \E j \in Nat : j < n /\ k = 12 + (4 * j) /\ u = v
    <3>1. PICK j \in Nat : j < n /\ k = 12 + (4 * j) /\ u = v
      BY <2>3
    <3>2. u \in Seq(Nat) /\ Len(u) = 2
      BY <1>1, <3>1, Zenon
    <3> HIDE DEF u, k, t, v
    <3>3. k = 12 + (4 * j) /\ j < n
      BY <3>1
    <3>4. k \in Nat /\ u \in Seq(Nat) /\ k + Len(u) =< Start(r, w)
      BY <2>1, <3>2, <3>3
    <3> QED BY <3>4 DEF k, u
  <2>4. CASE k = 12 + (4 * n) /\ u = t
    <3>1. u \in Seq(Nat) /\ Len(u) = 2
      BY <1>1, <2>4, Zenon
    <3> HIDE DEF u, k, t, v
    <3>2. k = 12 + (4 * n)
      BY <2>4
    <3>3. k \in Nat /\ u \in Seq(Nat) /\ k + Len(u) =< Start(r, w)
      BY <2>1, <3>1, <3>2
    <3> QED BY <3>3 DEF k, u
  <2> QED BY <2>2, <2>3, <2>4
<1>3. CASE r.link = LINUX_SLL
  <2>1. r.link # EN10MB
    BY <1>3 DEF LINUX_SLL, EN10MB
  <2>2. Start(r, w) = 16 + (4 * n)
    BY <1>3, <2>1 DEF Start, LinkLength
  <2>3. k = 14 /\ u = t
    BY <1>3, <2>1 DEF LinkPieces
  <2>4. u \in Seq(Nat) /\ Len(u) = 2
    BY <1>1, <2>3, Zenon
  <2>5. k = 14
    BY <2>3
  <2> HIDE DEF u, k, t, v
  <2>6. k \in Nat /\ u \in Seq(Nat) /\ k + Len(u) =< Start(r, w)
    BY <2>2, <2>4, <2>5
  <2> QED BY <2>6 DEF k, u
<1>4. CASE r.link # EN10MB /\ r.link # LINUX_SLL
  BY <1>4 DEF LinkPieces
<1> QED BY <1>2, <1>3, <1>4

(* The link header of encapsulate_udp names the type of the packet.          *)
LEMMA LinkHeaderIs ==
  ASSUME NEW r, Accepted(r)
  PROVE  LET h == LinkHeader(r) IN
         /\ h \in Seq(Nat)
         /\ Len(h) = LinkLength(r)
         /\ r.link = EN10MB => Holds(h, 12, Word(Type(r)))
         /\ r.link = LINUX_SLL => Holds(h, 14, Word(Type(r)))
<1> DEFINE h == LinkHeader(r)
           t == Word(Type(r))
<1>1. t \in Seq(Nat) /\ Len(t) = 2
  BY TypeIs
<1>2. r.link \in {EN10MB, LINUX_SLL, RAW}
  BY RequestIs
<1>3. EN10MB # LINUX_SLL /\ EN10MB # RAW /\ LINUX_SLL # RAW
  BY DEF EN10MB, LINUX_SLL, RAW
<1>4. ASSUME NEW n \in Nat PROVE Zeros(n) \in Seq(Nat) /\ Len(Zeros(n)) = n
  BY DEF Zeros
<1>5. CASE r.link = EN10MB
  <2> DEFINE z == Zeros(5)
             x == <<1>>
             s == Zeros(5)
             y == <<2>>
  <2>1. z \in Seq(Nat) /\ Len(z) = 5 /\ s \in Seq(Nat) /\ Len(s) = 5
    BY <1>4
  <2>2. x \in Seq(Nat) /\ Len(x) = 1 /\ y \in Seq(Nat) /\ Len(y) = 1
    OBVIOUS
  <2>3. h = z \o x \o s \o y \o t
    BY <1>3, <1>5, Zenon DEF LinkHeader, Type, V4
  <2> HIDE DEF h, z, x, s, y, t
  <2> DEFINE e == z \o x \o s \o y \o t
  <2>6. /\ e \in Seq(Nat)
        /\ Len(e) = Len(z) + Len(x) + Len(s) + Len(y) + Len(t)
        /\ Holds(e, 0, z)
        /\ Holds(e, Len(z), x)
        /\ Holds(e, Len(z) + Len(x), s)
        /\ Holds(e, Len(z) + Len(x) + Len(s), y)
        /\ Holds(e, Len(z) + Len(x) + Len(s) + Len(y), t)
    BY <1>1, <2>1, <2>2, Joined5, ZenonT(40)
  <2>4. h \in Seq(Nat) /\ Len(h) = Len(z) + Len(x) + Len(s) + Len(y) + Len(t)
        /\ Holds(h, Len(z) + Len(x) + Len(s) + Len(y), t)
    BY <2>3, <2>6, Zenon
  <2>5. Len(h) = 14 /\ Holds(h, 12, t)
    BY <1>1, <2>1, <2>2, <2>4
  <2> QED BY <1>3, <1>5, <2>4, <2>5, Zenon DEF LinkLength, h, t
<1>6. CASE r.link = LINUX_SLL
  <2> DEFINE z == Zeros(10)
             x == <<0, 0, 0, 1>>
  <2>1. z \in Seq(Nat) /\ Len(z) = 10
    BY <1>4
  <2>2. x \in Seq(Nat) /\ Len(x) = 4
    OBVIOUS
  <2>3. h = x \o z \o t
    BY <1>3, <1>6, Zenon DEF LinkHeader, Type, V4
  <2> HIDE DEF h, z, x, t
  <2>4. /\ h \in Seq(Nat)
        /\ Len(h) = Len(x) + Len(z) + Len(t)
        /\ Holds(h, 0, x)
        /\ Holds(h, Len(x), z)
        /\ Holds(h, Len(x) + Len(z), t)
    BY <1>1, <2>1, <2>2, <2>3, Joined3, Zenon
  <2>5. Len(h) = 16 /\ Holds(h, 14, t)
    BY <1>1, <2>1, <2>2, <2>4
  <2> QED BY <1>3, <1>6, <2>4, <2>5, Zenon DEF LinkLength, h, t
<1>7. CASE r.link = RAW
  <2>1. h = <<>>
    BY <1>3, <1>7, Zenon DEF LinkHeader
  <2>2. h \in Seq(Nat) /\ Len(h) = 0
    BY <2>1
  <2> QED BY <1>3, <1>7, <2>2, Zenon DEF LinkLength
<1> QED BY <1>2, <1>5, <1>6, <1>7

(* Lengths of headers are numbers.                                           *)
LEMMA HeaderLengthIs ==
  ASSUME NEW r
  PROVE  HeaderLength(r) \in Nat /\ LinkLength(r) \in Nat
BY DEF HeaderLength, LinkLength

(* The offset of the IP header is a number.                                  *)
LEMMA StartIs ==
  ASSUME NEW r, NEW w, w.tags \in Nat
  PROVE  Start(r, w) \in Nat /\ 4 * w.tags \in Nat
<1>1. LinkLength(r) \in Nat
  BY HeaderLengthIs
<1> DEFINE n == w.tags
<1>2. n \in Nat
  OBVIOUS
<1> HIDE DEF n
<1>3. LinkLength(r) + (4 * n) \in Nat /\ 4 * n \in Nat
  BY <1>1, <1>2
<1> QED BY <1>3 DEF Start, n

(* UDP is a number.                                                          *)
LEMMA UdpIs == UDP \in Nat /\ UDP = 17
BY DEF UDP

(* What encapsulate_udp returns.                                             *)
LEMMA EncapsulatedLayout ==
  ASSUME NEW r, Accepted(r), NEW w, w.tags = 0, w.inner = 0, w.headers = 0, w.known
  PROVE  LET f == LinkHeader(r) \o Packet(r) IN
         /\ Layout(f, r, w, <<>>)
         /\ Way(r, w, <<>>)
         /\ Len(f) = TotalLength(r, w)
         /\ Holds(f, Start(r, w), Packet(r))
<1> DEFINE h == LinkHeader(r)
           p == Packet(r)
           f == h \o p
           ip == Start(r, w)
<1>1. /\ h \in Seq(Nat) /\ Len(h) = LinkLength(r)
      /\ r.link = EN10MB => Holds(h, 12, Word(Type(r)))
      /\ r.link = LINUX_SLL => Holds(h, 14, Word(Type(r)))
  BY LinkHeaderIs
<1>2. /\ p \in Seq(Nat) /\ Len(p) = HeaderLength(r) + 8 + N(r)
      /\ IpPart(p, 0, r, 0, UDP)
      /\ Holds(p, HeaderLength(r), UdpSegment(r))
      /\ UdpSegment(r) \in Seq(Nat) /\ Len(UdpSegment(r)) = 8 + N(r)
      /\ N(r) \in Nat
  BY PacketIs, RequestIs
<1> HIDE DEF h, p
<1>3. f \in Seq(Nat) /\ Len(f) = Len(h) + Len(p) /\ Holds(f, Len(h), p)
  BY <1>1, <1>2, Joined
<1> HIDE DEF f
<1>4. HeaderLength(r) \in Nat /\ LinkLength(r) \in Nat
  BY HeaderLengthIs
<1>5. ip = LinkLength(r) /\ UdpStart(r, w) = ip + HeaderLength(r) /\ ip \in Nat
  BY <1>4 DEF Start, UdpStart
<1> HIDE DEF ip
<1>6. Holds(f, ip, p)
  BY <1>1, <1>3, <1>5
<1>7. HeaderAt(<<>>, 1) = UDP
  BY DEF HeaderAt
<1>8. Lay(f, ip, Fields(r, w.inner, HeaderAt(<<>>, 1)))
  <2>1. HeaderLength(r) =< Len(p) /\ 0 \in Nat
    BY <1>2, <1>4
  <2>2. IpPart(f, ip, r, 0, UDP)
    BY <1>2, <1>3, <1>5, <1>6, <2>1, UdpIs, IpPartWithin
  <2> QED BY <1>7, <2>2, Zenon DEF IpPart, Lay
<1>9. Holds(f, ip + HeaderLength(r), Extensions(<<>>))
  <2>1. Extensions(<<>>) = <<>>
    BY DEF Extensions
  <2>2. \A i \in Nat : ~(1 =< i /\ i =< Len(<<>>))
    OBVIOUS
  <2> QED BY <2>1, <2>2, Zenon DEF Holds
<1>10. Holds(f, UdpStart(r, w), UdpSegment(r))
  <2>1. HeaderLength(r) + Len(UdpSegment(r)) =< Len(p)
    BY <1>2, <1>4
  <2>2. Holds(f, ip + HeaderLength(r), UdpSegment(r))
    BY <1>2, <1>3, <1>4, <1>5, <1>6, <2>1, HoldsPart
  <2> QED BY <1>5, <2>2
<1>11. Lay(f, 0, LinkPieces(r, w))
  <2>1. ASSUME NEW k \in Nat, Holds(h, k, Word(Type(r))), k + 2 =< Len(h)
        PROVE  Holds(f, 0 + k, Word(Type(r)))
    <3>1. Word(Type(r)) \in Seq(Nat) /\ Len(Word(Type(r))) = 2 /\ 0 + k = k
      BY TypeIs
    <3>2. Holds(f, k, Word(Type(r)))
      BY <1>1, <1>2, <2>1, <3>1, HoldsInFront DEF f
    <3> QED BY <3>1, <3>2
  <2>2. CASE r.link = EN10MB
    <3>1. LinkPieces(r, w) = {<<12, Word(Type(r))>>}
      <4>1. Tags(0) = {}
        BY DEF Tags
      <4>2. 12 + (4 * 0) = 12
        OBVIOUS
      <4> QED BY <2>2, <4>1, <4>2 DEF LinkPieces
    <3>2. Len(h) = 14
      BY <1>1, <2>2 DEF LinkLength
    <3>3. Holds(f, 0 + 12, Word(Type(r)))
      BY <1>1, <2>1, <2>2, <3>2
    <3>4. \A q \in LinkPieces(r, w) : q[1] = 12 /\ q[2] = Word(Type(r))
      BY <3>1
    <3> QED BY <3>3, <3>4, Zenon DEF Lay
  <2>3. CASE r.link = LINUX_SLL
    <3>1. LinkPieces(r, w) = {<<14, Word(Type(r))>>}
      BY <2>3 DEF LinkPieces, EN10MB, LINUX_SLL
    <3>2. Len(h) = 16
      BY <1>1, <2>3 DEF LinkLength, EN10MB, LINUX_SLL
    <3>3. Holds(f, 0 + 14, Word(Type(r)))
      BY <1>1, <2>1, <2>3, <3>2
    <3>4. \A q \in LinkPieces(r, w) : q[1] = 14 /\ q[2] = Word(Type(r))
      BY <3>1
    <3> QED BY <3>3, <3>4, Zenon DEF Lay
  <2>4. CASE r.link # EN10MB /\ r.link # LINUX_SLL
    BY <2>4 DEF LinkPieces, Lay
  <2> QED BY <2>2, <2>3, <2>4
<1>12. Len(f) = TotalLength(r, w)
  BY <1>1, <1>2, <1>3, <1>4, <1>5 DEF TotalLength
<1>13. Way(r, w, <<>>)
  <2>1. Extensions(<<>>) = <<>> /\ Len(<<>>) = 0 /\ DOMAIN <<>> = {} /\ 4 * 0 = 0
    BY DEF Extensions
  <2>2. w.headers \in {0, 1} /\ 0 \in Nat
    OBVIOUS
  <2> QED BY <2>1, <2>2, Zenon DEF Way
<1>14. Layout(f, r, w, <<>>)
  BY <1>3, <1>8, <1>9, <1>10, <1>11, Zenon DEF Layout, ip
<1> QED BY <1>6, <1>12, <1>13, <1>14, Zenon DEF f, h, p, ip

----------------------------------------------------------------------------
(* Extension headers.                                                        *)
ExtensionLength(chain, i) ==
  IF chain[i].header = FRAGMENT THEN 8 ELSE 8 * (chain[i].units + 1)

(* The types and lengths in a chain are bytes, and no type is that of UDP.   *)
LEMMA HeaderIs ==
  ASSUME NEW chain \in Chain \cup {<<>>}
  PROVE  /\ Len(chain) \in Nat /\ DOMAIN chain = 1 .. Len(chain)
         /\ \A i \in DOMAIN chain : /\ chain[i].header \in Nat
                                    /\ chain[i].header # UDP
                                    /\ chain[i].units \in Nat
         /\ \A i \in Nat : 1 =< i => HeaderAt(chain, i) \in Nat
<1>1. chain \in Seq([header: Byte \ {UDP}, units: Byte])
  <2>1. <<>> \in Seq([header: Byte \ {UDP}, units: Byte])
    OBVIOUS
  <2> QED BY <2>1, UdpFrameAssumption, Zenon
<1>2. Len(chain) \in Nat /\ DOMAIN chain = 1 .. Len(chain)
  BY <1>1
<1>3. \A i \in DOMAIN chain : chain[i] \in [header: Byte \ {UDP}, units: Byte]
  <2> DEFINE S == [header: Byte \ {UDP}, units: Byte]
  <2>1. chain \in Seq(S)
    BY <1>1
  <2> HIDE DEF S
  <2>2. \A i \in DOMAIN chain : chain[i] \in S
    BY <2>1
  <2> QED BY <2>2 DEF S
<1>4. Byte \subseteq Nat
  BY DEF Byte
<1>5. \A i \in DOMAIN chain : /\ chain[i].header \in Nat
                              /\ chain[i].header # UDP
                              /\ chain[i].units \in Nat
  BY <1>3, <1>4
<1>6. ASSUME NEW i \in Nat, 1 =< i
      PROVE  HeaderAt(chain, i) \in Nat
  <2>1. CASE i =< Len(chain)
    <3>1. i \in DOMAIN chain
      BY <1>2, <1>6, <2>1
    <3> QED BY <1>5, <2>1, <3>1, Zenon DEF HeaderAt
  <2>2. CASE ~(i =< Len(chain))
    BY <2>2, UdpIs, Zenon DEF HeaderAt
  <2> QED BY <2>1, <2>2
<1> QED BY <1>2, <1>5, <1>6

(* An extension header begins with the type of the next one and its own      *)
(* length.                                                                   *)
LEMMA HeaderBytesAre ==
  ASSUME NEW chain \in Chain \cup {<<>>}, NEW i \in DOMAIN chain
  PROVE  LET h == HeaderBytesOf(chain, i) IN
         /\ h \in Seq(Nat)
         /\ Len(h) = ExtensionLength(chain, i)
         /\ Len(h) \in Nat /\ 8 =< Len(h)
         /\ Holds(h, 0, <<HeaderAt(chain, i + 1)>>)
         /\ Holds(h, 1, <<chain[i].units>>)
<1> DEFINE u == chain[i].units
           next == HeaderAt(chain, i + 1)
           x == <<next, u>>
           e == IF chain[i].header = FRAGMENT THEN <<0, 1>> \o Zeros(4)
                ELSE Zeros(6 + (8 * u))
           h == x \o e
<1>1. i \in 1 .. Len(chain) /\ Len(chain) \in Nat /\ u \in Nat
  BY HeaderIs
<1>2. next \in Nat
  <2>1. i + 1 \in Nat /\ 1 =< i + 1
    BY <1>1
  <2> QED BY <2>1, HeaderIs, Zenon
<1>3. HeaderBytesOf(chain, i) = h
  <2>1. i = Len(chain) <=> ~(i + 1 =< Len(chain))
    BY <1>1
  <2> QED BY <2>1, Zenon DEF HeaderBytesOf, HeaderAt
<1>4. ASSUME NEW n \in Nat PROVE Zeros(n) \in Seq(Nat) /\ Len(Zeros(n)) = n
  BY DEF Zeros
<1> HIDE DEF u, next
<1>5. x \in Seq(Nat) /\ Len(x) = 2 /\ x[1] = next /\ x[2] = u
  BY <1>1, <1>2
<1>6. /\ e \in Seq(Nat)
      /\ Len(e) = ExtensionLength(chain, i) - 2
      /\ ExtensionLength(chain, i) \in Nat
      /\ 8 =< ExtensionLength(chain, i)
  <2>1. CASE chain[i].header = FRAGMENT
    <3>1. Zeros(4) \in Seq(Nat) /\ Len(Zeros(4)) = 4
      BY <1>4
    <3>2. <<0, 1>> \in Seq(Nat) /\ Len(<<0, 1>>) = 2
      OBVIOUS
    <3> DEFINE a == <<0, 1>>
               b == Zeros(4)
    <3>3. e = a \o b
      BY <2>1, Zenon
    <3> HIDE DEF a, b, e
    <3>4. a \o b \in Seq(Nat) /\ Len(a \o b) = Len(a) + Len(b)
      BY <3>1, <3>2, Joined DEF a, b
    <3>5. Len(e) = 6 /\ e \in Seq(Nat)
      <4>1. Len(a) = 2 /\ Len(b) = 4
        BY <3>1, <3>2 DEF a, b
      <4> QED BY <3>3, <3>4, <4>1
    <3>6. ExtensionLength(chain, i) = 8
      BY <2>1, Zenon DEF ExtensionLength
    <3> QED BY <3>5, <3>6
  <2>2. CASE chain[i].header # FRAGMENT
    <3>1. e = Zeros(6 + (8 * u))
      BY <2>2, Zenon
    <3>2. 6 + (8 * u) \in Nat
      BY <1>1
    <3>3. e \in Seq(Nat) /\ Len(e) = 6 + (8 * u)
      BY <1>4, <3>1, <3>2
    <3>4. ExtensionLength(chain, i) = 8 * (u + 1)
      BY <2>2, Zenon DEF ExtensionLength, u
    <3> HIDE DEF e
    <3> QED BY <1>1, <3>3, <3>4
  <2> QED BY <2>1, <2>2
<1> HIDE DEF x, e
<1>7. h \in Seq(Nat) /\ Len(h) = Len(x) + Len(e) /\ Holds(h, 0, x)
  BY <1>5, <1>6, Joined
<1> HIDE DEF h
<1>8. Len(h) = ExtensionLength(chain, i)
  BY <1>5, <1>6, <1>7
<1>9. h[1] = next /\ h[2] = u
  <2>1. 1 =< Len(h) /\ 2 =< Len(h)
    BY <1>6, <1>8
  <2> QED BY <1>5, <1>7, <2>1 DEF Holds
<1>10. Holds(h, 0, <<next>>) /\ Holds(h, 1, <<u>>)
  <2>1. \A y \in Nat : Len(<<y>>) = 1 /\ <<y>>[1] = y
    OBVIOUS
  <2>2. \A j \in Nat : 1 =< j /\ j =< 1 => j = 1
    OBVIOUS
  <2>3. 0 + 1 = 1 /\ 1 + 1 = 2
    OBVIOUS
  <2>4. Holds(h, 0, <<next>>)
    BY <1>2, <1>9, <2>1, <2>2, <2>3, Zenon DEF Holds
  <2>5. Holds(h, 1, <<u>>)
    BY <1>1, <1>9, <2>1, <2>2, <2>3, Zenon DEF Holds
  <2> QED BY <2>4, <2>5
<1>11. Len(h) \in Nat /\ 8 =< Len(h)
  BY <1>6, <1>8, Zenon
<1> QED BY <1>3, <1>7, <1>8, <1>10, <1>11, Zenon DEF u, next

(* The chain is the bytes of its headers behind each other.                  *)
LEMMA ExtensionsAre ==
  ASSUME NEW chain \in Chain \cup {<<>>}
  PROVE  /\ Extensions(chain) \in Seq(Nat)
         /\ Len(Extensions(chain)) \in Nat
         /\ chain # <<>> => \E off : Offsets(Parts(chain), off)
<1>1. CASE chain = <<>>
  <2>1. Extensions(chain) = <<>>
    BY <1>1 DEF Extensions
  <2>2. <<>> \in Seq(Nat) /\ Len(<<>>) \in Nat
    OBVIOUS
  <2> QED BY <1>1, <2>1, <2>2
<1>2. CASE chain # <<>>
  <2> DEFINE m == Len(chain)
  <2>1. m \in Nat /\ DOMAIN chain = 1 .. m /\ m # 0
    <3>1. chain \in Seq([header: Byte \ {UDP}, units: Byte])
      BY <1>2, UdpFrameAssumption, Zenon
    <3>2. chain # <<>> => Len(chain) # 0
      BY <3>1
    <3> QED BY <1>2, <3>2, HeaderIs
  <2> HIDE DEF m
  <2>2. Parts(chain) \in [1 .. m -> Seq(Nat)]
    <3>1. \A i \in 1 .. m : HeaderBytesOf(chain, i) \in Seq(Nat)
      BY <2>1, HeaderBytesAre
    <3> QED BY <2>1, <3>1, Zenon DEF Parts
  <2>3. FlattenSeq(Parts(chain)) \in Seq(Nat) /\ \E off : Offsets(Parts(chain), off)
    BY <2>1, <2>2, Flattened
  <2>4. Extensions(chain) = FlattenSeq(Parts(chain))
    BY <1>2, Zenon DEF Extensions
  <2>5. Len(Extensions(chain)) \in Nat /\ Extensions(chain) \in Seq(Nat)
    <3> DEFINE e == Extensions(chain)
    <3>1. e \in Seq(Nat)
      BY <2>3, <2>4
    <3> HIDE DEF e
    <3>2. Len(e) \in Nat
      BY <3>1
    <3> QED BY <3>1, <3>2 DEF e
  <2> QED BY <2>3, <2>5
<1> QED BY <1>1, <1>2

----------------------------------------------------------------------------
(* What networks do to a frame.                                              *)
LEMMA WayIs ==
  ASSUME NEW r, Accepted(r), NEW w, NEW chain, Way(r, w, chain)
  PROVE  /\ Start(r, w) \in Nat /\ HeaderLength(r) \in Nat
         /\ w.inner \in Nat /\ N(r) \in Nat /\ UdpStart(r, w) \in Nat
         /\ UdpStart(r, w) = (Start(r, w) + HeaderLength(r)) + w.inner
         /\ TotalLength(r, w) = (UdpStart(r, w) + 8) + N(r)
         /\ HeaderAt(chain, 1) \in Nat
         /\ Extensions(chain) \in Seq(Nat)
         /\ Len(Extensions(chain)) \in Nat /\ Len(Extensions(chain)) =< w.inner
         /\ UdpSegment(r) \in Seq(Nat) /\ Len(UdpSegment(r)) = 8 + N(r)
         /\ Pieces(LinkPieces(r, w), Start(r, w))
         /\ Pieces(Fields(r, w.inner, HeaderAt(chain, 1)), HeaderLength(r))
<1>1. w.tags \in Nat /\ w.inner \in Nat /\ chain \in Chain \cup {<<>>}
  BY Zenon DEF Way
<1>2. Start(r, w) \in Nat /\ HeaderLength(r) \in Nat
  BY <1>1, StartIs, HeaderLengthIs
<1>3. N(r) \in Nat /\ UdpSegment(r) \in Seq(Nat) /\ Len(UdpSegment(r)) = 8 + N(r)
  BY PacketIs, RequestIs
<1>4. HeaderAt(chain, 1) \in Nat
  <2>1. 1 \in Nat /\ 1 =< 1
    OBVIOUS
  <2> QED BY <1>1, <2>1, HeaderIs, Zenon
<1>5. Extensions(chain) \in Seq(Nat) /\ Len(Extensions(chain)) \in Nat
  BY <1>1, ExtensionsAre
<1>6. Len(Extensions(chain)) =< w.inner
  <2>1. CASE V4(r)
    <3>1. chain = <<>>
      BY <2>1, Zenon DEF Way
    <3>2. Extensions(chain) = <<>>
      BY <3>1, Zenon DEF Extensions
    <3>3. Len(Extensions(chain)) = 0
      BY <3>2
    <3> QED BY <1>1, <3>3
  <2>2. CASE ~V4(r)
    <3>1. w.inner = Len(Extensions(chain))
      BY <2>2, Zenon DEF Way
    <3> QED BY <1>5, <3>1
  <2> QED BY <2>1, <2>2
<1>7. Pieces(LinkPieces(r, w), Start(r, w))
  BY <1>1, LinkPiecesAre
<1>8. Pieces(Fields(r, w.inner, HeaderAt(chain, 1)), HeaderLength(r))
  BY <1>1, <1>4, FieldsAre, Zenon DEF Pieces
<1>9. /\ UdpStart(r, w) \in Nat
      /\ UdpStart(r, w) = (Start(r, w) + HeaderLength(r)) + w.inner
      /\ TotalLength(r, w) = (UdpStart(r, w) + 8) + N(r)
  BY <1>1, <1>2, <1>3 DEF UdpStart, TotalLength
<1> QED BY <1>1, <1>2, <1>3, <1>4, <1>5, <1>6, <1>7, <1>8, <1>9

(* Padding and a cut.                                                        *)
LEMMA CapturedLayout ==
  ASSUME NEW r, Accepted(r), NEW w, NEW chain, Way(r, w, chain),
         NEW f, Layout(f, r, w, chain), Len(f) = TotalLength(r, w),
         NEW filler \in Nat, NEW n \in Nat, n =< Len(f) + filler
  PROVE  LET g == SubSeq(f \o Zeros(filler), 1, n) IN
         Layout(g, r, w, chain) /\ Len(g) = n
<1> DEFINE z == Zeros(filler)
           h == f \o z
           g == SubSeq(h, 1, n)
           ip == Start(r, w)
           e == Extensions(chain)
           s == UdpSegment(r)
           L == LinkPieces(r, w)
           F == Fields(r, w.inner, HeaderAt(chain, 1))
           hl == HeaderLength(r)
           u == UdpStart(r, w)
<1>1. z \in Seq(Nat) /\ Len(z) = filler
  BY DEF Zeros
<1>2. /\ f \in Seq(Nat)
      /\ Lay(f, 0, L)
      /\ Lay(f, ip, F)
      /\ Holds(f, ip + hl, e)
      /\ Holds(f, u, s)
  BY Zenon DEF Layout
<1>3. /\ ip \in Nat /\ hl \in Nat /\ u \in Nat
      /\ w.inner \in Nat /\ N(r) \in Nat
      /\ u = (ip + hl) + w.inner
      /\ Len(f) = (u + 8) + N(r)
      /\ e \in Seq(Nat) /\ Len(e) \in Nat /\ Len(e) =< w.inner
      /\ s \in Seq(Nat) /\ Len(s) = 8 + N(r)
      /\ Pieces(L, ip) /\ Pieces(F, hl)
  BY WayIs
<1> HIDE DEF z, ip, e, s, L, F, hl, u
<1>4. /\ 0 + ip =< Len(f) /\ ip + hl =< Len(f)
      /\ (ip + hl) + Len(e) =< Len(f) /\ u + Len(s) =< Len(f)
      /\ ip + hl \in Nat /\ 0 \in Nat
  <2> DEFINE le == Len(e)
             lf == Len(f)
             ls == Len(s)
             p == N(r)
             i == w.inner
  <2>1. /\ ip \in Nat /\ hl \in Nat /\ u \in Nat /\ i \in Nat /\ p \in Nat
        /\ u = (ip + hl) + i /\ lf = (u + 8) + p
        /\ le \in Nat /\ le =< i /\ ls = 8 + p
    BY <1>3, Zenon
  <2> HIDE DEF le, lf, ls, p, i
  <2>2. /\ 0 + ip =< lf /\ ip + hl =< lf
        /\ (ip + hl) + le =< lf /\ u + ls =< lf
        /\ ip + hl \in Nat /\ 0 \in Nat
    BY <2>1
  <2> QED BY <2>2 DEF le, lf, ls
<1>5. h \in Seq(Nat) /\ Len(h) = Len(f) + filler
  BY <1>1, <1>2, Joined
<1>6. Lay(h, 0, L) /\ Lay(h, ip, F)
  BY <1>1, <1>2, <1>3, <1>4, LayInFront, Zenon
<1>7. Holds(h, ip + hl, e) /\ Holds(h, u, s)
  BY <1>1, <1>2, <1>3, <1>4, HoldsInFront, Zenon
<1> HIDE DEF h
<1>8. n =< Len(h)
  BY <1>5
<1>9. /\ g \in Seq(Nat) /\ Len(g) = n
      /\ Holds(g, ip + hl, e) /\ Holds(g, u, s)
  BY <1>3, <1>4, <1>5, <1>7, <1>8, HoldsCut, Zenon
<1>10. Lay(g, 0, L) /\ Lay(g, ip, F)
  BY <1>3, <1>4, <1>5, <1>6, <1>8, LayCut, Zenon
<1> QED BY <1>9, <1>10, Zenon DEF Layout, h, z, ip, e, s, L, F, hl, u

(* A tag.                                                                    *)
LEMMA TaggedLayout ==
  ASSUME NEW r, Accepted(r), r.link = EN10MB,
         NEW w, NEW v, NEW chain, Way(r, w, chain),
         v.tags = w.tags + 1, v.inner = w.inner, v.headers = w.headers,
         v.known = w.known,
         NEW f, Layout(f, r, w, chain), Len(f) = TotalLength(r, w)
  PROVE  LET g == Put(f, 12, Word(VLAN) \o <<0, 5>>) IN
         /\ Layout(g, r, v, chain)
         /\ Way(r, v, chain)
         /\ Len(g) = TotalLength(r, v)
         /\ Holds(f, Start(r, w), Packet(r)) => Holds(g, Start(r, v), Packet(r))
<1> DEFINE x == Word(VLAN)
           y == <<0, 5>>
           b == x \o y
           g == Put(f, 12, b)
           t == Word(Type(r))
           n == w.tags
           ip == Start(r, w)
           e == Extensions(chain)
           s == UdpSegment(r)
           L == LinkPieces(r, w)
           F == Fields(r, w.inner, HeaderAt(chain, 1))
           hl == HeaderLength(r)
           u == UdpStart(r, w)
           lf == Len(f)
           le == Len(e)
           i == w.inner
           p == N(r)
<1>1. n \in Nat /\ v.tags = n + 1 /\ Way(r, v, chain)
  <2>1. w.tags \in Nat
    BY Zenon DEF Way
  <2>2. v.tags \in Nat
    BY <2>1
  <2> QED BY <2>1, <2>2, Zenon DEF Way
<1>2. /\ f \in Seq(Nat)
      /\ Lay(f, 0, L)
      /\ Lay(f, ip, F)
      /\ Holds(f, ip + hl, e)
      /\ Holds(f, u, s)
  BY Zenon DEF Layout
<1>3. /\ ip \in Nat /\ hl \in Nat /\ u \in Nat /\ i \in Nat /\ p \in Nat
      /\ u = (ip + hl) + i
      /\ lf = (u + 8) + p
      /\ e \in Seq(Nat) /\ s \in Seq(Nat)
      /\ Pieces(L, ip) /\ Pieces(F, hl)
  BY WayIs
<1>4. ip = 14 + (4 * n)
  BY DEF Start, LinkLength
<1>5. Start(r, v) = ip + 4
  <2>1. Start(r, v) = 14 + (4 * (n + 1))
    BY <1>1 DEF Start, LinkLength
  <2> HIDE DEF n, ip
  <2> QED BY <1>1, <1>4, <2>1
<1>6. x \in Seq(Nat) /\ Len(x) = 2 /\ t \in Seq(Nat) /\ Len(t) = 2
  BY TypeIs
<1>7. y \in Seq(Nat) /\ Len(y) = 2
  OBVIOUS
<1>8. UdpStart(r, v) = u + 4
  <2>1. UdpStart(r, v) = (Start(r, v) + hl) + i
    BY DEF UdpStart
  <2> DEFINE start == Start(r, v)
  <2>2. start = ip + 4 /\ UdpStart(r, v) = (start + hl) + i
    BY <1>5, <2>1
  <2>3. ip \in Nat /\ hl \in Nat /\ i \in Nat /\ u = (ip + hl) + i
    BY <1>3
  <2> HIDE DEF u, ip, hl, i, start
  <2> QED BY <2>2, <2>3
<1>9. TotalLength(r, v) = lf + 4
  <2>1. TotalLength(r, v) = (UdpStart(r, v) + 8) + p
    BY DEF TotalLength
  <2> HIDE DEF u, ip, hl, i, lf, p
  <2> QED BY <1>3, <1>8, <2>1
<1>10. L = Tags(n) \cup {<<12 + (4 * n), t>>}
  BY Zenon DEF LinkPieces
<1>11. LinkPieces(r, v) = Tags(n + 1) \cup {<<12 + (4 * (n + 1)), t>>}
  BY <1>1, Zenon DEF LinkPieces
<1>12. Fields(r, v.inner, HeaderAt(chain, 1)) = F
  BY Zenon
<1> HIDE DEF x, y, t, n, ip, e, s, L, F, hl, u, lf, i, p
<1>13. b \in Seq(Nat) /\ Len(b) = 4 /\ Holds(b, 0, x)
  <2>1. b \in Seq(Nat) /\ Len(b) = Len(x) + Len(y) /\ Holds(b, 0, x)
    BY <1>6, <1>7, Joined, Zenon
  <2> HIDE DEF b
  <2> QED BY <1>6, <1>7, <2>1
<1> HIDE DEF b
<1>14. 12 =< Len(f) /\ 12 =< ip /\ 12 \in Nat /\ 12 =< ip + hl /\ 12 =< u /\ ip + hl \in Nat
  <2>1. 12 =< lf
    BY <1>1, <1>3, <1>4
  <2> QED BY <1>1, <1>3, <1>4, <2>1 DEF lf
<1>15. g \in Seq(Nat) /\ Len(g) = lf + 4 /\ Holds(g, 12, b)
  <2>1. g \in Seq(Nat) /\ Len(g) = Len(f) + Len(b) /\ Holds(g, 12, b)
    <3>1. f \in Seq(Nat) /\ b \in Seq(Nat) /\ 12 \in Nat /\ 12 =< Len(f)
      BY <1>2, <1>13, <1>14, Zenon
    <3> DEFINE l == 12
    <3>2. l \in Nat /\ l =< Len(f)
      BY <3>1
    <3> HIDE DEF l
    <3>3. /\ Put(f, l, b) \in Seq(Nat)
          /\ Len(Put(f, l, b)) = Len(f) + Len(b)
          /\ Holds(Put(f, l, b), l, b)
      BY <3>1, <3>2, PutIs
    <3> QED BY <3>3 DEF l
  <2> HIDE DEF g
  <2> QED BY <1>13, <2>1 DEF lf
<1>16. ASSUME NEW k \in Nat, NEW z \in Seq(Nat), Holds(f, k, z), 12 =< k
       PROVE  Holds(g, k + 4, z)
  <2>1. Holds(g, k + Len(b), z)
    BY <1>2, <1>13, <1>14, <1>16, PutInFront
  <2> QED BY <1>13, <2>1
<1>17. Lay(g, ip + 4, F)
  <2>1. Lay(g, ip + Len(b), F)
    BY <1>2, <1>3, <1>13, <1>14, LayPutInFront
  <2> QED BY <1>13, <2>1
<1> HIDE DEF g
<1>18. Holds(g, (ip + 4) + hl, e) /\ Holds(g, u + 4, s)
  <2>1. Holds(g, (ip + hl) + 4, e) /\ Holds(g, u + 4, s)
    BY <1>2, <1>3, <1>14, <1>16
  <2>2. (ip + hl) + 4 = (ip + 4) + hl
    BY <1>3
  <2> QED BY <2>1, <2>2, Zenon
<1>19. Lay(g, 0, LinkPieces(r, v))
  <2> SUFFICES ASSUME NEW q \in LinkPieces(r, v)
               PROVE  Holds(g, 0 + q[1], q[2])
    BY DEF Lay
  <2> DEFINE k == q[1]
             z == q[2]
  <2>1. \/ \E j \in Nat : j < n + 1 /\ k = 12 + (4 * j) /\ z = x
        \/ k = 12 + (4 * (n + 1)) /\ z = t
    BY <1>11 DEF Tags, x
  <2> HIDE DEF k, z
  <2>2. ASSUME NEW j \in Nat, NEW a \in Seq(Nat), <<12 + (4 * j), a>> \in L
        PROVE  Holds(g, 12 + (4 * (j + 1)), a)
    <3>1. Holds(f, 0 + (12 + (4 * j)), a)
      <4> DEFINE qq == <<12 + (4 * j), a>>
      <4>1. qq[1] = 12 + (4 * j) /\ qq[2] = a /\ qq \in L
        BY <2>2
      <4> HIDE DEF qq
      <4>2. Holds(f, 0 + qq[1], qq[2])
        BY <1>2, <4>1, Zenon DEF Lay
      <4> QED BY <4>1, <4>2
    <3>2. 0 + (12 + (4 * j)) = 12 + (4 * j) /\ 12 + (4 * j) \in Nat /\ 12 =< 12 + (4 * j)
          /\ (12 + (4 * j)) + 4 = 12 + (4 * (j + 1))
      OBVIOUS
    <3> DEFINE c == 12 + (4 * j)
    <3>3. c \in Nat /\ 12 =< c /\ c + 4 = 12 + (4 * (j + 1)) /\ Holds(f, c, a)
      BY <3>1, <3>2
    <3> HIDE DEF c
    <3>4. Holds(g, c + 4, a)
      BY <1>16, <3>3
    <3> QED BY <3>3, <3>4
  <2>3. CASE k = 12 + (4 * (n + 1)) /\ z = t
    <3>1. <<12 + (4 * n), t>> \in L
      BY <1>10
    <3>2. Holds(g, 12 + (4 * (n + 1)), t)
      BY <1>1, <1>6, <2>2, <3>1
    <3>3. 0 + k = 12 + (4 * (n + 1))
      BY <1>1, <2>3
    <3>4. Holds(g, 0 + k, z)
      BY <2>3, <3>2, <3>3, Zenon
    <3> QED BY <3>4 DEF k, z
  <2>4. CASE \E j \in Nat : j < n + 1 /\ k = 12 + (4 * j) /\ z = x
    <3>1. PICK j \in Nat : j < n + 1 /\ k = 12 + (4 * j) /\ z = x
      BY <2>4
    <3>2. CASE j = 0
      <4>1. Holds(g, 12 + 0, x)
        <5>1. 0 + Len(x) =< Len(b) /\ 12 \in Nat /\ 0 \in Nat
          BY <1>6, <1>13
        <5> QED BY <1>6, <1>13, <1>15, <5>1, HoldsPart
      <4>2. 0 + k = 12 + 0
        BY <3>1, <3>2
      <4>3. Holds(g, 0 + k, z)
        BY <3>1, <4>1, <4>2, Zenon
      <4> QED BY <4>3 DEF k, z
    <3>3. CASE j # 0
      <4>1. PICK h \in Nat : h = j - 1 /\ j = h + 1
        BY <3>3
      <4>2. <<12 + (4 * h), x>> \in L
        <5>1. h < n
          BY <1>1, <3>1, <4>1
        <5>2. <<12 + (4 * h), x>> \in Tags(n)
          BY <5>1 DEF Tags, x
        <5> QED BY <1>10, <5>2, Zenon
      <4>3. Holds(g, 12 + (4 * (h + 1)), x)
        BY <1>6, <2>2, <4>2
      <4>4. 0 + k = 12 + (4 * (h + 1))
        BY <3>1, <4>1
      <4>5. Holds(g, 0 + k, z)
        BY <3>1, <4>3, <4>4, Zenon
      <4> QED BY <4>5 DEF k, z
    <3> QED BY <3>2, <3>3
  <2> QED BY <2>1, <2>3, <2>4
<1>20. Holds(f, ip, Packet(r)) => Holds(g, ip + 4, Packet(r))
  <2>1. Packet(r) \in Seq(Nat)
    BY PacketIs
  <2> QED BY <1>3, <1>14, <1>16, <2>1
<1>21. Layout(g, r, v, chain)
  BY <1>5, <1>8, <1>12, <1>15, <1>17, <1>18, <1>19, Zenon DEF Layout, hl, e, s
<1>22. Len(g) = TotalLength(r, v)
  BY <1>9, <1>15, Zenon
<1>23. Holds(f, Start(r, w), Packet(r)) => Holds(g, Start(r, v), Packet(r))
  BY <1>5, <1>20, Zenon DEF ip
<1> QED BY <1>1, <1>21, <1>22, <1>23, Zenon DEF g, b, x, y

(* A byte of the IP header is replaced, and bytes are put behind the header. *)
InsertedIn(h, f, ip, n, k, v, b, s, L, F) ==
  /\ h \in Seq(Nat) /\ Len(h) = Len(f) + Len(b)
  /\ Lay(h, 0, L) /\ Lay(h, ip, F)
  /\ Holds(h, ip + n, b)
  /\ Holds(h, (ip + n) + Len(b), s)
  /\ h[(ip + k) + 1] = v

(* Where everything lies after a field of the IP header was changed and      *)
(* bytes put behind it.                                                      *)
LEMMA InsertedLayout ==
  ASSUME NEW f \in Seq(Nat), NEW ip \in Nat, NEW n \in Nat, NEW k \in Nat, k < n,
         NEW v \in Nat, NEW b \in Seq(Nat), NEW s \in Seq(Nat),
         NEW L, Pieces(L, ip), Lay(f, 0, L),
         NEW F, Pieces(F, n), Lay(f, ip, F),
         \A q \in F : k < q[1] \/ q[1] + Len(q[2]) =< k,
         Holds(f, ip + n, s), ip + n =< Len(f)
  PROVE  LET g == [f EXCEPT ![(ip + k) + 1] = v]
             h == Put(g, ip + n, b)
         IN  InsertedIn(h, f, ip, n, k, v, b, s, L, F)
<1> DEFINE x == (ip + k) + 1
           l == ip + n
           g == [f EXCEPT ![x] = v]
           h == Put(g, l, b)
<1>1. /\ x \in Nat /\ 1 =< x /\ x =< l /\ l \in Nat /\ l =< Len(f) /\ x =< Len(f)
      /\ 0 \in Nat /\ 0 + ip < x /\ 0 + ip =< l
  OBVIOUS
<1>2. g \in Seq(Nat) /\ Len(g) = Len(f) /\ g[x] = v
  <2> HIDE DEF x
  <2> QED BY <1>1, ByteReplaced
<1>3. ASSUME NEW q \in F
      PROVE  x =< ip + q[1] \/ (ip + q[1]) + Len(q[2]) < x
  <2>1. q[1] \in Nat /\ Len(q[2]) \in Nat
    <3>1. q[1] \in Nat /\ q[2] \in Seq(Nat)
      BY DEF Pieces
    <3> QED BY <3>1
  <2>2. k < q[1] \/ q[1] + Len(q[2]) =< k
    OBVIOUS
  <2> DEFINE a == q[1]
             c == Len(q[2])
  <2> HIDE DEF a, c
  <2>3. a \in Nat /\ c \in Nat /\ (k < a \/ a + c =< k)
    BY <2>1, <2>2 DEF a, c
  <2>4. x =< ip + a \/ (ip + a) + c < x
    BY <2>3
  <2> QED BY <2>4 DEF a, c
<1>4. Holds(f, l, s)
  OBVIOUS
<1> HIDE DEF x
<1>5. Lay(g, 0, L)
  BY <1>1, LayReplacedOutside
<1>6. Lay(g, ip, F)
  BY <1>1, <1>3, LayReplaced
<1> HIDE DEF l
<1>7. Holds(g, l, s)
  BY <1>1, <1>4, Replaced
<1> HIDE DEF g
<1>8. l =< Len(g) /\ x =< Len(g) /\ l =< l
  BY <1>1, <1>2
<1>9. /\ h \in Seq(Nat) /\ Len(h) = Len(g) + Len(b)
      /\ Holds(h, l, b)
      /\ \A i \in Nat : 1 =< i /\ i =< l => h[i] = g[i]
  <2>1. g \in Seq(Nat) /\ b \in Seq(Nat) /\ l \in Nat /\ l =< Len(g)
    BY <1>1, <1>2, <1>8, Zenon
  <2>2. h \in Seq(Nat)
    BY <2>1, PutIs, Zenon
  <2>3. Len(h) = Len(g) + Len(b)
    BY <2>1, PutIs, Zenon
  <2>4. Holds(h, l, b)
    BY <2>1, PutIs, Zenon
  <2>5. \A i \in Nat : 1 =< i /\ i =< l => h[i] = g[i]
    BY <2>1, PutIs
  <2> QED BY <2>2, <2>3, <2>4, <2>5
<1>10. Lay(h, 0, L)
  BY <1>1, <1>2, <1>5, <1>8, LayPutBehind, Zenon
<1>11. Lay(h, ip, F)
  <2>1. ip + n =< l
    BY <1>1 DEF l
  <2> QED BY <1>1, <1>2, <1>6, <1>8, <2>1, LayPutBehind, Zenon
<1>12. Holds(h, l + Len(b), s)
  BY <1>1, <1>2, <1>7, <1>8, PutInFront, Zenon
<1>13. h[x] = v
  BY <1>1, <1>2, <1>9, Zenon
<1>14. Len(h) = Len(f) + Len(b)
  BY <1>2, <1>9, Zenon
<1>15. InsertedIn(h, f, ip, n, k, v, b, s, L, F)
  <2> HIDE DEF h
  <2> QED BY <1>9, <1>10, <1>11, <1>12, <1>13, <1>14, Zenon DEF InsertedIn, l, x
<1> QED BY <1>15, Zenon DEF h, g, l, x

(* The word in two bytes of the IP header is replaced.                       *)
ReplacedIn(h, f, ip, n, k, c, d, m, s, L, F) ==
  /\ h \in Seq(Nat) /\ Len(h) = Len(f)
  /\ Lay(h, 0, L) /\ Lay(h, ip, F)
  /\ Holds(h, m, s)
  /\ Holds(h, ip + k, <<c, d>>)
  /\ \A i \in Nat : 1 =< i /\ i =< ip + k => h[i] = f[i]

(* Where everything lies after a word of the IP header was replaced.         *)
LEMMA WordReplacedLayout ==
  ASSUME NEW f \in Seq(Nat), NEW ip \in Nat, NEW n \in Nat, NEW k \in Nat, k + 2 =< n,
         NEW c \in Nat, NEW d \in Nat, NEW s \in Seq(Nat), NEW m \in Nat, ip + n =< m,
         NEW L, Pieces(L, ip), Lay(f, 0, L),
         NEW F, Pieces(F, n), Lay(f, ip, F), \A q \in F : k + 2 =< q[1],
         Holds(f, m, s), ip + n =< Len(f)
  PROVE  LET g == [f EXCEPT ![(ip + k) + 1] = c]
             h == [g EXCEPT ![(ip + k) + 2] = d]
         IN  ReplacedIn(h, f, ip, n, k, c, d, m, s, L, F)
<1> DEFINE y == (ip + k) + 1
           z == (ip + k) + 2
           g == [f EXCEPT ![y] = c]
           h == [g EXCEPT ![z] = d]
<1>1. /\ y \in Nat /\ 1 =< y /\ y =< Len(f) /\ z \in Nat /\ 1 =< z /\ z =< Len(f)
      /\ 0 \in Nat /\ 0 + ip < y /\ 0 + ip < z /\ y # z /\ y =< m /\ z =< m
      /\ \A i \in Nat : i =< ip + k => i =< Len(f) /\ i # y /\ i # z
  OBVIOUS
<1>2. \A q \in F : y =< ip + q[1] /\ z =< ip + q[1]
  <2> SUFFICES ASSUME NEW q \in F
               PROVE  y =< ip + q[1] /\ z =< ip + q[1]
    OBVIOUS
  <2>1. q[1] \in Nat /\ k + 2 =< q[1]
    BY DEF Pieces
  <2> DEFINE a == q[1]
  <2> HIDE DEF a
  <2>2. a \in Nat /\ k + 2 =< a
    BY <2>1 DEF a
  <2>3. y =< ip + a /\ z =< ip + a
    BY <2>2
  <2> QED BY <2>3 DEF a
<1> HIDE DEF y, z
<1>3. /\ g \in Seq(Nat) /\ Len(g) = Len(f) /\ g[y] = c
      /\ \A i \in Nat : 1 =< i /\ i =< Len(f) /\ i # y => g[i] = f[i]
  BY <1>1, ByteReplaced
<1>4. Lay(g, 0, L)
  BY <1>1, LayReplacedOutside
<1>5. Lay(g, ip, F)
  BY <1>1, <1>2, LayReplaced
<1>6. Holds(g, m, s)
  BY <1>1, Replaced
<1> HIDE DEF g
<1>7. z =< Len(g) /\ y =< Len(g)
  BY <1>1, <1>3
<1>8. /\ h \in Seq(Nat) /\ Len(h) = Len(g) /\ h[z] = d
      /\ \A i \in Nat : 1 =< i /\ i =< Len(g) /\ i # z => h[i] = g[i]
  BY <1>1, <1>3, <1>7, ByteReplaced
<1>9. Lay(h, 0, L)
  BY <1>1, <1>3, <1>4, <1>7, LayReplacedOutside
<1>10. Lay(h, ip, F)
  BY <1>1, <1>2, <1>3, <1>5, <1>7, LayReplaced
<1>11. Holds(h, m, s)
  BY <1>1, <1>3, <1>6, <1>7, Replaced
<1> HIDE DEF h
<1>12. h[y] = c
  BY <1>1, <1>3, <1>7, <1>8, Zenon
<1>13. Holds(h, ip + k, <<c, d>>)
  <2> DEFINE t == <<c, d>>
  <2>1. Len(t) = 2 /\ t[1] = c /\ t[2] = d
    OBVIOUS
  <2>2. \A i \in Nat : 1 =< i /\ i =< 2 => i = 1 \/ i = 2
    OBVIOUS
  <2>3. h[(ip + k) + 1] = c /\ h[(ip + k) + 2] = d
    BY <1>8, <1>12 DEF y, z
  <2> HIDE DEF t
  <2>4. Holds(h, ip + k, t)
    <3> SUFFICES ASSUME NEW i \in Nat, 1 =< i, i =< Len(t)
                 PROVE  h[(ip + k) + i] = t[i]
      BY DEF Holds
    <3>1. i = 1 \/ i = 2
      BY <2>1, <2>2
    <3> QED BY <2>1, <2>3, <3>1
  <2> QED BY <2>4 DEF t
<1>14. \A i \in Nat : 1 =< i /\ i =< ip + k => h[i] = f[i]
  BY <1>1, <1>3, <1>8, Zenon
<1>15. Len(h) = Len(f)
  BY <1>3, <1>8, Zenon
<1>16. ReplacedIn(h, f, ip, n, k, c, d, m, s, L, F)
  BY <1>8, <1>9, <1>10, <1>11, <1>13, <1>14, <1>15, Zenon DEF ReplacedIn
<1> QED BY <1>16, Zenon DEF h, g, y, z

(* A frame with all its bytes, and what was put into it.                     *)
Laid(f, r, w, chain) ==
  Layout(f, r, w, chain) /\ Way(r, w, chain) /\ Len(f) = TotalLength(r, w)

(* An IPv4 option of a word.                                                 *)
WithOption(f, ip) ==
  LET total == WordAt(f, ip + 2) + 4
      g == [f EXCEPT ![(ip + 0) + 1] = 70]
      h == Put(g, ip + 20, <<1, 1, 1, 1>>)
      h1 == [h EXCEPT ![(ip + 2) + 1] = total \div 256]
  IN  [h1 EXCEPT ![(ip + 2) + 2] = total % 256]

(* An IPv4 option keeps the layout: longer by a word, with both lengths set. *)
LEMMA OptionLayout ==
  ASSUME NEW r, Accepted(r), V4(r),
         NEW w, NEW v, NEW chain, Way(r, w, chain), w.headers = 0,
         v.tags = w.tags, v.inner = 4, v.headers = 1, v.known,
         NEW f, Layout(f, r, w, chain), Len(f) = TotalLength(r, w)
  PROVE  Laid(WithOption(f, Start(r, w)), r, v, chain)
<1> DEFINE ip == Start(r, w)
           total == WordAt(f, ip + 2) + 4
           b == <<1, 1, 1, 1>>
           g == [f EXCEPT ![(ip + 0) + 1] = 70]
           h == Put(g, ip + 20, b)
           c == total \div 256
           d == total % 256
           h1 == [h EXCEPT ![(ip + 2) + 1] = c]
           h2 == [h1 EXCEPT ![(ip + 2) + 2] = d]
           s == UdpSegment(r)
           L == LinkPieces(r, w)
           F == Fields(r, w.inner, HeaderAt(chain, 1))
           F0 == {<<9, <<UDP>> >>, <<12, r.src>>, <<16, r.dst>>}
           G == Fields(r, v.inner, HeaderAt(chain, 1))
           e == Extensions(chain)
           p == N(r)
           lf == Len(f)
<1>1. chain = <<>> /\ w.inner = 4 * 0 /\ w.tags \in Nat
  BY Zenon DEF Way
<1>2. w.inner = 0 /\ 1 \in {0, 1} /\ 4 = 4 * 1 /\ 4 \in Nat /\ 1 \in Nat
  BY <1>1
<1>3. Way(r, v, chain)
  <2>1. v.tags \in Nat /\ (r.link # EN10MB => v.tags = 0)
    BY Zenon DEF Way
  <2>2. v.inner = 4 * v.headers /\ v.headers \in {0, 1}
    BY <1>2, Zenon
  <2>3. chain \in Chain \cup {<<>>} /\ v.inner \in Nat /\ v.headers \in Nat
    BY <1>2, Zenon DEF Way
  <2> QED BY <1>1, <2>1, <2>2, <2>3, Zenon DEF Way
<1>4. HeaderLength(r) = 20
  BY Zenon DEF HeaderLength
<1>5. /\ f \in Seq(Nat)
      /\ Lay(f, 0, L)
      /\ Lay(f, ip, F)
      /\ Holds(f, UdpStart(r, w), s)
  BY Zenon DEF Layout
<1>6. /\ ip \in Nat /\ p \in Nat
      /\ UdpStart(r, w) = (ip + 20) + 0
      /\ lf = (UdpStart(r, w) + 8) + p
      /\ s \in Seq(Nat)
      /\ Pieces(L, ip) /\ Pieces(F, 20)
  BY <1>2, <1>4, WayIs, ZenonT(40)
<1>7. Start(r, v) = ip /\ LinkPieces(r, v) = L
  BY Zenon DEF Start, LinkPieces
<1>8. UdpStart(r, v) = (ip + 20) + 4
  BY <1>4, <1>7, Zenon DEF UdpStart
<1>9. TotalLength(r, v) = (((ip + 20) + 4) + 8) + p
  BY <1>8, Zenon DEF TotalLength
<1>10. F0 \subseteq F
  BY DEF Fields
<1>11. \A q \in F0 : q[1] = 9 \/ q[1] = 12 \/ q[1] = 16
  OBVIOUS
<1>12. (28 + 4) + p = 32 + p /\ (28 + 0) + p = 28 + p
  <2> HIDE DEF p
  <2> QED BY <1>6
<1>13. <<2, Word(28 + p)>> \in F
  BY <1>2, <1>12 DEF Fields
<1>14. G = {<<0, <<70>> >>, <<2, Word(32 + p)>>} \cup F0
  <2>1. (IF v.inner = 0 THEN 69 ELSE 70) = 70
    OBVIOUS
  <2>2. Word((28 + v.inner) + N(r)) = Word(32 + p)
    BY <1>12, Zenon
  <2> DEFINE X == Word(32 + p)
  <2>3. G = {<<0, <<70>> >>, <<2, X>>, <<9, <<UDP>> >>, <<12, r.src>>, <<16, r.dst>>}
    BY <2>1, <2>2, Zenon DEF Fields
  <2> HIDE DEF X
  <2>4. {<<0, <<70>> >>, <<2, X>>, <<9, <<UDP>> >>, <<12, r.src>>, <<16, r.dst>>}
          = {<<0, <<70>> >>, <<2, X>>} \cup F0
    OBVIOUS
  <2> QED BY <2>3, <2>4, Zenon DEF X
<1>15. e = <<>>
  BY <1>1, Zenon DEF Extensions
<1>16. b \in Seq(Nat) /\ Len(b) = 4
  OBVIOUS
<1> HIDE DEF ip, b, s, L, F, F0, G, e, p, lf
<1>17. Lay(f, ip, F0) /\ Pieces(F0, 20) /\ \A q \in F0 : 9 =< q[1]
  <2>1. Lay(f, ip, F0)
    BY <1>5, <1>10, Zenon DEF Lay
  <2>2. Pieces(F0, 20)
    BY <1>6, <1>10, Zenon DEF Pieces
  <2>3. ASSUME NEW q \in F0
        PROVE  9 =< q[1]
    <3>1. q[1] = 9 \/ q[1] = 12 \/ q[1] = 16
      BY <1>11
    <3> QED BY <3>1
  <2> QED BY <2>1, <2>2, <2>3
<1>18. lf = (ip + 28) + p /\ UdpStart(r, w) = ip + 20
  BY <1>6
<1>19. total = 32 + p
  <2> DEFINE n == 28 + p
             k == ip + 2
  <2>1. n \in Nat /\ k \in Nat /\ k + 2 =< Len(f)
    BY <1>6, <1>18 DEF lf
  <2>2. Holds(f, k, Word(n))
    <3> DEFINE q == <<2, Word(28 + p)>>
    <3>1. q[1] = 2 /\ q[2] = Word(28 + p)
      OBVIOUS
    <3> HIDE DEF q
    <3>2. Holds(f, ip + q[1], q[2])
      BY <1>5, <1>13, Zenon DEF Lay, q
    <3> QED BY <3>1, <3>2, Zenon
  <2> HIDE DEF n, k
  <2>3. WordAt(f, k) = n
    BY <1>5, <2>1, <2>2, WordHeld
  <2>4. WordAt(f, ip + 2) = 28 + p
    BY <2>3, Zenon DEF n, k
  <2> QED BY <1>6, <2>4
<1>20. c \in Nat /\ d \in Nat /\ Word(32 + p) = <<c, d>>
  <2>1. total \in Nat
    BY <1>6, <1>19
  <2> HIDE DEF total
  <2>2. c \in Nat /\ d \in Nat
    BY <2>1
  <2>3. Word(32 + p) = <<c, d>>
    BY <1>19, ZenonT(40) DEF Word
  <2> QED BY <2>2, <2>3
<1> HIDE DEF total, c, d
<1>21. /\ h \in Seq(Nat) /\ Len(h) = Len(f) + Len(b)
       /\ Lay(h, 0, L) /\ Lay(h, ip, F0)
       /\ Holds(h, ip + 20, b)
       /\ Holds(h, (ip + 20) + Len(b), s)
       /\ h[(ip + 0) + 1] = 70
  <2>1. \A q \in F0 : 0 < q[1] \/ q[1] + Len(q[2]) =< 0
    BY <1>11
  <2>2. 0 < 20 /\ 0 \in Nat /\ 20 \in Nat /\ 70 \in Nat
    OBVIOUS
  <2>3. ip + 20 =< Len(f)
    BY <1>6, <1>18 DEF lf
  <2>4. Holds(f, ip + 20, s)
    BY <1>5, <1>18, Zenon
  <2> DEFINE k == 0
             n == 20
             a == 70
  <2>5. /\ k \in Nat /\ n \in Nat /\ a \in Nat /\ k < n
        /\ \A q \in F0 : k < q[1] \/ q[1] + Len(q[2]) =< k
        /\ ip + n =< Len(f) /\ Holds(f, ip + n, s) /\ Pieces(F0, n)
    BY <1>17, <2>1, <2>2, <2>3, <2>4
  <2> DEFINE gg == [f EXCEPT ![(ip + k) + 1] = a]
             hh == Put(gg, ip + n, b)
  <2>6. hh = h
    BY Zenon DEF h, g
  <2> HIDE DEF k, n, a
  <2>7. /\ hh \in Seq(Nat) /\ Len(hh) = Len(f) + Len(b)
        /\ Lay(hh, 0, L) /\ Lay(hh, ip, F0)
        /\ Holds(hh, ip + n, b)
        /\ Holds(hh, (ip + n) + Len(b), s)
        /\ hh[(ip + k) + 1] = a
    <3>1. /\ f \in Seq(Nat) /\ ip \in Nat /\ n \in Nat /\ k \in Nat /\ k < n
          /\ a \in Nat /\ b \in Seq(Nat) /\ s \in Seq(Nat)
          /\ Pieces(L, ip) /\ Lay(f, 0, L) /\ Pieces(F0, n) /\ Lay(f, ip, F0)
          /\ \A q \in F0 : k < q[1] \/ q[1] + Len(q[2]) =< k
          /\ Holds(f, ip + n, s) /\ ip + n =< Len(f)
      BY <1>5, <1>6, <1>16, <1>17, <2>5, Zenon
    <3>2. InsertedIn(hh, f, ip, n, k, a, b, s, L, F0)
      BY <3>1, InsertedLayout, Zenon
    <3> HIDE DEF hh
    <3> QED BY <3>2, Zenon DEF InsertedIn
  <2> HIDE DEF hh
  <2> QED BY <2>6, <2>7, Zenon DEF k, n, a
<1> HIDE DEF g, h
<1>22. /\ h2 \in Seq(Nat) /\ Len(h2) = Len(h)
       /\ Lay(h2, 0, L) /\ Lay(h2, ip, F0)
       /\ Holds(h2, (ip + 20) + Len(b), s)
       /\ Holds(h2, ip + 2, <<c, d>>)
       /\ \A i \in Nat : 1 =< i /\ i =< ip + 2 => h2[i] = h[i]
  <2>1. \A q \in F0 : 2 + 2 =< q[1]
    BY <1>11
  <2>2. 2 + 2 =< 20 /\ 2 \in Nat /\ 20 \in Nat
    OBVIOUS
  <2>3. ip + 20 =< Len(h) /\ (ip + 20) + Len(b) \in Nat /\ ip + 20 =< (ip + 20) + Len(b)
    BY <1>6, <1>16, <1>18, <1>21 DEF lf
  <2> DEFINE k == 2
             n == 20
             m == (ip + 20) + Len(b)
  <2>4. /\ k \in Nat /\ n \in Nat /\ m \in Nat /\ k + 2 =< n /\ ip + n =< m
        /\ \A q \in F0 : k + 2 =< q[1]
        /\ ip + n =< Len(h) /\ Holds(h, m, s) /\ Pieces(F0, n)
    BY <1>17, <1>21, <2>1, <2>2, <2>3
  <2> DEFINE gg == [h EXCEPT ![(ip + k) + 1] = c]
             hh == [gg EXCEPT ![(ip + k) + 2] = d]
  <2>5. hh = h2
    BY Zenon DEF h1, h2
  <2> HIDE DEF k, n, m
  <2>6. /\ hh \in Seq(Nat) /\ Len(hh) = Len(h)
        /\ Lay(hh, 0, L) /\ Lay(hh, ip, F0)
        /\ Holds(hh, m, s)
        /\ Holds(hh, ip + k, <<c, d>>)
        /\ \A i \in Nat : 1 =< i /\ i =< ip + k => hh[i] = h[i]
    <3>1. /\ h \in Seq(Nat) /\ ip \in Nat /\ n \in Nat /\ k \in Nat /\ k + 2 =< n
          /\ c \in Nat /\ d \in Nat /\ s \in Seq(Nat) /\ m \in Nat /\ ip + n =< m
          /\ Pieces(L, ip) /\ Lay(h, 0, L) /\ Pieces(F0, n) /\ Lay(h, ip, F0)
          /\ \A q \in F0 : k + 2 =< q[1]
          /\ Holds(h, m, s) /\ ip + n =< Len(h)
      BY <1>5, <1>6, <1>17, <1>20, <1>21, <2>4, Zenon
    <3>2. ReplacedIn(hh, h, ip, n, k, c, d, m, s, L, F0)
      BY <3>1, WordReplacedLayout, Zenon
    <3> HIDE DEF hh
    <3> QED BY <3>2, Zenon DEF ReplacedIn
  <2> HIDE DEF hh
  <2> QED BY <2>5, <2>6, Zenon DEF k, m
<1> HIDE DEF h1, h2
<1>23. Holds(h2, ip + 0, <<70>>)
  <2> DEFINE t == <<70>>
  <2>1. Len(t) = 1 /\ t[1] = 70
    OBVIOUS
  <2>2. \A i \in Nat : 1 =< i /\ i =< 1 => i = 1
    OBVIOUS
  <2>3. (ip + 0) + 1 \in Nat /\ 1 =< (ip + 0) + 1 /\ (ip + 0) + 1 =< ip + 2
    BY <1>6
  <2>4. h2[(ip + 0) + 1] = 70
    BY <1>21, <1>22, <2>3, Zenon
  <2> HIDE DEF t
  <2>5. Holds(h2, ip + 0, t)
    <3> SUFFICES ASSUME NEW i \in Nat, 1 =< i, i =< Len(t)
                 PROVE  h2[(ip + 0) + i] = t[i]
      BY DEF Holds
    <3>1. i = 1
      BY <2>1, <2>2
    <3> QED BY <2>1, <2>4, <3>1
  <2> QED BY <2>5 DEF t
<1>24. Lay(h2, ip, G)
  <2> SUFFICES ASSUME NEW q \in G
               PROVE  Holds(h2, ip + q[1], q[2])
    BY DEF Lay
  <2> DEFINE X == <<70>>
             Y == <<c, d>>
  <2>1. q \in F0 \/ q = <<0, X>> \/ q = <<2, Y>>
    <3>1. G = {<<0, X>>, <<2, Y>>} \cup F0
      BY <1>14, <1>20, Zenon
    <3> HIDE DEF X, Y
    <3> QED BY <3>1, Zenon
  <2>2. Holds(h2, ip + 0, X) /\ Holds(h2, ip + 2, Y)
    BY <1>22, <1>23, Zenon
  <2> HIDE DEF X, Y
  <2>3. CASE q \in F0
    BY <1>22, <2>3, Zenon DEF Lay
  <2>4. CASE q = <<0, X>>
    <3>1. q[1] = 0 /\ q[2] = X
      BY <2>4
    <3> QED BY <2>2, <3>1, Zenon
  <2>5. CASE q = <<2, Y>>
    <3>1. q[1] = 2 /\ q[2] = Y
      BY <2>5
    <3> QED BY <2>2, <3>1, Zenon
  <2> QED BY <2>1, <2>3, <2>4, <2>5
<1>25. Holds(h2, ip + 20, e)
  <2>1. \A i \in Nat : ~(1 =< i /\ i =< Len(<<>>))
    OBVIOUS
  <2> QED BY <1>15, <2>1, Zenon DEF Holds
<1>26. Layout(h2, r, v, chain)
  <2>1. Holds(h2, UdpStart(r, v), s)
    BY <1>8, <1>16, <1>22, Zenon
  <2> QED BY <1>4, <1>7, <1>22, <1>24, <1>25, <2>1, Zenon DEF Layout, G, e, s
<1>27. Len(h2) = TotalLength(r, v)
  <2>1. Len(h2) = lf + 4
    BY <1>16, <1>21, <1>22, Zenon DEF lf
  <2> QED BY <1>6, <1>9, <1>18, <2>1
<1>28. Laid(h2, r, v, chain)
  BY <1>3, <1>26, <1>27, Zenon DEF Laid
<1> QED BY <1>28, Zenon DEF WithOption, ip, total, b, g, h, c, d, h1, h2

(* A chain of IPv6 extension headers.                                        *)
LEMMA ExtensionsLayout ==
  ASSUME NEW r, Accepted(r), ~V4(r),
         NEW w, Way(r, w, <<>>), NEW v, NEW chain \in Chain, chain # <<>>,
         v.tags = w.tags, v.headers = Len(chain), v.inner = Len(FlattenSeq(Parts(chain))),
         v.known <=> \A i \in DOMAIN chain : chain[i].header \in ExtensionHeader,
         NEW f, Layout(f, r, w, <<>>), Len(f) = TotalLength(r, w)
  PROVE  LET ip == Start(r, w)
             g == [f EXCEPT ![(ip + 6) + 1] = chain[1].header]
             h == Put(g, ip + 40, FlattenSeq(Parts(chain)))
         IN  Laid(h, r, v, chain)
<1> DEFINE ip == Start(r, w)
           b == FlattenSeq(Parts(chain))
           a == chain[1].header
           k == 6
           n == 40
           g == [f EXCEPT ![(ip + k) + 1] = a]
           h == Put(g, ip + n, b)
           s == UdpSegment(r)
           L == LinkPieces(r, w)
           F == Fields(r, w.inner, HeaderAt(<<>>, 1))
           F0 == {<<0, <<96>> >>, <<8, r.src>>, <<24, r.dst>>}
           G == Fields(r, v.inner, HeaderAt(chain, 1))
           p == N(r)
           lf == Len(f)
           lb == Len(b)
<1>1. Extensions(<<>>) = <<>> /\ Extensions(chain) = b
  BY Zenon DEF Extensions
<1>2. w.inner = 0
  <2>1. w.inner = Len(Extensions(<<>>))
    BY Zenon DEF Way
  <2>2. Len(<<>>) = 0
    OBVIOUS
  <2> QED BY <1>1, <2>1, <2>2, Zenon
<1>3. b \in Seq(Nat) /\ lb \in Nat
  BY <1>1, ExtensionsAre, Zenon
<1>4. HeaderAt(chain, 1) = a /\ a \in Nat
  <2>1. Len(chain) \in Nat /\ Len(chain) # 0
    <3>1. chain \in Seq([header: Byte \ {UDP}, units: Byte])
      BY UdpFrameAssumption, Zenon
    <3> QED BY <3>1
  <2>2. 1 \in Nat /\ 1 =< 1 /\ 1 =< Len(chain)
    BY <2>1
  <2>3. HeaderAt(chain, 1) = a
    BY <2>2, Zenon DEF HeaderAt
  <2>4. HeaderAt(chain, 1) \in Nat
    BY <2>2, HeaderIs, Zenon
  <2> QED BY <2>3, <2>4, Zenon
<1>5. Way(r, v, chain)
  <2>1. v.tags \in Nat /\ (r.link # EN10MB => v.tags = 0)
    BY Zenon DEF Way
  <2>2. v.inner = Len(Extensions(chain)) /\ v.inner \in Nat
    BY <1>1, <1>3, Zenon
  <2>3. v.headers \in Nat
    BY HeaderIs, Zenon
  <2> QED BY <2>1, <2>2, <2>3, Zenon DEF Way
<1>6. HeaderLength(r) = n
  BY Zenon DEF HeaderLength
<1>7. /\ f \in Seq(Nat)
      /\ Lay(f, 0, L)
      /\ Lay(f, ip, F)
      /\ Holds(f, UdpStart(r, w), s)
  BY Zenon DEF Layout
<1>8. /\ ip \in Nat /\ p \in Nat
      /\ UdpStart(r, w) = (ip + n) + 0
      /\ lf = (UdpStart(r, w) + 8) + p
      /\ s \in Seq(Nat)
      /\ Pieces(L, ip) /\ Pieces(F, n)
  <2> DEFINE o == <<>>
  <2>1. Way(r, w, o)
    OBVIOUS
  <2> HIDE DEF o
  <2>2. /\ Start(r, w) \in Nat /\ N(r) \in Nat
        /\ UdpStart(r, w) = (Start(r, w) + HeaderLength(r)) + w.inner
        /\ TotalLength(r, w) = (UdpStart(r, w) + 8) + N(r)
        /\ UdpSegment(r) \in Seq(Nat)
        /\ Pieces(LinkPieces(r, w), Start(r, w))
        /\ Pieces(Fields(r, w.inner, HeaderAt(o, 1)), HeaderLength(r))
    BY <2>1, WayIs
  <2> QED BY <1>2, <1>6, <2>2, Zenon DEF o
<1>9. Start(r, v) = ip /\ LinkPieces(r, v) = L
  BY Zenon DEF Start, LinkPieces
<1>10. UdpStart(r, v) = (ip + n) + lb
  BY <1>6, <1>9, Zenon DEF UdpStart
<1>11. TotalLength(r, v) = (((ip + n) + lb) + 8) + p
  BY <1>10, Zenon DEF TotalLength
<1>12. F0 \subseteq F
  BY DEF Fields
<1>13. \A q \in F0 : \/ q[1] = 0 /\ Len(q[2]) = 1
                     \/ q[1] = 8
                     \/ q[1] = 24
  OBVIOUS
<1>14. G = {<<k, <<a>> >>} \cup F0
  <2>1. G = {<<0, <<96>> >>, <<6, <<a>> >>, <<8, r.src>>, <<24, r.dst>>}
    BY <1>4, Zenon DEF Fields
  <2> HIDE DEF a
  <2> QED BY <2>1
<1>15. k \in Nat /\ n \in Nat /\ k < n
  OBVIOUS
<1>16. \A q \in F0 : k < q[1] \/ q[1] + Len(q[2]) =< k
  BY <1>13
<1> HIDE DEF ip, b, a, s, L, F, F0, G, p, lf, lb
<1>17. UdpStart(r, w) = ip + n /\ ip + n =< Len(f) /\ lf = (ip + 48) + p
  BY <1>8 DEF lf
<1>18. TotalLength(r, v) = lf + lb
  BY <1>3, <1>8, <1>11, <1>17
<1> HIDE DEF k, n
<1>19. Lay(f, ip, F0) /\ Pieces(F0, n)
  <2>1. Lay(f, ip, F0)
    BY <1>7, <1>12, Zenon DEF Lay
  <2>2. Pieces(F0, n)
    BY <1>8, <1>12, Zenon DEF Pieces
  <2> QED BY <2>1, <2>2
<1>20. InsertedIn(h, f, ip, n, k, a, b, s, L, F0)
  <2>1. /\ f \in Seq(Nat) /\ ip \in Nat /\ n \in Nat /\ k \in Nat /\ k < n
        /\ a \in Nat /\ b \in Seq(Nat) /\ s \in Seq(Nat)
        /\ Pieces(L, ip) /\ Lay(f, 0, L) /\ Pieces(F0, n) /\ Lay(f, ip, F0)
        /\ \A q \in F0 : k < q[1] \/ q[1] + Len(q[2]) =< k
        /\ Holds(f, ip + n, s) /\ ip + n =< Len(f)
    BY <1>3, <1>4, <1>7, <1>8, <1>15, <1>16, <1>17, <1>19, Zenon
  <2> QED BY <2>1, InsertedLayout, Zenon
<1> HIDE DEF g, h
<1>21. /\ h \in Seq(Nat) /\ Len(h) = Len(f) + Len(b)
       /\ Lay(h, 0, L) /\ Lay(h, ip, F0)
       /\ Holds(h, ip + n, b)
       /\ Holds(h, (ip + n) + Len(b), s)
       /\ h[(ip + k) + 1] = a
  BY <1>20, Zenon DEF InsertedIn
<1>22. Holds(h, ip + k, <<a>>)
  <2> DEFINE t == <<a>>
  <2>1. Len(t) = 1 /\ t[1] = a
    OBVIOUS
  <2>2. \A i \in Nat : 1 =< i /\ i =< 1 => i = 1
    OBVIOUS
  <2> HIDE DEF t
  <2>3. Holds(h, ip + k, t)
    BY <1>21, <2>1, <2>2, Zenon DEF Holds
  <2> QED BY <2>3 DEF t
<1>23. Lay(h, ip, G)
  <2> SUFFICES ASSUME NEW q \in G
               PROVE  Holds(h, ip + q[1], q[2])
    BY DEF Lay
  <2> DEFINE X == <<a>>
  <2>1. q \in F0 \/ q = <<k, X>>
    <3>1. G = {<<k, X>>} \cup F0
      BY <1>14, Zenon
    <3> HIDE DEF X
    <3> QED BY <3>1, Zenon
  <2>2. Holds(h, ip + k, X)
    BY <1>22, Zenon
  <2> HIDE DEF X
  <2>3. CASE q \in F0
    BY <1>21, <2>3, Zenon DEF Lay
  <2>4. CASE q = <<k, X>>
    <3>1. q[1] = k /\ q[2] = X
      BY <2>4
    <3> QED BY <2>2, <3>1, Zenon
  <2> QED BY <2>1, <2>3, <2>4
<1>24. Layout(h, r, v, chain)
  <2>1. Holds(h, UdpStart(r, v), s)
    BY <1>10, <1>21, Zenon DEF lb
  <2>2. Holds(h, ip + n, Extensions(chain))
    BY <1>1, <1>21, Zenon
  <2> QED BY <1>6, <1>9, <1>21, <1>23, <2>1, <2>2, Zenon DEF Layout, G, s
<1>25. Len(h) = TotalLength(r, v)
  BY <1>18, <1>21, Zenon DEF lf, lb
<1>26. Laid(h, r, v, chain)
  BY <1>5, <1>24, <1>25, Zenon DEF Laid
<1> QED BY <1>26, Zenon DEF ip, b, a, k, n, g, h

----------------------------------------------------------------------------
(* What decapsulate_udp reads where the layers lie.                          *)

(* The types in the tags and in front of the packet.                         *)
LEMMA TypeRead ==
  ASSUME NEW r, Accepted(r), NEW w, NEW chain, Way(r, w, chain),
         NEW f, Layout(f, r, w, chain)
  PROVE  /\ r.link = EN10MB =>
              \A j \in Nat : j =< w.tags /\ 14 + (4 * j) =< Len(f) =>
                 WordAt(f, 12 + (4 * j)) = IF j < w.tags THEN VLAN ELSE Type(r)
         /\ r.link = LINUX_SLL /\ 16 =< Len(f) => WordAt(f, 14) = Type(r)
<1>1. f \in Seq(Nat) /\ Lay(f, 0, LinkPieces(r, w)) /\ w.tags \in Nat
  BY Zenon DEF Layout, Way
<1>2. Type(r) \in Nat /\ VLAN \in Nat
  BY TypeIs
<1> DEFINE L == LinkPieces(r, w)
           n == w.tags
           m == Len(f)
<1>3. ASSUME NEW k \in Nat, NEW t \in Nat, <<k, Word(t)>> \in L, k + 2 =< m
      PROVE  WordAt(f, k) = t
  <2> DEFINE q == <<k, Word(t)>>
  <2>1. q[1] = k /\ q[2] = Word(t) /\ q \in L
    BY <1>3
  <2> HIDE DEF q, L
  <2>2. Holds(f, 0 + k, Word(t))
    BY <1>1, <2>1, Zenon DEF Lay, L
  <2>3. 0 + k = k
    OBVIOUS
  <2>4. Holds(f, k, Word(t))
    BY <2>2, <2>3, Zenon
  <2> QED BY <1>1, <1>3, <2>4, WordHeld
<1>4. ASSUME r.link = EN10MB, NEW j \in Nat, j =< n, 14 + (4 * j) =< m
      PROVE  WordAt(f, 12 + (4 * j)) = IF j < n THEN VLAN ELSE Type(r)
  <2>1. L = Tags(n) \cup {<<12 + (4 * n), Word(Type(r))>>}
    BY <1>4, Zenon DEF LinkPieces
  <2> HIDE DEF L, n, m
  <2>2. 12 + (4 * j) \in Nat /\ (12 + (4 * j)) + 2 =< m
    BY <1>4, <1>1 DEF m
  <2>3. CASE j < n
    <3>1. <<12 + (4 * j), Word(VLAN)>> \in Tags(n)
      BY <2>3 DEF Tags
    <3>2. <<12 + (4 * j), Word(VLAN)>> \in L
      BY <2>1, <3>1, Zenon
    <3>3. WordAt(f, 12 + (4 * j)) = VLAN
      BY <1>2, <1>3, <2>2, <3>2
    <3> QED BY <2>3, <3>3
  <2>4. CASE ~(j < n)
    <3>1. j = n
      BY <1>1, <1>4, <2>4 DEF n
    <3>2. <<12 + (4 * j), Word(Type(r))>> \in L
      BY <2>1, <3>1, Zenon
    <3>3. WordAt(f, 12 + (4 * j)) = Type(r)
      BY <1>2, <1>3, <2>2, <3>2
    <3> QED BY <2>4, <3>3, Zenon
  <2> QED BY <2>3, <2>4
<1>5. ASSUME r.link = LINUX_SLL, 16 =< m
      PROVE  WordAt(f, 14) = Type(r)
  <2>1. EN10MB # LINUX_SLL
    BY DEF EN10MB, LINUX_SLL
  <2>2. L = {<<14, Word(Type(r))>>}
    BY <1>5, <2>1, Zenon DEF LinkPieces
  <2> HIDE DEF L, m
  <2>3. <<14, Word(Type(r))>> \in L
    BY <2>2, Zenon
  <2>4. 14 \in Nat /\ 14 + 2 =< m
    BY <1>5, <1>1 DEF m
  <2> QED BY <1>2, <1>3, <2>3, <2>4
<1> QED BY <1>4, <1>5

(* A field of the IP header.                                                 *)
LEMMA FieldRead ==
  ASSUME NEW r, Accepted(r), NEW w, NEW chain, Way(r, w, chain),
         NEW f, Layout(f, r, w, chain),
         NEW k, NEW t, <<k, t>> \in Fields(r, w.inner, HeaderAt(chain, 1)),
         Start(r, w) + HeaderLength(r) =< Len(f)
  PROVE  /\ k \in Nat /\ t \in Seq(Nat)
         /\ Holds(f, Start(r, w) + k, t)
         /\ (Start(r, w) + k) + Len(t) =< Len(f)
         /\ SubSeq(f, (Start(r, w) + k) + 1, (Start(r, w) + k) + Len(t)) = t
<1> DEFINE F == Fields(r, w.inner, HeaderAt(chain, 1))
           q == <<k, t>>
           ip == Start(r, w)
           hl == HeaderLength(r)
<1>1. q[1] = k /\ q[2] = t /\ q \in F
  OBVIOUS
<1>2. /\ ip \in Nat /\ hl \in Nat /\ Pieces(F, hl)
  BY WayIs
<1>3. f \in Seq(Nat) /\ Lay(f, ip, F) /\ ip + hl =< Len(f)
  BY Zenon DEF Layout
<1> HIDE DEF F, q, ip, hl
<1>4. k \in Nat /\ t \in Seq(Nat) /\ k + Len(t) =< hl
  BY <1>1, <1>2, Zenon DEF Pieces
<1>5. Holds(f, ip + k, t)
  BY <1>1, <1>3, Zenon DEF Lay
<1>6. ip + k \in Nat /\ (ip + k) + Len(t) =< Len(f)
  <2> DEFINE a == Len(t)
             b == Len(f)
  <2>1. a \in Nat /\ b \in Nat /\ k + a =< hl /\ ip + hl =< b
    BY <1>3, <1>4
  <2> HIDE DEF a, b
  <2>2. ip + k \in Nat /\ (ip + k) + a =< b
    BY <1>2, <1>4, <2>1
  <2> QED BY <2>2 DEF a, b
<1> DEFINE c == ip + k
<1>7. c \in Nat /\ Holds(f, c, t) /\ c + Len(t) =< Len(f)
  BY <1>5, <1>6, Zenon
<1> HIDE DEF c
<1>8. SubSeq(f, c + 1, c + Len(t)) = t
  BY <1>3, <1>4, <1>7, PartIs
<1> QED BY <1>4, <1>5, <1>6, <1>8, Zenon DEF c, ip

(* The IPv4 header, as DecapIpv4 reads it.                                   *)
LEMMA Ipv4Read ==
  ASSUME NEW r, Accepted(r), V4(r), NEW w, NEW chain, Way(r, w, chain),
         NEW f, Layout(f, r, w, chain), Start(r, w) + 20 =< Len(f)
  PROVE  LET ip == Start(r, w) IN
         /\ f[ip + 0 + 1] \div 16 = 4
         /\ 4 * (f[ip + 0 + 1] % 16) = 20 + w.inner
         /\ f[ip + 9 + 1] = UDP
         /\ WordAt(f, ip + 2) = (28 + w.inner) + N(r)
         /\ SubSeq(f, ip + 13, ip + 16) = r.src
         /\ SubSeq(f, ip + 17, ip + 20) = r.dst
<1> DEFINE ip == Start(r, w)
           F == Fields(r, w.inner, HeaderAt(chain, 1))
           l == (28 + w.inner) + N(r)
           b == IF w.inner = 0 THEN 69 ELSE 70
<1>1. ip \in Nat /\ w.inner \in Nat /\ N(r) \in Nat /\ f \in Seq(Nat)
  <2>1. f \in Seq(Nat)
    BY Zenon DEF Layout
  <2> QED BY <2>1, WayIs
<1>2. HeaderLength(r) = 20
  BY Zenon DEF HeaderLength
<1>3. w.inner = 0 \/ w.inner = 4
  <2>1. w.headers \in {0, 1} /\ w.inner = 4 * w.headers
    BY Zenon DEF Way
  <2> QED BY <2>1
<1>4. l \in Nat /\ b \in Nat
  <2> DEFINE i == w.inner
             p == N(r)
  <2>1. i \in Nat /\ p \in Nat
    BY <1>1
  <2> HIDE DEF i, p
  <2>2. (28 + i) + p \in Nat
    BY <2>1
  <2> QED BY <2>2 DEF i, p
<1>5. /\ <<0, <<b>> >> \in F /\ <<2, Word(l)>> \in F /\ <<9, <<UDP>> >> \in F
      /\ <<12, r.src>> \in F /\ <<16, r.dst>> \in F
  BY DEF Fields
<1>6. Len(r.src) = 4 /\ Len(r.dst) = 4
  BY RequestIs DEF AddressLength
<1> HIDE DEF F, l
<1>7. ASSUME NEW k, NEW t, <<k, t>> \in F
      PROVE  /\ k \in Nat /\ t \in Seq(Nat)
             /\ Holds(f, ip + k, t)
             /\ (ip + k) + Len(t) =< Len(f)
             /\ SubSeq(f, (ip + k) + 1, (ip + k) + Len(t)) = t
  BY <1>2, <1>7, FieldRead DEF F
<1> DEFINE lf == Len(f)
<1>8. lf \in Nat /\ ip + 20 =< lf
  BY <1>1
<1> HIDE DEF ip, lf, b
<1>9. f[(ip + 0) + 1] = b
  <2>1. Holds(f, ip + 0, <<b>>)
    BY <1>5, <1>7, Zenon
  <2>2. ip + 0 \in Nat /\ (ip + 0) + 1 =< lf
    BY <1>1, <1>8
  <2> QED BY <1>1, <1>4, <2>1, <2>2, ByteHeld DEF lf
<1>10. f[(ip + 9) + 1] = UDP
  <2>1. Holds(f, ip + 9, <<UDP>>)
    BY <1>5, <1>7, Zenon
  <2>2. ip + 9 \in Nat /\ (ip + 9) + 1 =< lf
    BY <1>1, <1>8
  <2> QED BY <1>1, <2>1, <2>2, ByteHeld, UdpIs DEF lf
<1>11. WordAt(f, ip + 2) = l
  <2>1. Holds(f, ip + 2, Word(l))
    BY <1>5, <1>7, Zenon
  <2>2. ip + 2 \in Nat /\ (ip + 2) + 2 =< lf
    BY <1>1, <1>8
  <2> QED BY <1>1, <1>4, <2>1, <2>2, WordHeld DEF lf
<1>12. SubSeq(f, ip + 13, ip + 16) = r.src
  <2>1. SubSeq(f, (ip + 12) + 1, (ip + 12) + 4) = r.src
    BY <1>5, <1>6, <1>7, Zenon
  <2>2. (ip + 12) + 1 = ip + 13 /\ (ip + 12) + 4 = ip + 16
    BY <1>1
  <2> QED BY <2>1, <2>2, Zenon
<1>13. SubSeq(f, ip + 17, ip + 20) = r.dst
  <2>1. SubSeq(f, (ip + 16) + 1, (ip + 16) + 4) = r.dst
    BY <1>5, <1>6, <1>7, Zenon
  <2>2. (ip + 16) + 1 = ip + 17 /\ (ip + 16) + 4 = ip + 20
    BY <1>1
  <2> QED BY <2>1, <2>2, Zenon
<1>14. b \div 16 = 4 /\ 4 * (b % 16) = 20 + w.inner
  <2>1. CASE w.inner = 0
    <3>1. b = 69
      BY <2>1, Zenon DEF b
    <3> QED BY <2>1, <3>1
  <2>2. CASE w.inner = 4
    <3>1. b = 70
      BY <2>2 DEF b
    <3> QED BY <2>2, <3>1
  <2> QED BY <1>3, <2>1, <2>2
<1> QED BY <1>9, <1>10, <1>11, <1>12, <1>13, <1>14, Zenon DEF ip, l

(* The IPv6 header, as DecapIpv6 reads it.                                   *)
LEMMA Ipv6Read ==
  ASSUME NEW r, Accepted(r), ~V4(r), NEW w, NEW chain, Way(r, w, chain),
         NEW f, Layout(f, r, w, chain), Start(r, w) + 40 =< Len(f)
  PROVE  LET ip == Start(r, w) IN
         /\ f[ip + 0 + 1] \div 16 = 6
         /\ f[ip + 6 + 1] = HeaderAt(chain, 1)
         /\ SubSeq(f, ip + 9, ip + 24) = r.src
         /\ SubSeq(f, ip + 25, ip + 40) = r.dst
<1> DEFINE ip == Start(r, w)
           F == Fields(r, w.inner, HeaderAt(chain, 1))
           a == HeaderAt(chain, 1)
<1>1. ip \in Nat /\ f \in Seq(Nat) /\ a \in Nat
  <2>1. f \in Seq(Nat)
    BY Zenon DEF Layout
  <2> QED BY <2>1, WayIs
<1>2. HeaderLength(r) = 40
  BY Zenon DEF HeaderLength
<1>3. /\ <<0, <<96>> >> \in F /\ <<6, <<a>> >> \in F
      /\ <<8, r.src>> \in F /\ <<24, r.dst>> \in F
  BY DEF Fields
<1>4. Len(r.src) = 16 /\ Len(r.dst) = 16
  BY RequestIs DEF AddressLength
<1> HIDE DEF F, a
<1>5. ASSUME NEW k, NEW t, <<k, t>> \in F
      PROVE  /\ k \in Nat /\ t \in Seq(Nat)
             /\ Holds(f, ip + k, t)
             /\ (ip + k) + Len(t) =< Len(f)
             /\ SubSeq(f, (ip + k) + 1, (ip + k) + Len(t)) = t
  BY <1>2, <1>5, FieldRead DEF F
<1> DEFINE lf == Len(f)
<1>6. lf \in Nat /\ ip + 40 =< lf
  BY <1>1
<1> HIDE DEF ip, lf
<1>7. f[(ip + 0) + 1] = 96
  <2> DEFINE b == 96
  <2>1. Holds(f, ip + 0, <<b>>)
    BY <1>3, <1>5, Zenon
  <2>2. b \in Nat /\ b = 96
    OBVIOUS
  <2> HIDE DEF b
  <2>3. ip + 0 \in Nat /\ (ip + 0) + 1 =< lf
    BY <1>1, <1>6
  <2>4. f[(ip + 0) + 1] = b
    BY <1>1, <2>1, <2>2, <2>3, ByteHeld DEF lf
  <2> QED BY <2>2, <2>4
<1>8. f[(ip + 6) + 1] = a
  <2>1. Holds(f, ip + 6, <<a>>)
    BY <1>3, <1>5, Zenon
  <2>2. ip + 6 \in Nat /\ (ip + 6) + 1 =< lf
    BY <1>1, <1>6
  <2> QED BY <1>1, <2>1, <2>2, ByteHeld DEF lf
<1>9. SubSeq(f, ip + 9, ip + 24) = r.src
  <2>1. SubSeq(f, (ip + 8) + 1, (ip + 8) + 16) = r.src
    BY <1>3, <1>4, <1>5, Zenon
  <2>2. (ip + 8) + 1 = ip + 9 /\ (ip + 8) + 16 = ip + 24
    BY <1>1
  <2> QED BY <2>1, <2>2, Zenon
<1>10. SubSeq(f, ip + 25, ip + 40) = r.dst
  <2>1. SubSeq(f, (ip + 24) + 1, (ip + 24) + 16) = r.dst
    BY <1>3, <1>4, <1>5, Zenon
  <2>2. (ip + 24) + 1 = ip + 25 /\ (ip + 24) + 16 = ip + 40
    BY <1>1
  <2> QED BY <2>1, <2>2, Zenon
<1>11. f[(ip + 0) + 1] \div 16 = 6
  BY <1>7
<1> QED BY <1>8, <1>9, <1>10, <1>11, Zenon DEF ip, a

(* A raw capture, whose first byte names the version.                        *)
LEMMA FirstByteRead ==
  ASSUME NEW r, Accepted(r), r.link = RAW, NEW w, NEW chain, Way(r, w, chain),
         NEW f, Layout(f, r, w, chain), 1 =< Len(f)
  PROVE  /\ Start(r, w) = 0
         /\ f[1] \div 16 = IF V4(r) THEN 4 ELSE 6
<1>1. w.tags = 0 /\ RAW # EN10MB /\ RAW # LINUX_SLL
  <2>1. RAW # EN10MB /\ RAW # LINUX_SLL
    BY DEF RAW, EN10MB, LINUX_SLL
  <2> QED BY <2>1, Zenon DEF Way
<1>2. Start(r, w) = 0
  <2>1. LinkLength(r) = 0
    BY <1>1, Zenon DEF LinkLength
  <2> QED BY <1>1, <2>1 DEF Start
<1> DEFINE F == Fields(r, w.inner, HeaderAt(chain, 1))
           b == IF V4(r) THEN (IF w.inner = 0 THEN 69 ELSE 70) ELSE 96
<1>3. f \in Seq(Nat) /\ Lay(f, Start(r, w), F)
  BY Zenon DEF Layout
<1>4. <<0, <<b>> >> \in F
  BY DEF Fields
<1>5. b \in Nat /\ b \div 16 = IF V4(r) THEN 4 ELSE 6
  <2>1. \A x, y \in BOOLEAN : LET n == IF x THEN IF y THEN 69 ELSE 70 ELSE 96
                              IN n \in Nat /\ n \div 16 = IF x THEN 4 ELSE 6
    OBVIOUS
  <2>2. V4(r) \in BOOLEAN /\ (w.inner = 0) \in BOOLEAN
    BY DEF V4
  <2> QED BY <2>1, <2>2
<1> HIDE DEF F, b
<1>6. Holds(f, 0 + 0, <<b>>)
  <2> DEFINE q == <<0, <<b>> >>
  <2>1. q[1] = 0 /\ q[2] = <<b>> /\ q \in F
    BY <1>4
  <2> HIDE DEF q
  <2> QED BY <1>2, <1>3, <2>1, Zenon DEF Lay
<1>7. f[0 + 1] = b
  <2>1. 0 + 0 = 0 /\ 0 \in Nat /\ 0 + 1 =< Len(f)
    OBVIOUS
  <2>2. Holds(f, 0, <<b>>)
    BY <1>6, <2>1, Zenon
  <2> QED BY <1>3, <1>5, <2>1, <2>2, ByteHeld
<1>8. 0 + 1 = 1
  OBVIOUS
<1> QED BY <1>2, <1>5, <1>7, <1>8, Zenon

(* The datagram, as DecapUdp reads it.                                       *)
LEMMA UdpRead ==
  ASSUME NEW r, Accepted(r), NEW w, NEW chain, Way(r, w, chain),
         NEW f, Layout(f, r, w, chain), UdpStart(r, w) + 8 =< Len(f)
  PROVE  LET u == UdpStart(r, w)
             n == N(r)
         IN  /\ WordAt(f, u) = r.src_port
             /\ WordAt(f, u + 2) = r.dst_port
             /\ WordAt(f, u + 4) = 8 + n
             /\ (u + 8) + n =< Len(f) => SubSeq(f, u + 9, u + (8 + n)) = r.payload
             /\ Len(f) < (u + 8) + n =>
                  SubSeq(f, u + 9, Len(f)) = SubSeq(r.payload, 1, Len(f) - (u + 8))
<1> DEFINE u == UdpStart(r, w)
           n == N(r)
           s == UdpSegment(r)
           p == r.payload
           x == r.src_port
           y == r.dst_port
           lf == Len(f)
<1>1. f \in Seq(Nat) /\ Holds(f, u, s)
  BY Zenon DEF Layout
<1>2. u \in Nat /\ n \in Nat /\ s \in Seq(Nat) /\ Len(s) = 8 + n
  BY WayIs
<1>3. p \in Seq(Nat) /\ Len(p) = n /\ x \in Nat /\ y \in Nat
  BY RequestIs DEF N
<1>4. PICK c \in Nat : s = Segment(r, c)
  BY UdpSegmentIs, Zenon
<1>5. /\ Holds(s, 0, Word(x)) /\ Holds(s, 2, Word(y))
      /\ Holds(s, 4, Word(8 + n)) /\ Holds(s, 8, p)
  BY <1>4, SegmentIs, Zenon
<1>6. lf \in Nat /\ u + 8 =< lf
  BY <1>1
<1> HIDE DEF u, n, s, p, x, y, lf
<1>7. 8 + n \in Nat
  BY <1>2
<1>8. ASSUME NEW k \in Nat, NEW t \in Nat, Holds(s, k, Word(t)), k + 2 =< 8
      PROVE  WordAt(f, u + k) = t
  <2>1. Word(t) \in Seq(Nat) /\ Len(Word(t)) = 2
    BY WordIs
  <2>2. k + Len(Word(t)) =< Len(s)
    BY <1>2, <1>8, <2>1
  <2>3. Holds(f, u + k, Word(t))
    BY <1>1, <1>2, <1>8, <2>1, <2>2, HoldsPart
  <2>4. u + k \in Nat /\ (u + k) + 2 =< lf
    BY <1>2, <1>6, <1>8
  <2> QED BY <1>1, <2>3, <2>4, WordHeld DEF lf
<1>9. WordAt(f, u) = x
  <2>1. WordAt(f, u + 0) = x
    <3>1. 0 \in Nat /\ 0 + 2 =< 8
      OBVIOUS
    <3> QED BY <1>3, <1>5, <1>8, <3>1, Zenon
  <2>2. u + 0 = u
    BY <1>2
  <2> QED BY <2>1, <2>2, Zenon
<1>10. WordAt(f, u + 2) = y
  <2>1. 2 \in Nat /\ 2 + 2 =< 8
    OBVIOUS
  <2> QED BY <1>3, <1>5, <1>8, <2>1, Zenon
<1>11. WordAt(f, u + 4) = 8 + n
  <2>1. 4 \in Nat /\ 4 + 2 =< 8
    OBVIOUS
  <2> QED BY <1>5, <1>7, <1>8, <2>1, Zenon
<1> DEFINE k == u + 8
<1>12. Holds(f, k, p) /\ k \in Nat /\ k =< lf
  <2>1. 8 \in Nat /\ 8 + Len(p) =< Len(s)
    BY <1>2, <1>3
  <2>2. Holds(f, u + 8, p)
    BY <1>1, <1>2, <1>3, <1>5, <2>1, HoldsPart
  <2> QED BY <1>2, <1>6, <2>2
<1>13. k + 1 = u + 9 /\ k + n = u + (8 + n) /\ k = u + 8
  BY <1>2
<1> HIDE DEF k
<1>14. ASSUME k + n =< lf
       PROVE  SubSeq(f, u + 9, u + (8 + n)) = p
  <2>1. k + Len(p) =< Len(f)
    BY <1>3, <1>14, Zenon DEF lf
  <2>2. SubSeq(f, k + 1, k + Len(p)) = p
    BY <1>1, <1>3, <1>12, <2>1, PartIs
  <2> QED BY <1>3, <1>13, <2>2, Zenon
<1>15. ASSUME lf < k + n
       PROVE  SubSeq(f, u + 9, lf) = SubSeq(p, 1, lf - k)
  <2>1. lf =< k + n
    BY <1>2, <1>6, <1>12, <1>15
  <2>2. k =< Len(f) /\ Len(f) =< k + Len(p)
    BY <1>3, <1>12, <2>1, Zenon DEF lf
  <2>3. SubSeq(f, k + 1, Len(f)) = SubSeq(p, 1, Len(f) - k)
    BY <1>1, <1>3, <1>12, <2>2, CutPartIs
  <2> QED BY <1>13, <2>3, Zenon DEF lf
<1> QED BY <1>9, <1>10, <1>11, <1>13, <1>14, <1>15, Zenon DEF u, n, p, x, y, lf

(* Where the extension headers lie among their bytes.                        *)
Headers(chain, off) ==
  /\ off \in [1 .. Len(chain) + 1 -> Nat]
  /\ off[1] = 0
  /\ off[Len(chain) + 1] = Len(Extensions(chain))
  /\ \A i \in 1 .. Len(chain) :
       /\ off[i + 1] = off[i] + ExtensionLength(chain, i)
       /\ off[i + 1] =< Len(Extensions(chain))
       /\ Holds(Extensions(chain), off[i], HeaderBytesOf(chain, i))

(* The headers of every chain have offsets.                                  *)
LEMMA HeadersLie ==
  ASSUME NEW chain \in Chain \cup {<<>>}
  PROVE  \E off : Headers(chain, off)
<1>1. CASE chain = <<>>
  <2> DEFINE off == [i \in 1 .. 1 |-> 0]
             e == Extensions(chain)
  <2>1. e = <<>> /\ Len(<<>>) = 0
    BY <1>1 DEF Extensions
  <2>2. Len(chain) = 0 /\ Len(e) = 0
    BY <1>1, <2>1
  <2>3. off \in [1 .. 0 + 1 -> Nat] /\ off[1] = 0 /\ off[0 + 1] = 0 /\ 1 .. 0 = {}
    OBVIOUS
  <2> HIDE DEF off, e
  <2>4. Headers(chain, off)
    BY <2>2, <2>3, Zenon DEF Headers, e
  <2> QED BY <2>4, Zenon
<1>2. CASE chain # <<>>
  <2>1. Len(chain) \in Nat /\ DOMAIN chain = 1 .. Len(chain)
    BY HeaderIs
  <2>2. PICK off : Offsets(Parts(chain), off)
    BY <1>2, ExtensionsAre
  <2>3. Extensions(chain) = FlattenSeq(Parts(chain))
    BY <1>2, Zenon DEF Extensions
  <2> DEFINE m == Len(chain)
             P == Parts(chain)
             e == Extensions(chain)
  <2>4. P = [i \in 1 .. m |-> HeaderBytesOf(chain, i)]
    BY <2>1, Zenon DEF Parts
  <2> HIDE DEF m, P, e
  <2>5. Len(P) = m
    BY <2>1, <2>4 DEF m
  <2>6. ASSUME NEW i \in 1 .. m
        PROVE  /\ P[i] = HeaderBytesOf(chain, i)
               /\ Len(P[i]) = ExtensionLength(chain, i)
    <3>1. P[i] = HeaderBytesOf(chain, i)
      BY <2>4
    <3>2. i \in DOMAIN chain
      BY <2>1, Zenon DEF m
    <3>3. Len(HeaderBytesOf(chain, i)) = ExtensionLength(chain, i)
      BY <3>2, HeaderBytesAre
    <3> QED BY <3>1, <3>3, Zenon
  <2>7. /\ off \in [1 .. m + 1 -> Nat]
        /\ off[1] = 0
        /\ off[m + 1] = Len(e)
        /\ \A i \in 1 .. m :
             /\ off[i + 1] = off[i] + Len(P[i])
             /\ off[i + 1] =< Len(e)
             /\ Holds(e, off[i], P[i])
    BY <2>2, <2>3, <2>5, Zenon DEF Offsets, P, e
  <2>8. Headers(chain, off)
    BY <2>6, <2>7, Zenon DEF Headers, m, e
  <2> QED BY <2>8, Zenon
<1> QED BY <1>1, <1>2

(* The i-th extension header lies at this offset.                            *)
ExtensionIsAt(f, r, w, chain, off, i, at) ==
  /\ at \in Nat
  /\ ExtensionLength(chain, i) \in Nat /\ 8 =< ExtensionLength(chain, i)
  /\ at + ExtensionLength(chain, i) = (Start(r, w) + 40) + off[i + 1]
  /\ at + ExtensionLength(chain, i) =< UdpStart(r, w)
  /\ at + 2 =< Len(f) => /\ f[at + 0 + 1] = HeaderAt(chain, i + 1)
                         /\ f[at + 1 + 1] = chain[i].units

(* An extension header, as SkipExtension reads it.                           *)
LEMMA ExtensionRead ==
  ASSUME NEW r, Accepted(r), ~V4(r), NEW w, NEW chain, Way(r, w, chain),
         NEW f, Layout(f, r, w, chain), NEW off, Headers(chain, off),
         NEW i \in 1 .. Len(chain),
         NEW at, at = (Start(r, w) + 40) + off[i]
  PROVE  ExtensionIsAt(f, r, w, chain, off, i, at)
<1> DEFINE e == Extensions(chain)
           h == HeaderBytesOf(chain, i)
           x == ExtensionLength(chain, i)
           ip == Start(r, w)
           o == off[i]
           oo == off[i + 1]
           a == HeaderAt(chain, i + 1)
           b == chain[i].units
           c == ip + 40
           u == UdpStart(r, w)
           le == Len(e)
<1>1. i \in DOMAIN chain /\ b \in Nat /\ a \in Nat /\ Len(chain) \in Nat
  <2>1. i \in DOMAIN chain /\ chain \in Chain \cup {<<>>} /\ Len(chain) \in Nat
    BY HeaderIs, Zenon DEF Way
  <2>2. i + 1 \in Nat /\ 1 =< i + 1
    BY <2>1
  <2> QED BY <2>1, <2>2, HeaderIs
<1>2. /\ h \in Seq(Nat) /\ Len(h) = x /\ x \in Nat /\ 8 =< x
      /\ Holds(h, 0, <<a>>) /\ Holds(h, 1, <<b>>)
  <2>1. chain \in Chain \cup {<<>>}
    BY Zenon DEF Way
  <2>2. /\ h \in Seq(Nat) /\ Len(h) = x
        /\ Len(h) \in Nat /\ 8 =< Len(h)
        /\ Holds(h, 0, <<a>>) /\ Holds(h, 1, <<b>>)
    BY <1>1, <2>1, HeaderBytesAre
  <2> QED BY <2>2, Zenon
<1>3. oo = o + x /\ oo =< le /\ Holds(e, o, h)
  BY Zenon DEF Headers
<1>4. o \in Nat
  <2>1. i \in 1 .. Len(chain) + 1
    BY <1>1
  <2>2. off \in [1 .. Len(chain) + 1 -> Nat]
    BY Zenon DEF Headers
  <2> QED BY <2>1, <2>2
<1>5. f \in Seq(Nat) /\ Holds(f, c, e)
  BY Zenon DEF Layout, HeaderLength
<1>6. /\ ip \in Nat /\ u \in Nat /\ e \in Seq(Nat) /\ le \in Nat
      /\ u = (ip + 40) + w.inner /\ w.inner = le
  <2>1. w.inner = le
    BY Zenon DEF Way
  <2> QED BY <2>1, WayIs, Zenon DEF HeaderLength
<1>7. at = c + o
  BY Zenon
<1> HIDE DEF e, h, x, ip, o, oo, a, b, u, le
<1>8. c \in Nat /\ at \in Nat /\ at + x = c + oo /\ at + x =< u
  <2>1. c \in Nat
    BY <1>6
  <2>2. u = c + le
    BY <1>6, Zenon
  <2> HIDE DEF c
  <2>3. c + o \in Nat /\ (c + o) + x = c + oo /\ (c + o) + x =< u
    BY <1>2, <1>3, <1>4, <1>6, <2>1, <2>2
  <2> QED BY <1>7, <2>1, <2>3, Zenon
<1> HIDE DEF c
<1>9. Holds(f, at, h)
  <2>1. o + Len(h) =< Len(e)
    BY <1>2, <1>3, Zenon DEF le
  <2>2. Holds(f, c + o, h)
    BY <1>2, <1>3, <1>4, <1>5, <1>6, <1>8, <2>1, HoldsPart
  <2> QED BY <1>7, <2>2, Zenon
<1>10. ASSUME at + 2 =< Len(f)
       PROVE  f[(at + 0) + 1] = a /\ f[(at + 1) + 1] = b
  <2>1. at + 0 \in Nat /\ at + 1 \in Nat /\ (at + 0) + 1 =< Len(f) /\ (at + 1) + 1 =< Len(f)
    BY <1>5, <1>8, <1>10
  <2>2. \A y \in Nat : <<y>> \in Seq(Nat) /\ Len(<<y>>) = 1
    OBVIOUS
  <2>3. 0 \in Nat /\ 1 \in Nat /\ 0 + 1 =< Len(h) /\ 1 + 1 =< Len(h)
    BY <1>2
  <2>4. Holds(f, at + 0, <<a>>)
    BY <1>1, <1>2, <1>5, <1>8, <1>9, <2>2, <2>3, HoldsPart
  <2>5. Holds(f, at + 1, <<b>>)
    BY <1>1, <1>2, <1>5, <1>8, <1>9, <2>2, <2>3, HoldsPart
  <2>6. f[(at + 0) + 1] = a
    BY <1>1, <1>5, <2>1, <2>4, ByteHeld
  <2>7. f[(at + 1) + 1] = b
    BY <1>1, <1>5, <2>1, <2>5, ByteHeld
  <2> QED BY <2>6, <2>7
<1> QED BY <1>2, <1>8, <1>10, Zenon DEF ExtensionIsAt, c, ip, x, oo, u, a, b

----------------------------------------------------------------------------
(* A state of decapsulate_udp, and what the actions make of it.              *)
AWalk(stage, at, end, type, turns, src, dst, result) ==
  [stage |-> stage, at |-> at, end |-> end, type |-> type, turns |-> turns,
   src |-> src, dst |-> dst, result |-> result]

(* The fields of a state.                                                    *)
LEMMA WalkIs ==
  ASSUME NEW s, NEW a, NEW e, NEW t, NEW n, NEW src, NEW dst, NEW result
  PROVE  LET k == AWalk(s, a, e, t, n, src, dst, result) IN
         /\ k.stage = s /\ k.at = a /\ k.end = e /\ k.type = t /\ k.turns = n
         /\ k.src = src /\ k.dst = dst /\ k.result = result
BY DEF AWalk

(* A state is this one.                                                      *)
Reached(k, stage, at, end, type, turns, src, dst, result) ==
  k = AWalk(stage, at, end, type, turns, src, dst, result)

(* What changing one or more fields makes of a state: the stage alone.       *)
LEMMA MovedStage ==
  ASSUME NEW s, NEW a, NEW e, NEW t, NEW n, NEW src, NEW dst, NEW result,
         NEW k, k = AWalk(s, a, e, t, n, src, dst, result),
         NEW s1
  PROVE  Reached([k EXCEPT !.stage = s1],
                 s1, a, e, t, n, src, dst, result)
BY DEF AWalk, Reached

(* Past the link header.                                                     *)
LEMMA MovedIn ==
  ASSUME NEW s, NEW a, NEW e, NEW t, NEW n, NEW src, NEW dst, NEW result,
         NEW k, k = AWalk(s, a, e, t, n, src, dst, result),
         NEW s1, NEW t1, NEW a1, NEW e1, NEW n1
  PROVE  Reached([k EXCEPT !.stage = s1, !.type = t1, !.at = a1, !.end = e1, !.turns = n1],
                 s1, a1, e1, t1, n1, src, dst, result)
<1> DEFINE k1 == [k EXCEPT !.stage = s1]
           k2 == [k1 EXCEPT !.type = t1]
           k3 == [k2 EXCEPT !.at = a1]
           k4 == [k3 EXCEPT !.end = e1]
           k5 == [k4 EXCEPT !.turns = n1]
<1>1. [k EXCEPT !.stage = s1, !.type = t1, !.at = a1, !.end = e1, !.turns = n1]
        = k5
  OBVIOUS
<1>2. k1 = AWalk(s1, a, e, t, n, src, dst, result)
  BY DEF AWalk
<1> HIDE DEF k1, k2, k3, k4, k5
<1>3. k2 = AWalk(s1, a, e, t1, n, src, dst, result)
  <2>1. [AWalk(s1, a, e, t, n, src, dst, result) EXCEPT !.type = t1]
          = AWalk(s1, a, e, t1, n, src, dst, result)
    BY DEF AWalk
  <2> QED BY <1>2, <2>1 DEF k2
<1>4. k3 = AWalk(s1, a1, e, t1, n, src, dst, result)
  <2>1. [AWalk(s1, a, e, t1, n, src, dst, result) EXCEPT !.at = a1]
          = AWalk(s1, a1, e, t1, n, src, dst, result)
    BY DEF AWalk
  <2> QED BY <1>3, <2>1 DEF k3
<1>5. k4 = AWalk(s1, a1, e1, t1, n, src, dst, result)
  <2>1. [AWalk(s1, a1, e, t1, n, src, dst, result) EXCEPT !.end = e1]
          = AWalk(s1, a1, e1, t1, n, src, dst, result)
    BY DEF AWalk
  <2> QED BY <1>4, <2>1 DEF k4
<1>6. k5 = AWalk(s1, a1, e1, t1, n1, src, dst, result)
  <2>1. [AWalk(s1, a1, e1, t1, n, src, dst, result) EXCEPT !.turns = n1]
          = AWalk(s1, a1, e1, t1, n1, src, dst, result)
    BY DEF AWalk
  <2> QED BY <1>5, <2>1 DEF k5
<1> QED BY <1>1, <1>6 DEF Reached

(* Past a tag or an extension header.                                        *)
LEMMA MovedOn ==
  ASSUME NEW s, NEW a, NEW e, NEW t, NEW n, NEW src, NEW dst, NEW result,
         NEW k, k = AWalk(s, a, e, t, n, src, dst, result),
         NEW t1, NEW a1, NEW n1
  PROVE  Reached([k EXCEPT !.type = t1, !.at = a1, !.turns = n1],
                 s, a1, e, t1, n1, src, dst, result)
<1> DEFINE k1 == [k EXCEPT !.type = t1]
           k2 == [k1 EXCEPT !.at = a1]
           k3 == [k2 EXCEPT !.turns = n1]
<1>1. [k EXCEPT !.type = t1, !.at = a1, !.turns = n1]
        = k3
  OBVIOUS
<1>2. k1 = AWalk(s, a, e, t1, n, src, dst, result)
  BY DEF AWalk
<1> HIDE DEF k1, k2, k3
<1>3. k2 = AWalk(s, a1, e, t1, n, src, dst, result)
  <2>1. [AWalk(s, a, e, t1, n, src, dst, result) EXCEPT !.at = a1]
          = AWalk(s, a1, e, t1, n, src, dst, result)
    BY DEF AWalk
  <2> QED BY <1>2, <2>1 DEF k2
<1>4. k3 = AWalk(s, a1, e, t1, n1, src, dst, result)
  <2>1. [AWalk(s, a1, e, t1, n, src, dst, result) EXCEPT !.turns = n1]
          = AWalk(s, a1, e, t1, n1, src, dst, result)
    BY DEF AWalk
  <2> QED BY <1>3, <2>1 DEF k3
<1> QED BY <1>1, <1>4 DEF Reached

(* Past an IPv4 header.                                                      *)
LEMMA MovedPastIpv4 ==
  ASSUME NEW s, NEW a, NEW e, NEW t, NEW n, NEW src, NEW dst, NEW result,
         NEW k, k = AWalk(s, a, e, t, n, src, dst, result),
         NEW s1, NEW src1, NEW dst1, NEW e1, NEW a1
  PROVE  Reached([k EXCEPT !.stage = s1, !.src = src1, !.dst = dst1, !.end = e1, !.at = a1],
                 s1, a1, e1, t, n, src1, dst1, result)
<1> DEFINE k1 == [k EXCEPT !.stage = s1]
           k2 == [k1 EXCEPT !.src = src1]
           k3 == [k2 EXCEPT !.dst = dst1]
           k4 == [k3 EXCEPT !.end = e1]
           k5 == [k4 EXCEPT !.at = a1]
<1>1. [k EXCEPT !.stage = s1, !.src = src1, !.dst = dst1, !.end = e1, !.at = a1]
        = k5
  OBVIOUS
<1>2. k1 = AWalk(s1, a, e, t, n, src, dst, result)
  BY DEF AWalk
<1> HIDE DEF k1, k2, k3, k4, k5
<1>3. k2 = AWalk(s1, a, e, t, n, src1, dst, result)
  <2>1. [AWalk(s1, a, e, t, n, src, dst, result) EXCEPT !.src = src1]
          = AWalk(s1, a, e, t, n, src1, dst, result)
    BY DEF AWalk
  <2> QED BY <1>2, <2>1 DEF k2
<1>4. k3 = AWalk(s1, a, e, t, n, src1, dst1, result)
  <2>1. [AWalk(s1, a, e, t, n, src1, dst, result) EXCEPT !.dst = dst1]
          = AWalk(s1, a, e, t, n, src1, dst1, result)
    BY DEF AWalk
  <2> QED BY <1>3, <2>1 DEF k3
<1>5. k4 = AWalk(s1, a, e1, t, n, src1, dst1, result)
  <2>1. [AWalk(s1, a, e, t, n, src1, dst1, result) EXCEPT !.end = e1]
          = AWalk(s1, a, e1, t, n, src1, dst1, result)
    BY DEF AWalk
  <2> QED BY <1>4, <2>1 DEF k4
<1>6. k5 = AWalk(s1, a1, e1, t, n, src1, dst1, result)
  <2>1. [AWalk(s1, a, e1, t, n, src1, dst1, result) EXCEPT !.at = a1]
          = AWalk(s1, a1, e1, t, n, src1, dst1, result)
    BY DEF AWalk
  <2> QED BY <1>5, <2>1 DEF k5
<1> QED BY <1>1, <1>6 DEF Reached

(* Past an IPv6 header.                                                      *)
LEMMA MovedPastIpv6 ==
  ASSUME NEW s, NEW a, NEW e, NEW t, NEW n, NEW src, NEW dst, NEW result,
         NEW k, k = AWalk(s, a, e, t, n, src, dst, result),
         NEW s1, NEW src1, NEW dst1, NEW t1, NEW a1, NEW n1
  PROVE  Reached([k EXCEPT !.stage = s1, !.src = src1, !.dst = dst1, !.type = t1,
           !.at = a1, !.turns = n1],
                 s1, a1, e, t1, n1, src1, dst1, result)
<1> DEFINE k1 == [k EXCEPT !.stage = s1]
           k2 == [k1 EXCEPT !.src = src1]
           k3 == [k2 EXCEPT !.dst = dst1]
           k4 == [k3 EXCEPT !.type = t1]
           k5 == [k4 EXCEPT !.at = a1]
           k6 == [k5 EXCEPT !.turns = n1]
<1>1. [k EXCEPT !.stage = s1, !.src = src1, !.dst = dst1, !.type = t1,
              !.at = a1, !.turns = n1]
        = k6
  OBVIOUS
<1>2. k1 = AWalk(s1, a, e, t, n, src, dst, result)
  BY DEF AWalk
<1> HIDE DEF k1, k2, k3, k4, k5, k6
<1>3. k2 = AWalk(s1, a, e, t, n, src1, dst, result)
  <2>1. [AWalk(s1, a, e, t, n, src, dst, result) EXCEPT !.src = src1]
          = AWalk(s1, a, e, t, n, src1, dst, result)
    BY DEF AWalk
  <2> QED BY <1>2, <2>1 DEF k2
<1>4. k3 = AWalk(s1, a, e, t, n, src1, dst1, result)
  <2>1. [AWalk(s1, a, e, t, n, src1, dst, result) EXCEPT !.dst = dst1]
          = AWalk(s1, a, e, t, n, src1, dst1, result)
    BY DEF AWalk
  <2> QED BY <1>3, <2>1 DEF k3
<1>5. k4 = AWalk(s1, a, e, t1, n, src1, dst1, result)
  <2>1. [AWalk(s1, a, e, t, n, src1, dst1, result) EXCEPT !.type = t1]
          = AWalk(s1, a, e, t1, n, src1, dst1, result)
    BY DEF AWalk
  <2> QED BY <1>4, <2>1 DEF k4
<1>6. k5 = AWalk(s1, a1, e, t1, n, src1, dst1, result)
  <2>1. [AWalk(s1, a, e, t1, n, src1, dst1, result) EXCEPT !.at = a1]
          = AWalk(s1, a1, e, t1, n, src1, dst1, result)
    BY DEF AWalk
  <2> QED BY <1>5, <2>1 DEF k5
<1>7. k6 = AWalk(s1, a1, e, t1, n1, src1, dst1, result)
  <2>1. [AWalk(s1, a1, e, t1, n, src1, dst1, result) EXCEPT !.turns = n1]
          = AWalk(s1, a1, e, t1, n1, src1, dst1, result)
    BY DEF AWalk
  <2> QED BY <1>6, <2>1 DEF k6
<1> QED BY <1>1, <1>7 DEF Reached

(* To the result.                                                            *)
LEMMA MovedOut ==
  ASSUME NEW s, NEW a, NEW e, NEW t, NEW n, NEW src, NEW dst, NEW result,
         NEW k, k = AWalk(s, a, e, t, n, src, dst, result),
         NEW s1, NEW result1
  PROVE  Reached([k EXCEPT !.stage = s1, !.result = result1],
                 s1, a, e, t, n, src, dst, result1)
<1> DEFINE k1 == [k EXCEPT !.stage = s1]
           k2 == [k1 EXCEPT !.result = result1]
<1>1. [k EXCEPT !.stage = s1, !.result = result1]
        = k2
  OBVIOUS
<1>2. k1 = AWalk(s1, a, e, t, n, src, dst, result)
  BY DEF AWalk
<1> HIDE DEF k1, k2
<1>3. k2 = AWalk(s1, a, e, t, n, src, dst, result1)
  <2>1. [AWalk(s1, a, e, t, n, src, dst, result) EXCEPT !.result = result1]
          = AWalk(s1, a, e, t, n, src, dst, result1)
    BY DEF AWalk
  <2> QED BY <1>2, <2>1 DEF k2
<1> QED BY <1>1, <1>3 DEF Reached

----------------------------------------------------------------------------
(* Where decapsulate_udp stands.                                             *)

(* There is no result: what PayloadComesBack says of it.                     *)
Blocked(r, w) ==
  \/ w.captured < UdpStart(r, w) + 8
  \/ w.tags > MaxVlanTags
  \/ ~V4(r) /\ w.headers > MaxExtensionHeaders
  \/ ~w.known

Delivered(r, w) ==
  [src      |-> r.src,
   dst      |-> r.dst,
   src_port |-> r.src_port,
   dst_port |-> r.dst_port,
   payload  |-> LET n == w.captured - (UdpStart(r, w) + 8) IN
                IF n < N(r) THEN SubSeq(r.payload, 1, n) ELSE r.payload]

InTags(r, w, at, end, type, turns) ==
  /\ r.link = EN10MB /\ end = w.captured
  /\ \E j \in 0 .. 2 :
       /\ turns = 2 - j
       /\ j =< w.tags
       /\ at = 14 + (4 * j)
       /\ at =< end
       /\ type = IF j < w.tags THEN VLAN ELSE Type(r)

AtNetwork(r, w, at, end, type) ==
  /\ end = w.captured /\ at \in Nat /\ at =< end
  /\ \/ at = Start(r, w) /\ type = Type(r) /\ w.tags =< 2
     \/ type = VLAN /\ w.tags > 2

InExtensions(r, w, chain, off, at, end, type, turns) ==
  /\ ~V4(r) /\ w.tags =< 2 /\ end = w.captured
  /\ \E i \in 0 .. 8 :
       /\ turns = 8 - i
       /\ i =< Len(chain)
       /\ at = (Start(r, w) + 40) + off[i + 1]
       /\ at =< end
       /\ type = HeaderAt(chain, i + 1)
       /\ \A j \in 1 .. i : chain[j].header \in ExtensionHeader

AtUdp(r, w, at, end) ==
  /\ w.tags =< 2 /\ (~V4(r) => w.headers =< 8) /\ w.known
  /\ at = UdpStart(r, w) /\ at =< end
  /\ end = IF V4(r) /\ TotalLength(r, w) =< w.captured THEN TotalLength(r, w)
           ELSE w.captured

(* The types of tags, IPv4 and IPv6 differ.                                  *)
LEMMA TypesDiffer ==
  ASSUME NEW r
  PROVE  /\ Type(r) # VLAN /\ VLAN \notin {IPv4, IPv6} /\ IPv4 # IPv6
         /\ Type(r) = IPv4 <=> V4(r)
         /\ Type(r) = IPv6 <=> ~V4(r)
         /\ Type(r) \in {IPv4, IPv6}
BY DEF Type, VLAN, IPv4, IPv6

(* The limits of the two loops.                                              *)
LEMMA MaximaAre == MaxVlanTags = 2 /\ MaxExtensionHeaders = 8
BY DEF MaxVlanTags, MaxExtensionHeaders

(* StripTag.                                                                 *)
LEMMA TagStep ==
  ASSUME NEW r, Accepted(r), NEW w, NEW chain, Way(r, w, chain),
         NEW f, Layout(f, r, w, chain), w.captured = Len(f),
         NEW a, NEW e, NEW t, NEW n, InTags(r, w, a, e, t, n), t = VLAN, n > 0
  PROVE  /\ e - a < 4 => Blocked(r, w)
         /\ ~(e - a < 4) => InTags(r, w, a + 4, e, WordAt(f, a + 2), n - 1)
<1> DEFINE g == w.tags
           u == UdpStart(r, w)
           ip == Start(r, w)
           lf == Len(f)
           y == Type(r)
<1>1. PICK j \in 0 .. 2 : /\ n = 2 - j
                          /\ j =< g
                          /\ a = 14 + (4 * j)
                          /\ a =< e
                          /\ t = IF j < g THEN VLAN ELSE y
  BY Zenon DEF InTags
<1>2. r.link = EN10MB /\ e = lf /\ f \in Seq(Nat) /\ g \in Nat
  BY Zenon DEF InTags, Layout, Way
<1>3. lf \in Nat
  BY <1>2
<1>4. /\ ip \in Nat /\ u \in Nat /\ ip =< u /\ ip = 14 + (4 * g)
  <2>1. /\ ip \in Nat /\ HeaderLength(r) \in Nat /\ w.inner \in Nat
        /\ u = (ip + HeaderLength(r)) + w.inner
    BY WayIs
  <2>2. ip = 14 + (4 * g)
    BY <1>2 DEF Start, LinkLength
  <2> DEFINE h == HeaderLength(r)
             i == w.inner
  <2> HIDE DEF h, i, ip, u
  <2>3. /\ ip \in Nat /\ h \in Nat /\ i \in Nat /\ u = (ip + h) + i
    BY <2>1 DEF h, i
  <2>4. u \in Nat /\ ip =< u
    BY <2>3
  <2> QED BY <2>2, <2>3, <2>4
<1>5. j < g
  <2>1. y # VLAN
    BY TypesDiffer
  <2> QED BY <1>1, <2>1, Zenon
<1>6. j \in Nat /\ n - 1 = 2 - (j + 1) /\ j + 1 \in 0 .. 2 /\ j + 1 =< g
  BY <1>1, <1>2, <1>5
<1>7. ASSUME e - a < 4
      PROVE  Blocked(r, w)
  <2> HIDE DEF g, u, ip, lf
  <2>1. lf < u + 8
    BY <1>1, <1>2, <1>3, <1>4, <1>6, <1>7
  <2> QED BY <2>1, Zenon DEF Blocked, lf, u
<1>8. ASSUME ~(e - a < 4)
      PROVE  InTags(r, w, a + 4, e, WordAt(f, a + 2), n - 1)
  <2> DEFINE i == j + 1
  <2>1. i \in Nat /\ i \in 0 .. 2 /\ i =< g /\ n - 1 = 2 - i
    BY <1>6
  <2>2. a + 4 = 14 + (4 * i) /\ a + 2 = 12 + (4 * i) /\ 14 + (4 * i) =< lf /\ a + 4 =< e
    <3> HIDE DEF g, u, ip, lf
    <3> QED BY <1>1, <1>2, <1>3, <1>6, <1>8
  <2> HIDE DEF i
  <2>3. WordAt(f, 12 + (4 * i)) = IF i < g THEN VLAN ELSE y
    <3>1. \A k \in Nat : k =< w.tags /\ 14 + (4 * k) =< Len(f) =>
             WordAt(f, 12 + (4 * k)) = IF k < w.tags THEN VLAN ELSE Type(r)
      BY <1>2, TypeRead
    <3> QED BY <2>1, <2>2, <3>1, Zenon
  <2>4. e = w.captured
    BY <1>2, Zenon
  <2> QED BY <1>2, <2>1, <2>2, <2>3, <2>4, Zenon DEF InTags
<1> QED BY <1>7, <1>8

(* TagsStripped.                                                             *)
LEMMA TagsDone ==
  ASSUME NEW r, Accepted(r), NEW w, NEW chain, Way(r, w, chain),
         NEW a, NEW e, NEW t, NEW n, InTags(r, w, a, e, t, n), t # VLAN \/ n = 0
  PROVE  AtNetwork(r, w, a, e, t)
<1> DEFINE g == w.tags
           y == Type(r)
           ip == Start(r, w)
<1>1. PICK j \in 0 .. 2 : /\ n = 2 - j
                          /\ j =< g
                          /\ a = 14 + (4 * j)
                          /\ a =< e
                          /\ t = IF j < g THEN VLAN ELSE y
  BY Zenon DEF InTags
<1>2. r.link = EN10MB /\ e = w.captured /\ g \in Nat
  BY Zenon DEF InTags, Way
<1>3. ip = 14 + (4 * g)
  BY <1>2 DEF Start, LinkLength
<1> HIDE DEF g, y, ip
<1>4. j \in Nat /\ a \in Nat
  BY <1>1
<1>5. CASE j < g
  <2>1. j = 2
    BY <1>1, <1>5
  <2>2. g > 2 /\ t = VLAN
    BY <1>1, <1>2, <1>5, <2>1
  <2> QED BY <1>1, <1>2, <1>4, <2>2, Zenon DEF AtNetwork, g
<1>6. CASE ~(j < g)
  <2>1. j = g /\ g =< 2
    BY <1>1, <1>2, <1>6
  <2>2. a = ip /\ t = y
    BY <1>1, <1>3, <1>6, <2>1, Zenon
  <2> QED BY <1>1, <1>2, <1>4, <2>1, <2>2, Zenon DEF AtNetwork, g, y, ip
<1> QED BY <1>5, <1>6

(* The packet is not one of IP.                                              *)
LEMMA NotIpStep ==
  ASSUME NEW r, Accepted(r), NEW w, NEW chain, Way(r, w, chain),
         NEW a, NEW e, NEW t, AtNetwork(r, w, a, e, t), t \notin {IPv4, IPv6}
  PROVE  Blocked(r, w)
<1>1. t # Type(r)
  BY TypesDiffer
<1>2. w.tags > 2
  BY <1>1, Zenon DEF AtNetwork
<1> QED BY <1>2, MaximaAre, Zenon DEF Blocked

(* Where the datagram begins, as numbers.                                    *)
LEMMA LengthsAre ==
  ASSUME NEW r, Accepted(r), NEW w, NEW chain, Way(r, w, chain)
  PROVE  LET ip == Start(r, w)
             i == w.inner
             p == N(r)
             u == UdpStart(r, w)
             l == TotalLength(r, w)
         IN  /\ ip \in Nat /\ i \in Nat /\ p \in Nat /\ u \in Nat /\ l \in Nat
             /\ u = ip + (IF V4(r) THEN 20 + i ELSE 40 + i)
             /\ l = (u + 8) + p
<1> DEFINE ip == Start(r, w)
           i == w.inner
           p == N(r)
           u == UdpStart(r, w)
           l == TotalLength(r, w)
           h == HeaderLength(r)
<1>1. /\ ip \in Nat /\ h \in Nat /\ i \in Nat /\ p \in Nat /\ u \in Nat
      /\ u = (ip + h) + i
      /\ l = (u + 8) + p
  BY WayIs
<1>2. h = IF V4(r) THEN 20 ELSE 40
  BY Zenon DEF HeaderLength
<1> HIDE DEF ip, i, p, u, l, h
<1>3. l \in Nat
  BY <1>1
<1>4. u = ip + (IF V4(r) THEN 20 + i ELSE 40 + i)
  <2>1. CASE V4(r)
    BY <1>1, <1>2, <2>1
  <2>2. CASE ~V4(r)
    BY <1>1, <1>2, <2>2
  <2> QED BY <2>1, <2>2
<1> QED BY <1>1, <1>3, <1>4, Zenon DEF ip, i, p, u, l

(* DecapIpv4.                                                                *)
LEMMA Ipv4Step ==
  ASSUME NEW r, Accepted(r), NEW w, NEW chain, Way(r, w, chain),
         NEW f, Layout(f, r, w, chain), w.captured = Len(f),
         NEW a, NEW e, NEW t, AtNetwork(r, w, a, e, t), t = IPv4
  PROVE  LET h == 4 * (f[a + 0 + 1] % 16)
             m == WordAt(f, a + 2)
             s == e - a
         IN  /\ s < 20 => Blocked(r, w)
             /\ ~(s < 20) =>
                  /\ h > s => Blocked(r, w)
                  /\ f[a + 0 + 1] \div 16 = 4 /\ ~(h < 20) /\ f[a + 9 + 1] = UDP
                  /\ SubSeq(f, a + 13, a + 16) = r.src
                  /\ SubSeq(f, a + 17, a + 20) = r.dst
                  /\ ~(h > s) =>
                       AtUdp(r, w, a + h, IF h =< m /\ m =< s THEN a + m ELSE e)
<1> DEFINE ip == Start(r, w)
           i == w.inner
           p == N(r)
           u == UdpStart(r, w)
           l == TotalLength(r, w)
           lf == Len(f)
           h == 4 * (f[a + 0 + 1] % 16)
           m == WordAt(f, a + 2)
           s == e - a
<1>1. /\ V4(r) /\ a = ip /\ w.tags =< 2 /\ e = lf /\ a \in Nat /\ a =< e
  <2>1. t # VLAN
    BY TypesDiffer
  <2>2. t = Type(r)
    BY <2>1, Zenon DEF AtNetwork
  <2>3. V4(r)
    BY <2>2, TypesDiffer
  <2> QED BY <2>1, <2>3, Zenon DEF AtNetwork
<1>2. /\ ip \in Nat /\ i \in Nat /\ p \in Nat /\ u \in Nat /\ l \in Nat
      /\ u = ip + (20 + i)
      /\ l = (u + 8) + p
  <2>1. u = ip + (IF V4(r) THEN 20 + i ELSE 40 + i)
    BY LengthsAre
  <2>2. u = ip + (20 + i)
    BY <1>1, <2>1, Zenon
  <2> QED BY <2>2, LengthsAre
<1>3. f \in Seq(Nat) /\ lf \in Nat
  <2>1. f \in Seq(Nat)
    BY Zenon DEF Layout
  <2> QED BY <2>1
<1>4. ASSUME ip + 20 =< lf
      PROVE  /\ f[a + 0 + 1] \div 16 = 4
             /\ h = 20 + i
             /\ f[a + 9 + 1] = UDP
             /\ m = (28 + i) + p
             /\ SubSeq(f, a + 13, a + 16) = r.src
             /\ SubSeq(f, a + 17, a + 20) = r.dst
  <2>1. /\ f[ip + 0 + 1] \div 16 = 4
        /\ 4 * (f[ip + 0 + 1] % 16) = 20 + w.inner
        /\ f[ip + 9 + 1] = UDP
        /\ WordAt(f, ip + 2) = (28 + w.inner) + N(r)
        /\ SubSeq(f, ip + 13, ip + 16) = r.src
        /\ SubSeq(f, ip + 17, ip + 20) = r.dst
    BY <1>1, <1>4, Ipv4Read
  <2> QED BY <1>1, <2>1, Zenon
<1>5. w.known
  BY <1>1, Zenon DEF Way
<1> HIDE DEF ip, i, p, u, l, lf, h, m
<1>6. ASSUME s < 20
      PROVE  Blocked(r, w)
  <2>1. lf < u + 8
    BY <1>1, <1>2, <1>3, <1>6
  <2> QED BY <2>1, Zenon DEF Blocked, lf, u
<1>7. ASSUME ~(s < 20)
      PROVE  ip + 20 =< lf
  BY <1>1, <1>2, <1>3, <1>7
<1>8. ASSUME ~(s < 20), h > s
      PROVE  Blocked(r, w)
  <2>1. h = 20 + i
    BY <1>4, <1>7, <1>8
  <2>2. lf < u + 8
    BY <1>1, <1>2, <1>3, <1>8, <2>1
  <2> QED BY <2>2, Zenon DEF Blocked, lf, u
<1>9. ASSUME ~(s < 20), ~(h > s)
      PROVE  AtUdp(r, w, a + h, IF h =< m /\ m =< s THEN a + m ELSE e)
  <2> DEFINE c == a + h
             d == IF h =< m /\ m =< s THEN a + m ELSE e
  <2>1. h = 20 + i /\ m = (28 + i) + p
    BY <1>4, <1>7, <1>9
  <2>2. c = u
    BY <1>1, <1>2, <2>1
  <2>3. h =< m /\ (m =< s <=> l =< lf) /\ a + m = l
    BY <1>1, <1>2, <1>3, <2>1
  <2>4. d = IF l =< lf THEN l ELSE lf
    BY <1>1, <2>3, Zenon
  <2>5. c =< e
    BY <1>1, <1>2, <1>3, <1>9, <2>1
  <2> HIDE DEF c, d
  <2>6. c =< d
    BY <1>1, <1>2, <1>3, <2>2, <2>4, <2>5
  <2>7. AtUdp(r, w, c, d)
    BY <1>1, <1>5, <2>2, <2>4, <2>6, Zenon DEF AtUdp, u, l, lf
  <2> QED BY <2>7, Zenon DEF c, d
<1>10. ASSUME ~(s < 20)
       PROVE  ~(h < 20)
  <2>1. h = 20 + i
    BY <1>4, <1>7, <1>10
  <2> QED BY <1>2, <2>1
<1> QED BY <1>4, <1>6, <1>7, <1>8, <1>9, <1>10, Zenon DEF h, m

(* DecapIpv6.                                                                *)
LEMMA Ipv6Step ==
  ASSUME NEW r, Accepted(r), NEW w, NEW chain, Way(r, w, chain),
         NEW f, Layout(f, r, w, chain), w.captured = Len(f),
         NEW off, Headers(chain, off),
         NEW a, NEW e, NEW t, AtNetwork(r, w, a, e, t), t = IPv6
  PROVE  /\ e - a < 40 => Blocked(r, w)
         /\ ~(e - a < 40) =>
              /\ f[a + 0 + 1] \div 16 = 6
              /\ SubSeq(f, a + 9, a + 24) = r.src
              /\ SubSeq(f, a + 25, a + 40) = r.dst
              /\ InExtensions(r, w, chain, off, a + 40, e, f[a + 6 + 1], 8)
<1> DEFINE ip == Start(r, w)
           i == w.inner
           u == UdpStart(r, w)
           lf == Len(f)
           s == e - a
<1>1. /\ ~V4(r) /\ a = ip /\ w.tags =< 2 /\ e = lf /\ a \in Nat /\ a =< e
  <2>1. t # VLAN
    BY TypesDiffer
  <2>2. t = Type(r)
    BY <2>1, Zenon DEF AtNetwork
  <2>3. ~V4(r)
    BY <2>2, TypesDiffer
  <2> QED BY <2>1, <2>3, Zenon DEF AtNetwork
<1>2. /\ ip \in Nat /\ i \in Nat /\ u \in Nat
      /\ u = ip + (40 + i)
  <2>1. u = ip + (IF V4(r) THEN 20 + i ELSE 40 + i)
    BY LengthsAre
  <2>2. u = ip + (40 + i)
    BY <1>1, <2>1, Zenon
  <2> QED BY <2>2, LengthsAre
<1>3. f \in Seq(Nat) /\ lf \in Nat
  <2>1. f \in Seq(Nat)
    BY Zenon DEF Layout
  <2> QED BY <2>1
<1> HIDE DEF ip, i, u, lf
<1>4. ASSUME s < 40
      PROVE  Blocked(r, w)
  <2>1. lf < u + 8
    BY <1>1, <1>2, <1>3, <1>4
  <2> QED BY <2>1, Zenon DEF Blocked, lf, u
<1>5. ASSUME ~(s < 40)
      PROVE  /\ f[a + 0 + 1] \div 16 = 6
             /\ SubSeq(f, a + 9, a + 24) = r.src
             /\ SubSeq(f, a + 25, a + 40) = r.dst
             /\ InExtensions(r, w, chain, off, a + 40, e, f[a + 6 + 1], 8)
  <2>1. ip + 40 =< lf
    BY <1>1, <1>2, <1>3, <1>5
  <2>2. /\ f[ip + 0 + 1] \div 16 = 6
        /\ f[ip + 6 + 1] = HeaderAt(chain, 1)
        /\ SubSeq(f, ip + 9, ip + 24) = r.src
        /\ SubSeq(f, ip + 25, ip + 40) = r.dst
    BY <1>1, <2>1, Ipv6Read DEF ip, lf
  <2> DEFINE y == f[a + 6 + 1]
             o == 0
             b == a + 40
  <2>3. y = HeaderAt(chain, 1)
    BY <1>1, <2>2, Zenon
  <2>4. Len(chain) \in Nat
    BY HeaderIs, Zenon DEF Way
  <2>5. o \in 0 .. 8 /\ 8 = 8 - o /\ o =< Len(chain) /\ o + 1 = 1 /\ 1 .. o = {} /\ o = 0
    BY <2>4
  <2>6. off[1] = 0
    BY Zenon DEF Headers
  <2>7. b = (ip + 40) + off[1] /\ b =< e
    BY <1>1, <1>2, <2>1, <2>6
  <2> HIDE DEF y, o, b
  <2>8. InExtensions(r, w, chain, off, b, e, y, 8)
    BY <1>1, <2>3, <2>5, <2>7, Zenon DEF InExtensions, ip, lf
  <2> QED BY <1>1, <2>2, <2>8, Zenon DEF y, b
<1> QED BY <1>4, <1>5

(* StripEthernet, StripSll and StripRaw.                                     *)
LEMMA LinkStep ==
  ASSUME NEW r, Accepted(r), NEW w, NEW chain, Way(r, w, chain),
         NEW f, Layout(f, r, w, chain), w.captured = Len(f)
  PROVE  /\ r.link = EN10MB => IF Len(f) < 14 THEN Blocked(r, w)
                               ELSE InTags(r, w, 14, Len(f), WordAt(f, 12), 2)
         /\ r.link = LINUX_SLL => IF Len(f) < 16 THEN Blocked(r, w)
                                  ELSE AtNetwork(r, w, 16, Len(f), WordAt(f, 14))
         /\ r.link = RAW =>
              IF Len(f) < 1 THEN Blocked(r, w)
              ELSE /\ f[1] \div 16 \in {4, 6}
                   /\ AtNetwork(r, w, 0, Len(f),
                                IF f[1] \div 16 = 4 THEN IPv4 ELSE IPv6)
<1> DEFINE ip == Start(r, w)
           u == UdpStart(r, w)
           lf == Len(f)
           g == w.tags
<1>1. /\ ip \in Nat /\ u \in Nat /\ ip =< u /\ g \in Nat /\ lf \in Nat
  <2>1. /\ ip \in Nat /\ HeaderLength(r) \in Nat /\ w.inner \in Nat
        /\ u = (ip + HeaderLength(r)) + w.inner
    BY WayIs
  <2>2. g \in Nat
    BY Zenon DEF Way
  <2>3. lf \in Nat
    <3>1. f \in Seq(Nat)
      BY Zenon DEF Layout
    <3> QED BY <3>1
  <2> DEFINE h == HeaderLength(r)
             i == w.inner
  <2> HIDE DEF h, i, ip, u
  <2>4. /\ ip \in Nat /\ h \in Nat /\ i \in Nat /\ u = (ip + h) + i
    BY <2>1 DEF h, i
  <2>5. u \in Nat /\ ip =< u
    BY <2>4
  <2> QED BY <2>2, <2>3, <2>4, <2>5
<1>2. EN10MB # LINUX_SLL /\ RAW # EN10MB /\ RAW # LINUX_SLL
  BY DEF EN10MB, LINUX_SLL, RAW
<1>3. r.link # EN10MB => g = 0
  BY Zenon DEF Way
<1>4. ip = LinkLength(r) + (4 * g)
  BY DEF Start
<1> HIDE DEF ip, u, lf, g
<1>5. ASSUME r.link = EN10MB
      PROVE  IF lf < 14 THEN Blocked(r, w)
             ELSE InTags(r, w, 14, lf, WordAt(f, 12), 2)
  <2>1. LinkLength(r) = 14
    BY <1>5 DEF LinkLength
  <2>2. CASE lf < 14
    <3>1. lf < u + 8
      BY <1>1, <1>4, <2>1, <2>2
    <3> QED BY <2>2, <3>1, Zenon DEF Blocked, lf, u
  <2>3. CASE ~(lf < 14)
    <3> DEFINE j == 0
    <3>1. /\ j \in Nat /\ j \in 0 .. 2 /\ 2 = 2 - j /\ j =< g /\ 14 = 14 + (4 * j)
          /\ 14 =< lf /\ 14 + (4 * j) =< lf /\ 12 + (4 * j) = 12
      BY <1>1, <2>3
    <3> HIDE DEF j
    <3>2. \A k \in Nat : k =< w.tags /\ 14 + (4 * k) =< Len(f) =>
             WordAt(f, 12 + (4 * k)) = IF k < w.tags THEN VLAN ELSE Type(r)
      BY <1>5, TypeRead
    <3>3. WordAt(f, 12) = IF j < g THEN VLAN ELSE Type(r)
      BY <3>1, <3>2, Zenon DEF g, lf
    <3>4. lf = w.captured
      BY Zenon DEF lf
    <3>5. InTags(r, w, 14, lf, WordAt(f, 12), 2)
      BY <1>5, <3>1, <3>3, <3>4 DEF InTags, g
    <3> QED BY <2>3, <3>5, Zenon
  <2> QED BY <2>2, <2>3
<1>6. ASSUME r.link = LINUX_SLL
      PROVE  IF lf < 16 THEN Blocked(r, w)
             ELSE AtNetwork(r, w, 16, lf, WordAt(f, 14))
  <2>1. LinkLength(r) = 16
    BY <1>2, <1>6 DEF LinkLength
  <2>2. CASE lf < 16
    <3>1. lf < u + 8
      BY <1>1, <1>4, <2>1, <2>2
    <3> QED BY <2>2, <3>1, Zenon DEF Blocked, lf, u
  <2>3. CASE ~(lf < 16)
    <3>1. 16 =< lf /\ 16 \in Nat /\ ip = 16 /\ g =< 2
      BY <1>1, <1>2, <1>3, <1>4, <1>6, <2>1, <2>3
    <3>2. WordAt(f, 14) = Type(r)
      BY <1>6, <3>1, TypeRead DEF lf
    <3>3. AtNetwork(r, w, 16, lf, WordAt(f, 14))
      BY <3>1, <3>2, Zenon DEF AtNetwork, ip, g, lf
    <3> QED BY <2>3, <3>3, Zenon
  <2> QED BY <2>2, <2>3
<1>7. ASSUME r.link = RAW
      PROVE  IF lf < 1 THEN Blocked(r, w)
             ELSE /\ f[1] \div 16 \in {4, 6}
                  /\ AtNetwork(r, w, 0, lf, IF f[1] \div 16 = 4 THEN IPv4 ELSE IPv6)
  <2>1. CASE lf < 1
    <3>1. lf < u + 8
      BY <1>1, <2>1
    <3> QED BY <2>1, <3>1, Zenon DEF Blocked, lf, u
  <2>2. CASE ~(lf < 1)
    <3>1. 1 =< lf /\ 0 \in Nat /\ 0 =< lf /\ g =< 2
      BY <1>1, <1>2, <1>3, <1>7, <2>2
    <3>2. ip = 0 /\ f[1] \div 16 = IF V4(r) THEN 4 ELSE 6
      BY <1>7, <3>1, FirstByteRead DEF ip, lf
    <3> DEFINE y == f[1] \div 16
               t == IF y = 4 THEN IPv4 ELSE IPv6
    <3>3. y \in {4, 6} /\ (y = 4 <=> V4(r))
      BY <3>2
    <3>4. t = Type(r)
      BY <3>3, Zenon DEF Type
    <3> HIDE DEF y, t
    <3>5. AtNetwork(r, w, 0, lf, t)
      BY <3>1, <3>2, <3>4, Zenon DEF AtNetwork, ip, g, lf
    <3> QED BY <2>2, <3>3, <3>5, Zenon DEF y, t
  <2> QED BY <2>1, <2>2
<1> QED BY <1>5, <1>6, <1>7, Zenon DEF lf

(* SkipExtension.                                                            *)
LEMMA ExtensionStep ==
  ASSUME NEW r, Accepted(r), NEW w, NEW chain, Way(r, w, chain),
         NEW f, Layout(f, r, w, chain), w.captured = Len(f),
         NEW off, Headers(chain, off),
         NEW a, NEW e, NEW t, NEW n, InExtensions(r, w, chain, off, a, e, t, n),
         t \in ExtensionHeader, n > 0
  PROVE  LET x == IF t = FRAGMENT THEN 8 ELSE 8 * (f[a + 1 + 1] + 1)
         IN  /\ e - a < 2 => Blocked(r, w)
             /\ ~(e - a < 2) /\ e - a < x => Blocked(r, w)
             /\ ~(e - a < 2) /\ ~(e - a < x) =>
                  InExtensions(r, w, chain, off, a + x, e, f[a + 0 + 1], n - 1)
<1> DEFINE m == Len(chain)
           lf == Len(f)
           u == UdpStart(r, w)
           c == Start(r, w) + 40
<1>1. PICK i \in 0 .. 8 : /\ n = 8 - i
                          /\ i =< m
                          /\ a = c + off[i + 1]
                          /\ a =< e
                          /\ t = HeaderAt(chain, i + 1)
                          /\ \A j \in 1 .. i : chain[j].header \in ExtensionHeader
  BY Zenon DEF InExtensions
<1>2. ~V4(r) /\ w.tags =< 2 /\ e = lf /\ f \in Seq(Nat) /\ w.captured = lf
  BY Zenon DEF InExtensions, Layout
<1>3. m \in Nat
  BY HeaderIs, Zenon DEF Way
<1>4. lf \in Nat /\ c \in Nat /\ u \in Nat
  <2>1. Start(r, w) \in Nat /\ u \in Nat
    BY WayIs
  <2> QED BY <1>2, <2>1
<1>5. i \in Nat /\ i + 1 \in Nat /\ i # m => i + 1 \in 1 .. m
  BY <1>1, <1>3
<1>6. i # m
  <2>1. UDP \notin ExtensionHeader
    BY DEF UDP, ExtensionHeader, FRAGMENT
  <2>2. i = m => ~(i + 1 =< m)
    BY <1>1, <1>3
  <2>3. i = m => t = UDP
    BY <1>1, <2>2, Zenon DEF HeaderAt
  <2> QED BY <2>1, <2>3, Zenon
<1>7. t = chain[i + 1].header
  <2>1. i + 1 =< m
    BY <1>1, <1>3, <1>6
  <2> QED BY <1>1, <2>1, Zenon DEF HeaderAt
<1> DEFINE k == i + 1
<1>8. k \in 1 .. m /\ k \in Nat /\ a = c + off[k]
  BY <1>1, <1>3, <1>6
<1> DEFINE z == ExtensionLength(chain, k)
           y == HeaderAt(chain, k + 1)
           x == IF t = FRAGMENT THEN 8 ELSE 8 * (f[a + 1 + 1] + 1)
<1> HIDE DEF k
<1>9. /\ a \in Nat /\ z \in Nat /\ 8 =< z
      /\ a + z = c + off[k + 1]
      /\ a + z =< u
      /\ a + 2 =< lf => /\ f[a + 0 + 1] = y
                        /\ f[a + 1 + 1] = chain[k].units
  <2>1. ~V4(r) /\ k \in 1 .. Len(chain) /\ a = (Start(r, w) + 40) + off[k]
    BY <1>2, <1>8, Zenon
  <2>2. ExtensionIsAt(f, r, w, chain, off, k, a)
    BY <2>1, ExtensionRead, Zenon
  <2> QED BY <2>2, Zenon DEF ExtensionIsAt
<1>10. a + 2 =< lf => x = z
  BY <1>7, <1>9, Zenon DEF ExtensionLength, k
<1> DEFINE s == e - a
<1> HIDE DEF m, lf, u, c, z, y, x
<1>11. ASSUME s < 2
       PROVE  Blocked(r, w)
  <2>1. lf < u + 8
    BY <1>2, <1>4, <1>9, <1>11
  <2> QED BY <2>1, <1>2, Zenon DEF Blocked, u
<1>12. ASSUME ~(s < 2)
       PROVE  a + 2 =< lf
  BY <1>2, <1>4, <1>9, <1>12
<1>13. ASSUME ~(s < 2), s < x
       PROVE  Blocked(r, w)
  <2>1. x = z
    BY <1>10, <1>12, <1>13
  <2>2. lf < u + 8
    BY <1>2, <1>4, <1>9, <1>13, <2>1
  <2> QED BY <2>2, <1>2, Zenon DEF Blocked, u
<1>14. ASSUME ~(s < 2), ~(s < x)
       PROVE  InExtensions(r, w, chain, off, a + x, e, f[a + 0 + 1], n - 1)
  <2>1. x = z /\ f[a + 0 + 1] = y
    BY <1>9, <1>10, <1>12, <1>14
  <2>2. /\ k \in 0 .. 8 /\ n - 1 = 8 - k /\ k =< m
    BY <1>1, <1>3, <1>6 DEF k
  <2>3. a + x = c + off[k + 1] /\ a + x =< e
    BY <1>2, <1>4, <1>9, <1>14, <2>1
  <2>4. \A j \in 1 .. k : chain[j].header \in ExtensionHeader
    <3>1. \A j \in 1 .. k : j \in 1 .. i \/ j = i + 1
      BY <1>1 DEF k
    <3> QED BY <1>1, <1>7, <3>1, Zenon
  <2>5. e = w.captured
    BY <1>2, Zenon
  <2> DEFINE b == a + x
             q == f[a + 0 + 1]
             o == n - 1
  <2> HIDE DEF b, q, o
  <2>6. InExtensions(r, w, chain, off, b, e, q, o)
    BY <1>2, <2>1, <2>2, <2>3, <2>4, <2>5, Zenon DEF InExtensions, c, m, b, q, o, y
  <2> QED BY <2>6, Zenon DEF b, q, o
<1> QED BY <1>11, <1>13, <1>14, Zenon DEF x

(* ExtensionsSkipped.                                                        *)
LEMMA ExtensionsDone ==
  ASSUME NEW r, Accepted(r), NEW w, NEW chain, Way(r, w, chain),
         NEW f, Layout(f, r, w, chain), w.captured = Len(f),
         NEW off, Headers(chain, off),
         NEW a, NEW e, NEW t, NEW n, InExtensions(r, w, chain, off, a, e, t, n),
         t \notin ExtensionHeader \/ n = 0
  PROVE  /\ t # UDP => Blocked(r, w)
         /\ t = UDP => AtUdp(r, w, a, e)
<1> DEFINE m == Len(chain)
           u == UdpStart(r, w)
           c == Start(r, w) + 40
<1>1. PICK i \in 0 .. 8 : /\ n = 8 - i
                          /\ i =< m
                          /\ a = c + off[i + 1]
                          /\ a =< e
                          /\ t = HeaderAt(chain, i + 1)
                          /\ \A j \in 1 .. i : chain[j].header \in ExtensionHeader
  BY Zenon DEF InExtensions
<1>2. ~V4(r) /\ w.tags =< 2 /\ e = w.captured
  BY Zenon DEF InExtensions
<1>3. /\ m \in Nat /\ DOMAIN chain = 1 .. m
      /\ \A j \in DOMAIN chain : chain[j].header # UDP
  <2>1. chain \in Chain \cup {<<>>}
    BY Zenon DEF Way
  <2>2. /\ m \in Nat /\ DOMAIN chain = 1 .. m
        /\ \A j \in DOMAIN chain : /\ chain[j].header \in Nat
                                   /\ chain[j].header # UDP
                                   /\ chain[j].units \in Nat
    BY <2>1, HeaderIs
  <2> QED BY <2>2, Zenon
<1>4. /\ w.headers = m
      /\ w.known <=> \A j \in DOMAIN chain : chain[j].header \in ExtensionHeader
  BY <1>2, Zenon DEF Way
<1>5. off[m + 1] = w.inner /\ u = (Start(r, w) + 40) + w.inner
  <2>1. w.inner = Len(Extensions(chain))
    BY <1>2, Zenon DEF Way
  <2>2. off[m + 1] = Len(Extensions(chain))
    BY Zenon DEF Headers
  <2>3. HeaderLength(r) = 40
    BY <1>2, Zenon DEF HeaderLength
  <2>4. u = (Start(r, w) + HeaderLength(r)) + w.inner
    BY WayIs
  <2> QED BY <2>1, <2>2, <2>3, <2>4, Zenon
<1> HIDE DEF m, u, c
<1>6. CASE i = m
  <2>1. ~(i + 1 =< m)
    BY <1>3, <1>6
  <2>2. t = UDP
    BY <1>1, <2>1, Zenon DEF HeaderAt, m
  <2>3. w.known
    BY <1>1, <1>3, <1>4, <1>6, Zenon
  <2>4. w.headers =< 8
    BY <1>1, <1>4, <1>6
  <2>5. a = u
    BY <1>1, <1>5, <1>6, Zenon DEF c
  <2>6. AtUdp(r, w, a, e)
    BY <1>1, <1>2, <2>3, <2>4, <2>5, Zenon DEF AtUdp, u
  <2> QED BY <2>2, <2>6
<1>7. CASE i # m
  <2>1. i + 1 =< m /\ i + 1 \in 1 .. m
    BY <1>1, <1>3, <1>7
  <2>2. t = chain[i + 1].header /\ t # UDP
    BY <1>1, <1>3, <2>1, Zenon DEF HeaderAt, m
  <2>3. CASE t \notin ExtensionHeader
    <3>1. ~w.known
      BY <1>3, <1>4, <2>1, <2>2, <2>3, Zenon
    <3> QED BY <2>2, <3>1, Zenon DEF Blocked
  <2>4. CASE n = 0
    <3>1. w.headers > 8
      BY <1>1, <1>3, <1>4, <1>7, <2>4
    <3> QED BY <1>2, <2>2, <3>1, MaximaAre, Zenon DEF Blocked
  <2> QED BY <2>3, <2>4
<1> QED BY <1>6, <1>7

(* DecapUdp.                                                                 *)
LEMMA UdpStep ==
  ASSUME NEW r, Accepted(r), NEW w, NEW chain, Way(r, w, chain),
         NEW f, Layout(f, r, w, chain), w.captured = Len(f),
         NEW a, NEW e, AtUdp(r, w, a, e)
  PROVE  LET m == WordAt(f, a + 4)
             s == e - a
             end == IF 8 =< m /\ m =< s THEN a + m ELSE e
         IN  /\ s < 8 => Blocked(r, w)
             /\ ~(s < 8) =>
                  /\ ~Blocked(r, w)
                  /\ [src      |-> r.src,
                      dst      |-> r.dst,
                      src_port |-> WordAt(f, a),
                      dst_port |-> WordAt(f, a + 2),
                      payload  |-> SubSeq(f, a + 9, end)] = Delivered(r, w)
<1> DEFINE u == UdpStart(r, w)
           l == TotalLength(r, w)
           p == N(r)
           lf == Len(f)
           m == WordAt(f, a + 4)
           s == e - a
           end == IF 8 =< m /\ m =< s THEN a + m ELSE e
           h == u + 8
<1>1. /\ u \in Nat /\ l \in Nat /\ p \in Nat /\ l = (u + 8) + p
  BY LengthsAre
<1>2. /\ a = u /\ a =< e /\ w.tags =< 2 /\ w.known /\ w.captured = lf
      /\ (~V4(r) => w.headers =< 8)
      /\ e = IF V4(r) /\ l =< lf THEN l ELSE lf
  BY Zenon DEF AtUdp
<1>3. f \in Seq(Nat) /\ lf \in Nat
  <2>1. f \in Seq(Nat)
    BY Zenon DEF Layout
  <2> QED BY <2>1
<1>4. ASSUME h =< lf
      PROVE  /\ WordAt(f, a) = r.src_port
             /\ WordAt(f, a + 2) = r.dst_port
             /\ m = 8 + p
             /\ l =< lf => SubSeq(f, a + 9, a + (8 + p)) = r.payload
             /\ lf < l => SubSeq(f, a + 9, lf) = SubSeq(r.payload, 1, lf - h)
  <2>1. /\ WordAt(f, u) = r.src_port
        /\ WordAt(f, u + 2) = r.dst_port
        /\ WordAt(f, u + 4) = 8 + p
        /\ (u + 8) + p =< lf => SubSeq(f, u + 9, u + (8 + p)) = r.payload
        /\ lf < (u + 8) + p => SubSeq(f, u + 9, lf) = SubSeq(r.payload, 1, lf - h)
    BY <1>4, UdpRead
  <2> QED BY <1>1, <1>2, <2>1, Zenon
<1>5. w.tags \in Nat /\ (~V4(r) => w.headers \in Nat)
  BY Zenon DEF Way
<1> HIDE DEF u, l, p, lf, m
<1>6. e = l \/ e = lf
  BY <1>2
<1>7. h \in Nat /\ h =< l /\ (e = l => l =< lf)
  BY <1>1, <1>2, <1>3
<1>8. ASSUME s < 8
      PROVE  Blocked(r, w)
  <2>1. lf < h
    BY <1>1, <1>2, <1>3, <1>6, <1>8
  <2> QED BY <1>2, <2>1, Zenon DEF Blocked, u
<1>9. ASSUME ~(s < 8)
      PROVE  h =< lf
  BY <1>1, <1>2, <1>3, <1>6, <1>7, <1>9
<1>10. ASSUME ~(s < 8)
       PROVE  ~Blocked(r, w)
  <2>1. ~(w.captured < h)
    BY <1>2, <1>3, <1>7, <1>9, <1>10
  <2>2. ~(w.tags > 2)
    BY <1>2, <1>5
  <2>3. ~(~V4(r) /\ w.headers > 8)
    BY <1>2, <1>5
  <2> QED BY <1>2, <2>1, <2>2, <2>3, MaximaAre, Zenon DEF Blocked, u
<1>11. ASSUME ~(s < 8)
       PROVE  SubSeq(f, a + 9, end) =
                LET n == w.captured - h IN IF n < p THEN SubSeq(r.payload, 1, n) ELSE r.payload
  <2>1. m = 8 + p
    BY <1>4, <1>9, <1>11
  <2>2. CASE l =< lf
    <3>1. 8 =< m /\ m =< s /\ a + m = a + (8 + p)
      BY <1>1, <1>2, <1>3, <1>6, <2>1, <2>2
    <3>2. end = a + (8 + p)
      BY <3>1, Zenon
    <3>3. ~(lf - h < p)
      BY <1>1, <1>3, <2>2
    <3> HIDE DEF end, h
    <3> QED BY <1>2, <1>4, <1>9, <1>11, <2>2, <3>2, <3>3, Zenon
  <2>3. CASE ~(l =< lf)
    <3>1. ~(m =< s) /\ lf < l /\ e = lf
      BY <1>1, <1>2, <1>3, <1>6, <2>1, <2>3
    <3>2. end = lf
      BY <3>1, Zenon
    <3>3. lf - h < p
      BY <1>1, <1>3, <3>1
    <3> HIDE DEF end, h
    <3> QED BY <1>2, <1>4, <1>9, <1>11, <3>1, <3>2, <3>3, Zenon
  <2> QED BY <2>2, <2>3
<1>12. ASSUME ~(s < 8)
       PROVE  [src      |-> r.src,
               dst      |-> r.dst,
               src_port |-> WordAt(f, a),
               dst_port |-> WordAt(f, a + 2),
               payload  |-> SubSeq(f, a + 9, end)] = Delivered(r, w)
  <2> HIDE DEF end
  <2>1. WordAt(f, a) = r.src_port /\ WordAt(f, a + 2) = r.dst_port
    BY <1>4, <1>9, <1>12
  <2> QED BY <1>11, <1>12, <2>1, Zenon DEF Delivered, u, p
<1> QED BY <1>8, <1>10, <1>12, Zenon DEF m

----------------------------------------------------------------------------
(* The inductive invariant.                                                  *)

WayType == [tags: Nat, inner: Nat, headers: Nat, known: BOOLEAN, captured: Nat]

Standing(r, w, chain, off, s, a, e, t, n, src, dst, result) ==
  \/ s = "link" /\ result = None
  \/ s = "tags" /\ result = None /\ InTags(r, w, a, e, t, n)
  \/ s = "network" /\ result = None /\ AtNetwork(r, w, a, e, t)
  \/ /\ s = "extensions" /\ result = None /\ src = r.src /\ dst = r.dst
     /\ InExtensions(r, w, chain, off, a, e, t, n)
  \/ /\ s = "udp" /\ result = None /\ src = r.src /\ dst = r.dst
     /\ AtUdp(r, w, a, e)
  \/ s = "done" /\ result = IF Blocked(r, w) THEN None ELSE Delivered(r, w)

Walks(r, w, chain, off, k) ==
  \E s, a, e, t, n, src, dst, result :
    /\ k = AWalk(s, a, e, t, n, src, dst, result)
    /\ Standing(r, w, chain, off, s, a, e, t, n, src, dst, result)

NewWalk == AWalk("link", 0, 0, 0, 0, <<>>, <<>>, None)

Sent(r, f, w) ==
  /\ Len(f) = TotalLength(r, w)
  /\ w.headers = 0 => Holds(f, Start(r, w), Packet(r))

Captured(r, f, w, chain, off, k) ==
  /\ w.captured = Len(f)
  /\ Walks(r, w, chain, off, k)

OnTheWay(ph, r, f, w, k) ==
  /\ Accepted(r)
  /\ \E chain, off :
       /\ Way(r, w, chain) /\ Layout(f, r, w, chain) /\ Headers(chain, off)
       /\ ph = "sent" => Sent(r, f, w)
       /\ ph = "captured" => Captured(r, f, w, chain, off, k)

Untouched(w) == w.tags = 0 /\ w.inner = 0 /\ w.headers = 0 /\ w.known

FrameInvariant ==
  /\ phase \in {"idle", "refused", "sent", "captured"}
  /\ way \in WayType
  /\ phase = "idle" => Untouched(way)
  /\ phase # "captured" => walk = NewWalk
  /\ phase \in {"sent", "captured"} => OnTheWay(phase, request, frame, way, walk)

(* What each network action writes into the history: a tag.                  *)
LEMMA WayTagged ==
  ASSUME NEW w \in WayType
  PROVE  LET v == [w EXCEPT !.tags = @ + 1] IN
         /\ v \in WayType
         /\ v.tags = w.tags + 1 /\ v.inner = w.inner /\ v.headers = w.headers
         /\ v.known = w.known
BY DEF WayType

(* An option.                                                                *)
LEMMA WayWithOption ==
  ASSUME NEW w \in WayType
  PROVE  LET v == [w EXCEPT !.headers = 1, !.inner = 4] IN
         /\ v \in WayType
         /\ v.tags = w.tags /\ v.inner = 4 /\ v.headers = 1 /\ v.known = w.known
BY DEF WayType

Extended(v, w, x, y, z) ==
  /\ v \in WayType
  /\ v.tags = w.tags /\ v.inner = y /\ v.headers = x /\ v.known = z

(* A chain of extension headers.                                             *)
LEMMA WayWithExtensions ==
  ASSUME NEW w \in WayType, NEW x \in Nat, NEW y \in Nat, NEW z \in BOOLEAN
  PROVE  Extended([w EXCEPT !.headers = x, !.inner = y, !.known = z], w, x, y, z)
BY DEF WayType, Extended

(* The length that was captured.                                             *)
LEMMA WayCaptured ==
  ASSUME NEW w \in WayType, NEW n \in Nat
  PROVE  LET v == [w EXCEPT !.captured = n] IN
         /\ v \in WayType
         /\ v.tags = w.tags /\ v.inner = w.inner /\ v.headers = w.headers
         /\ v.known = w.known /\ v.captured = n
BY DEF WayType

(* IpStart is where the layout has the IP header.                            *)
LEMMA IpStartIs ==
  ASSUME Accepted(request)
  PROVE  IpStart = Start(request, way)
<1>1. Len(LinkHeader(request)) = LinkLength(request)
  BY LinkHeaderIs
<1> QED BY <1>1, Zenon DEF IpStart, Start

(* The initial state has the invariant.                                      *)
LEMMA InitIs == Init => FrameInvariant
<1> SUFFICES ASSUME Init
             PROVE  FrameInvariant
  OBVIOUS
<1>1. phase = "idle" /\ way \in WayType /\ Untouched(way)
  BY DEF Init, WayType, Untouched
<1>2. walk = NewWalk
  BY DEF Init, NewWalk, AWalk
<1>3. phase \notin {"sent", "captured"}
  BY <1>1
<1> QED BY <1>1, <1>2, <1>3, Zenon DEF FrameInvariant

(* Each action keeps the invariant. A frame that was built has the layout of *)
(* no network layers.                                                        *)
LEMMA EncapsulateStep ==
  ASSUME FrameInvariant, NEW r \in Request, Encapsulate(r)
  PROVE  FrameInvariant'
<1> DEFINE f == LinkHeader(r) \o Packet(r)
<1>1. /\ phase = "idle" /\ Valid(r) /\ request' = r /\ phase' = "sent"
      /\ frame' = f /\ way' = way /\ walk' = walk
  BY DEF Encapsulate
<1>2. "idle" # "captured" /\ "sent" # "captured" /\ "sent" # "idle"
  OBVIOUS
<1>3. way \in WayType /\ Untouched(way) /\ walk = NewWalk
  BY <1>1, <1>2, Zenon DEF FrameInvariant
<1>4. Accepted(r)
  BY <1>1, Zenon DEF Accepted
<1>5. /\ Layout(f, r, way, <<>>)
      /\ Way(r, way, <<>>)
      /\ Len(f) = TotalLength(r, way)
      /\ Holds(f, Start(r, way), Packet(r))
  BY <1>3, <1>4, EncapsulatedLayout DEF Untouched
<1> HIDE DEF f
<1>6. PICK off : Headers(<<>>, off)
  BY HeadersLie
<1>7. Sent(r, f, way)
  BY <1>5, Zenon DEF Sent
<1>8. OnTheWay("sent", r, f, way, walk)
  BY <1>2, <1>4, <1>5, <1>6, <1>7, Zenon DEF OnTheWay
<1> QED BY <1>1, <1>2, <1>3, <1>8, Zenon DEF FrameInvariant

(* A tag moves the packet by four bytes.                                     *)
LEMMA TagsStep ==
  ASSUME FrameInvariant, Tag
  PROVE  FrameInvariant'
<1> DEFINE g == SubSeq(frame, 1, 12) \o (Word(VLAN) \o <<0, 5>>)
                  \o SubSeq(frame, 13, Len(frame))
           v == [way EXCEPT !.tags = @ + 1]
           r == request
           f == frame
           w == way
           k == walk
<1>1. /\ phase = "sent" /\ request' = r /\ phase' = phase /\ frame' = g
      /\ way' = v /\ walk' = k /\ r.link = EN10MB
  BY DEF Tag
<1>2. "sent" # "captured" /\ "sent" # "idle" /\ "sent" \in {"sent", "captured"}
  OBVIOUS
<1>3. w \in WayType /\ k = NewWalk /\ OnTheWay("sent", r, f, w, k)
  BY <1>1, <1>2, Zenon DEF FrameInvariant
<1>4. PICK chain, off : /\ Accepted(r) /\ Way(r, w, chain) /\ Layout(f, r, w, chain)
                        /\ Headers(chain, off) /\ Sent(r, f, w)
  BY <1>3, Zenon DEF OnTheWay
<1>5. /\ v \in WayType
      /\ v.tags = w.tags + 1 /\ v.inner = w.inner /\ v.headers = w.headers
      /\ v.known = w.known
  BY <1>3, WayTagged
<1>6. g = Put(f, 12, Word(VLAN) \o <<0, 5>>)
  <2>1. 12 + 1 = 13
    OBVIOUS
  <2> QED BY <2>1 DEF Put
<1> HIDE DEF g, v, r, f, w, k
<1>7. /\ Layout(g, r, v, chain)
      /\ Way(r, v, chain)
      /\ Len(g) = TotalLength(r, v)
      /\ Holds(f, Start(r, w), Packet(r)) => Holds(g, Start(r, v), Packet(r))
  <2>1. Len(f) = TotalLength(r, w)
    BY <1>4, Zenon DEF Sent
  <2> DEFINE gg == Put(f, 12, Word(VLAN) \o <<0, 5>>)
  <2>2. /\ Layout(gg, r, v, chain)
        /\ Way(r, v, chain)
        /\ Len(gg) = TotalLength(r, v)
        /\ Holds(f, Start(r, w), Packet(r)) => Holds(gg, Start(r, v), Packet(r))
    BY <1>1, <1>4, <1>5, <2>1, TaggedLayout
  <2> HIDE DEF gg
  <2> QED BY <1>6, <2>2, Zenon DEF gg
<1>8. Sent(r, g, v)
  BY <1>4, <1>5, <1>7, Zenon DEF Sent
<1>9. OnTheWay("sent", r, g, v, k)
  BY <1>2, <1>4, <1>7, <1>8, Zenon DEF OnTheWay
<1> QED BY <1>1, <1>2, <1>3, <1>5, <1>9, Zenon DEF FrameInvariant

(* An IPv4 option.                                                           *)
LEMMA AddOptionStep ==
  ASSUME FrameInvariant, AddOption
  PROVE  FrameInvariant'
<1> DEFINE v == [way EXCEPT !.headers = 1, !.inner = 4]
           r == request
           f == frame
           w == way
           k == walk
           ip == Start(r, w)
           h == Put([f EXCEPT ![(ip + 0) + 1] = 70], ip + 20, <<1, 1, 1, 1>>)
           h2 == WithOption(f, ip)
<1>1. /\ phase = "sent" /\ request' = r /\ phase' = phase
      /\ way' = v /\ walk' = k /\ V4(r) /\ w.headers = 0
  BY DEF AddOption, V4
<1>2. "sent" # "captured" /\ "sent" # "idle" /\ "sent" \in {"sent", "captured"}
  OBVIOUS
<1>3. w \in WayType /\ k = NewWalk /\ OnTheWay("sent", r, f, w, k)
  BY <1>1, <1>2, Zenon DEF FrameInvariant
<1>4. PICK chain, off : /\ Accepted(r) /\ Way(r, w, chain) /\ Layout(f, r, w, chain)
                        /\ Headers(chain, off) /\ Sent(r, f, w)
  BY <1>3, Zenon DEF OnTheWay
<1>5. /\ v \in WayType
      /\ v.tags = w.tags /\ v.inner = 4 /\ v.headers = 1 /\ v.known = w.known
  BY <1>3, WayWithOption
<1>6. w.known
  BY <1>1, <1>4, Zenon DEF Way
<1>7. IpStart = ip /\ ip \in Nat
  <2>1. IpStart = ip
    BY <1>4, IpStartIs
  <2> QED BY <1>4, <2>1, WayIs
<1>8. frame' = h2
  <2>1. frame' = LET longer == Inserted(20, <<1, 1, 1, 1>>, 0, 70)
                     sum == WordAt(frame, IpStart + 2) + 4
                 IN  [longer EXCEPT ![IpStart + 3] = sum \div 256,
                                    ![IpStart + 4] = sum % 256]
    BY Zenon DEF AddOption
  <2>2. Inserted(20, <<1, 1, 1, 1>>, 0, 70) = h
    BY <1>7, Zenon DEF Inserted, Put
  <2>3. h2 = [[h EXCEPT ![(ip + 2) + 1] = (WordAt(f, ip + 2) + 4) \div 256]
                EXCEPT ![(ip + 2) + 2] = (WordAt(f, ip + 2) + 4) % 256]
    BY Zenon DEF WithOption
  <2> DEFINE total == WordAt(f, ip + 2) + 4
  <2> HIDE DEF h, h2, r, f, w, ip
  <2>4. frame' = [h EXCEPT ![ip + 3] = total \div 256, ![ip + 4] = total % 256]
    BY <1>7, <2>1, <2>2, Zenon DEF f
  <2>5. ip + 3 = (ip + 2) + 1 /\ ip + 4 = (ip + 2) + 2
    BY <1>7
  <2> HIDE DEF total
  <2>6. frame' = [h EXCEPT ![(ip + 2) + 1] = total \div 256, ![(ip + 2) + 2] = total % 256]
    BY <2>4, <2>5, Zenon
  <2>7. h2 = [[h EXCEPT ![(ip + 2) + 1] = total \div 256] EXCEPT ![(ip + 2) + 2] = total % 256]
    BY <2>3, Zenon DEF total
  <2> QED BY <2>6, <2>7, Zenon
<1> HIDE DEF v, r, f, w, k
<1>9. /\ Layout(h2, r, v, chain)
      /\ Way(r, v, chain)
      /\ Len(h2) = TotalLength(r, v)
  <2>1. Len(f) = TotalLength(r, w)
    BY <1>4, Zenon DEF Sent
  <2>2. v.known
    BY <1>5, <1>6, Zenon
  <2>3. Laid(h2, r, v, chain)
    BY <1>1, <1>4, <1>5, <2>1, <2>2, OptionLayout, Zenon
  <2> HIDE DEF h2
  <2> QED BY <2>3, Zenon DEF Laid
<1> HIDE DEF h2
<1>10. Sent(r, h2, v)
  <2>1. v.headers # 0
    BY <1>5
  <2> QED BY <1>9, <2>1, Zenon DEF Sent
<1>11. OnTheWay("sent", r, h2, v, k)
  BY <1>2, <1>4, <1>9, <1>10, Zenon DEF OnTheWay
<1> QED BY <1>1, <1>2, <1>3, <1>5, <1>8, <1>11, Zenon DEF FrameInvariant

(* A chain of IPv6 extension headers.                                        *)
LEMMA AddExtensionsStep ==
  ASSUME FrameInvariant, NEW chain \in Chain, AddExtensions(chain)
  PROVE  FrameInvariant'
<1> DEFINE b == FlattenSeq(Parts(chain))
           known == \A i \in DOMAIN chain : chain[i].header \in ExtensionHeader
           v == [way EXCEPT !.headers = Len(chain), !.inner = Len(b), !.known = known]
           r == request
           f == frame
           w == way
           k == walk
           ip == Start(r, w)
           g == [f EXCEPT ![(ip + 6) + 1] = chain[1].header]
           h == Put(g, ip + 40, b)
<1>1. /\ phase = "sent" /\ request' = r /\ phase' = phase
      /\ way' = v /\ walk' = k /\ ~V4(r) /\ w.headers = 0 /\ chain # <<>>
  <2>1. ~V4(r)
    BY DEF AddExtensions, V4
  <2> QED BY <2>1, Zenon DEF AddExtensions, Parts
<1>2. "sent" # "captured" /\ "sent" # "idle" /\ "sent" \in {"sent", "captured"}
  OBVIOUS
<1>3. w \in WayType /\ k = NewWalk /\ OnTheWay("sent", r, f, w, k)
  BY <1>1, <1>2, Zenon DEF FrameInvariant
<1>4. PICK old, off : /\ Accepted(r) /\ Way(r, w, old) /\ Layout(f, r, w, old)
                      /\ Headers(old, off) /\ Sent(r, f, w)
  BY <1>3, Zenon DEF OnTheWay
<1>5. old = <<>>
  <2>1. Len(old) = 0 /\ old \in Chain \cup {<<>>}
    BY <1>1, <1>4, Zenon DEF Way
  <2>2. CASE old \in Chain
    <3>1. old \in Seq([header: Byte \ {UDP}, units: Byte])
      BY <2>2, UdpFrameAssumption, Zenon
    <3> QED BY <2>1, <3>1
  <2> QED BY <2>1, <2>2
<1>6. Len(chain) \in Nat /\ Len(b) \in Nat /\ known \in BOOLEAN
  <2>1. Extensions(chain) = b
    BY <1>1, Zenon DEF Extensions
  <2>2. Len(Extensions(chain)) \in Nat
    BY ExtensionsAre
  <2>3. Len(chain) \in Nat
    BY HeaderIs
  <2> QED BY <2>1, <2>2, <2>3
<1>7. /\ v \in WayType
      /\ v.tags = w.tags /\ v.inner = Len(b) /\ v.headers = Len(chain) /\ v.known = known
  <2> DEFINE lb == Len(b)
             lc == Len(chain)
  <2>1. lb \in Nat /\ lc \in Nat /\ known \in BOOLEAN
    BY <1>6
  <2> DEFINE vv == [w EXCEPT !.headers = lc, !.inner = lb, !.known = known]
  <2>2. vv = v
    BY Zenon
  <2> HIDE DEF lb, lc, known
  <2>3. /\ vv \in WayType
        /\ vv.tags = w.tags /\ vv.inner = lb /\ vv.headers = lc /\ vv.known = known
    <3>1. w \in WayType
      BY <1>3
    <3> HIDE DEF w
    <3>2. Extended(vv, w, lc, lb, known)
      BY <2>1, <3>1, WayWithExtensions, Zenon
    <3> HIDE DEF vv
    <3> QED BY <3>2, Zenon DEF Extended
  <2> HIDE DEF vv
  <2> QED BY <2>2, <2>3, Zenon DEF lb, lc
<1>8. IpStart = ip /\ ip \in Nat
  <2>1. IpStart = ip
    BY <1>4, IpStartIs
  <2> QED BY <1>4, <2>1, WayIs
<1>9. frame' = h
  <2>1. frame' = Inserted(40, b, 6, chain[1].header)
    BY Zenon DEF AddExtensions, Parts
  <2>2. Inserted(40, b, 6, chain[1].header) = h
    BY <1>8, Zenon DEF Inserted, Put
  <2> QED BY <2>1, <2>2, Zenon
<1> HIDE DEF v, r, f, w, k
<1>10. /\ Layout(h, r, v, chain)
       /\ Way(r, v, chain)
       /\ Len(h) = TotalLength(r, v)
  <2>1. Len(f) = TotalLength(r, w)
    BY <1>4, Zenon DEF Sent
  <2>2. Way(r, w, <<>>) /\ Layout(f, r, w, <<>>)
    BY <1>4, <1>5, Zenon
  <2>3. v.known <=> known
    BY <1>7
  <2>4. Laid(h, r, v, chain)
    BY <1>1, <1>4, <1>7, <2>1, <2>2, <2>3, ExtensionsLayout, Zenon
  <2> HIDE DEF h
  <2> QED BY <2>4, Zenon DEF Laid
<1> HIDE DEF h
<1>11. PICK lie : Headers(chain, lie)
  BY HeadersLie
<1>12. Sent(r, h, v)
  <2>1. v.headers # 0
    <3>1. chain \in Seq([header: Byte \ {UDP}, units: Byte])
      BY UdpFrameAssumption, Zenon
    <3>2. Len(chain) # 0
      BY <1>1, <3>1
    <3> QED BY <1>7, <3>2
  <2> QED BY <1>10, <2>1, Zenon DEF Sent
<1>13. OnTheWay("sent", r, h, v, k)
  BY <1>2, <1>4, <1>10, <1>11, <1>12, Zenon DEF OnTheWay
<1> QED BY <1>1, <1>2, <1>3, <1>7, <1>9, <1>13, Zenon DEF FrameInvariant

(* The capture cuts what is behind its end, and the walk is still to begin.  *)
LEMMA CaptureStep ==
  ASSUME FrameInvariant, NEW filler \in Filler, NEW n \in 0 .. Len(frame) + filler,
         Capture(filler, n)
  PROVE  FrameInvariant'
<1> DEFINE v == [way EXCEPT !.captured = n]
           r == request
           f == frame
           w == way
           k == walk
           g == SubSeq(f \o Zeros(filler), 1, n)
<1>1. /\ phase = "sent" /\ request' = r /\ phase' = "captured" /\ frame' = g
      /\ way' = v /\ walk' = k /\ n =< Len(f) + filler
  BY DEF Capture
<1>2. /\ "sent" # "captured" /\ "sent" # "idle" /\ "sent" \in {"sent", "captured"}
      /\ "captured" # "idle" /\ "captured" \in {"idle", "refused", "sent", "captured"}
  OBVIOUS
<1>3. w \in WayType /\ k = NewWalk /\ OnTheWay("sent", r, f, w, k)
  BY <1>1, <1>2, Zenon DEF FrameInvariant
<1>4. PICK chain, off : /\ Accepted(r) /\ Way(r, w, chain) /\ Layout(f, r, w, chain)
                        /\ Headers(chain, off) /\ Sent(r, f, w)
  BY <1>3, Zenon DEF OnTheWay
<1>5. n \in Nat /\ filler \in Nat
  BY UdpFrameAssumption
<1>6. /\ v \in WayType
      /\ v.tags = w.tags /\ v.inner = w.inner /\ v.headers = w.headers
      /\ v.known = w.known /\ v.captured = n
  BY <1>3, <1>5, WayCaptured
<1> HIDE DEF v, r, f, w, k
<1>7. Layout(g, r, w, chain) /\ Len(g) = n
  <2>1. Len(f) = TotalLength(r, w)
    BY <1>4, Zenon DEF Sent
  <2> QED BY <1>1, <1>4, <1>5, <2>1, CapturedLayout
<1> HIDE DEF g
<1>8. Way(r, v, chain)
  BY <1>4, <1>6, Zenon DEF Way
<1>9. Layout(g, r, v, chain)
  <2>1. Start(r, v) = Start(r, w)
    BY <1>6, Zenon DEF Start
  <2>2. UdpStart(r, v) = UdpStart(r, w)
    BY <1>6, <2>1, Zenon DEF UdpStart
  <2>3. LinkPieces(r, v) = LinkPieces(r, w)
    BY <1>6, Zenon DEF LinkPieces
  <2> QED BY <1>6, <1>7, <2>1, <2>2, <2>3, Zenon DEF Layout
<1>10. Captured(r, g, v, chain, off, k)
  <2>1. Standing(r, v, chain, off, "link", 0, 0, 0, 0, <<>>, <<>>, None)
    BY Zenon DEF Standing
  <2>2. Walks(r, v, chain, off, k)
    BY <1>3, <2>1, Zenon DEF Walks, NewWalk
  <2> QED BY <1>6, <1>7, <2>2, Zenon DEF Captured
<1>11. OnTheWay("captured", r, g, v, k)
  BY <1>2, <1>4, <1>8, <1>9, <1>10, Zenon DEF OnTheWay
<1> QED BY <1>1, <1>2, <1>6, <1>11, Zenon DEF FrameInvariant

----------------------------------------------------------------------------
(* The steps of decapsulate_udp.                                             *)
StandsAt(chain, off, s, a, e, t, n, src, dst, result) ==
  /\ phase = "captured" /\ Accepted(request) /\ Way(request, way, chain)
  /\ Layout(frame, request, way, chain) /\ Headers(chain, off)
  /\ way.captured = Len(frame)
  /\ walk = AWalk(s, a, e, t, n, src, dst, result)
  /\ Standing(request, way, chain, off, s, a, e, t, n, src, dst, result)

(* While decapsulate_udp walks, it stands somewhere.                         *)
LEMMA Stands ==
  ASSUME FrameInvariant, phase = "captured"
  PROVE  \E chain, off, s, a, e, t, n, src, dst, result :
           StandsAt(chain, off, s, a, e, t, n, src, dst, result)
<1>1. phase \in {"sent", "captured"} /\ phase = "captured"
  OBVIOUS
<1>2. OnTheWay(phase, request, frame, way, walk)
  BY <1>1, Zenon DEF FrameInvariant
<1>3. PICK chain, off : /\ Accepted(request) /\ Way(request, way, chain)
                        /\ Layout(frame, request, way, chain) /\ Headers(chain, off)
                        /\ Captured(request, frame, way, chain, off, walk)
  BY <1>1, <1>2, Zenon DEF OnTheWay
<1>4. way.captured = Len(frame) /\ Walks(request, way, chain, off, walk)
  BY <1>3, Zenon DEF Captured
<1>5. PICK s, a, e, t, n, src, dst, result :
        /\ walk = AWalk(s, a, e, t, n, src, dst, result)
        /\ Standing(request, way, chain, off, s, a, e, t, n, src, dst, result)
  BY <1>4, Zenon DEF Walks
<1>6. StandsAt(chain, off, s, a, e, t, n, src, dst, result)
  BY <1>1, <1>3, <1>4, <1>5, Zenon DEF StandsAt
<1> QED BY <1>6, Zenon

(* A step that takes the walk to a place where it may stand keeps the        *)
(* invariant.                                                                *)
LEMMA Moves ==
  ASSUME FrameInvariant,
         NEW chain, NEW off, NEW s, NEW a, NEW e, NEW t, NEW n, NEW src, NEW dst, NEW result,
         StandsAt(chain, off, s, a, e, t, n, src, dst, result),
         NEW s1, NEW a1, NEW e1, NEW t1, NEW n1, NEW src1, NEW dst1, NEW result1,
         NEW w, To(w), Reached(w, s1, a1, e1, t1, n1, src1, dst1, result1),
         Standing(request, way, chain, off, s1, a1, e1, t1, n1, src1, dst1, result1)
  PROVE  FrameInvariant'
<1>1. /\ walk' = AWalk(s1, a1, e1, t1, n1, src1, dst1, result1)
      /\ request' = request /\ phase' = phase /\ frame' = frame /\ way' = way
  BY Zenon DEF To, Reached
<1>2. /\ phase = "captured" /\ Accepted(request) /\ Way(request, way, chain)
      /\ Layout(frame, request, way, chain) /\ Headers(chain, off)
      /\ way.captured = Len(frame)
  BY Zenon DEF StandsAt
<1> DEFINE k == AWalk(s1, a1, e1, t1, n1, src1, dst1, result1)
<1>3. Walks(request, way, chain, off, k)
  BY Zenon DEF Walks
<1> HIDE DEF k
<1>4. Captured(request, frame, way, chain, off, k)
  BY <1>2, <1>3, Zenon DEF Captured
<1>5. "captured" # "sent" /\ "captured" # "idle"
  OBVIOUS
<1>6. OnTheWay("captured", request, frame, way, k)
  BY <1>2, <1>4, <1>5, Zenon DEF OnTheWay
<1>7. way \in WayType /\ phase \in {"idle", "refused", "sent", "captured"}
  BY Zenon DEF FrameInvariant
<1>8. walk' = k
  BY <1>1, Zenon DEF k
<1> QED BY <1>1, <1>2, <1>5, <1>6, <1>7, <1>8, Zenon DEF FrameInvariant

(* There is no result.                                                       *)
LEMMA NotApplicableStep ==
  ASSUME FrameInvariant,
         NEW chain, NEW off, NEW s, NEW a, NEW e, NEW t, NEW n, NEW src, NEW dst, NEW result,
         StandsAt(chain, off, s, a, e, t, n, src, dst, result),
         NotApplicable, result = None, Blocked(request, way)
  PROVE  FrameInvariant'
<1> DEFINE w == [walk EXCEPT !.stage = "done"]
<1>1. walk = AWalk(s, a, e, t, n, src, dst, result)
  BY Zenon DEF StandsAt
<1>2. Reached(w, "done", a, e, t, n, src, dst, result)
  BY <1>1, MovedStage, Zenon
<1>3. To(w)
  BY Zenon DEF NotApplicable
<1>4. Standing(request, way, chain, off, "done", a, e, t, n, src, dst, result)
  BY Zenon DEF Standing
<1> HIDE DEF w
<1> QED BY <1>2, <1>3, <1>4, Moves, Zenon

(* What each stage says of the place.                                        *)
LEMMA StandsIn ==
  ASSUME NEW chain, NEW off, NEW s, NEW a, NEW e, NEW t, NEW n, NEW src, NEW dst, NEW result,
         StandsAt(chain, off, s, a, e, t, n, src, dst, result)
  PROVE  /\ walk = AWalk(s, a, e, t, n, src, dst, result)
         /\ walk.stage = s /\ walk.at = a /\ walk.end = e /\ walk.type = t
         /\ walk.turns = n /\ walk.src = src /\ walk.dst = dst /\ walk.result = result
         /\ s = "link" => result = None
         /\ s = "tags" => result = None /\ InTags(request, way, a, e, t, n)
         /\ s = "network" => result = None /\ AtNetwork(request, way, a, e, t)
         /\ s = "extensions" => /\ result = None /\ src = request.src /\ dst = request.dst
                                /\ InExtensions(request, way, chain, off, a, e, t, n)
         /\ s = "udp" => /\ result = None /\ src = request.src /\ dst = request.dst
                         /\ AtUdp(request, way, a, e)
         /\ s = "done" => result = IF Blocked(request, way) THEN None
                                   ELSE Delivered(request, way)
<1>1. walk = AWalk(s, a, e, t, n, src, dst, result)
  BY Zenon DEF StandsAt
<1>2. /\ walk.stage = s /\ walk.at = a /\ walk.end = e /\ walk.type = t
      /\ walk.turns = n /\ walk.src = src /\ walk.dst = dst /\ walk.result = result
  BY <1>1, WalkIs
<1>3. Standing(request, way, chain, off, s, a, e, t, n, src, dst, result)
  BY Zenon DEF StandsAt
<1> DEFINE S == {"link", "tags", "network", "extensions", "udp", "done"}
<1>4. /\ s = "link" => result = None
      /\ s = "tags" => result = None /\ InTags(request, way, a, e, t, n)
      /\ s = "network" => result = None /\ AtNetwork(request, way, a, e, t)
      /\ s = "extensions" => /\ result = None /\ src = request.src /\ dst = request.dst
                             /\ InExtensions(request, way, chain, off, a, e, t, n)
      /\ s = "udp" => /\ result = None /\ src = request.src /\ dst = request.dst
                      /\ AtUdp(request, way, a, e)
      /\ s = "done" => result = IF Blocked(request, way) THEN None
                                ELSE Delivered(request, way)
  BY <1>3, Zenon DEF Standing
<1> QED BY <1>1, <1>2, <1>4, Zenon

(* The Ethernet header is stripped, or the cut is inside it.                 *)
LEMMA StripEthernetStep ==
  ASSUME FrameInvariant, StripEthernet
  PROVE  FrameInvariant'
<1>1. phase = "captured" /\ walk.stage = "link" /\ request.link = EN10MB
  BY DEF StripEthernet, At
<1>2. PICK chain, off, s, a, e, t, n, src, dst, result :
        StandsAt(chain, off, s, a, e, t, n, src, dst, result)
  BY <1>1, Stands
<1>3. /\ walk = AWalk(s, a, e, t, n, src, dst, result)
      /\ s = "link" /\ result = None
  BY <1>1, <1>2, StandsIn
<1>4. /\ Accepted(request) /\ Way(request, way, chain)
      /\ Layout(frame, request, way, chain) /\ way.captured = Len(frame)
  BY <1>2, Zenon DEF StandsAt
<1>5. IF Len(frame) < 14 THEN Blocked(request, way)
      ELSE InTags(request, way, 14, Len(frame), WordAt(frame, 12), 2)
  BY <1>1, <1>4, LinkStep
<1>6. CASE Len(frame) < 14
  <2>1. NotApplicable
    BY <1>6, Zenon DEF StripEthernet
  <2> QED BY <1>2, <1>3, <1>5, <1>6, <2>1, NotApplicableStep, Zenon
<1>7. CASE ~(Len(frame) < 14)
  <2> DEFINE type == WordAt(frame, 12)
             end == Len(frame)
             at == 14
             turns == 2
             w == [walk EXCEPT !.stage = "tags", !.type = type, !.at = at,
                               !.end = end, !.turns = turns]
  <2>1. To(w)
    BY <1>7, MaximaAre, Zenon DEF StripEthernet, Strip
  <2>2. InTags(request, way, at, end, type, turns)
    BY <1>5, <1>7, Zenon
  <2> HIDE DEF type, end, at, turns
  <2>3. Reached(w, "tags", at, end, type, turns, src, dst, result)
    BY <1>3, MovedIn, ZenonT(40)
  <2>4. Standing(request, way, chain, off, "tags", at, end, type, turns, src, dst, result)
    BY <1>3, <2>2, Zenon DEF Standing
  <2> HIDE DEF w
  <2> QED BY <1>2, <2>1, <2>3, <2>4, Moves, Zenon
<1> QED BY <1>6, <1>7

(* The cooked header is stripped, or the cut is inside it.                   *)
LEMMA StripSllStep ==
  ASSUME FrameInvariant, StripSll
  PROVE  FrameInvariant'
<1>1. phase = "captured" /\ walk.stage = "link" /\ request.link = LINUX_SLL
  BY DEF StripSll, At
<1>2. PICK chain, off, s, a, e, t, n, src, dst, result :
        StandsAt(chain, off, s, a, e, t, n, src, dst, result)
  BY <1>1, Stands
<1>3. /\ walk = AWalk(s, a, e, t, n, src, dst, result)
      /\ s = "link" /\ result = None
  BY <1>1, <1>2, StandsIn
<1>4. /\ Accepted(request) /\ Way(request, way, chain)
      /\ Layout(frame, request, way, chain) /\ way.captured = Len(frame)
  BY <1>2, Zenon DEF StandsAt
<1>5. IF Len(frame) < 16 THEN Blocked(request, way)
      ELSE AtNetwork(request, way, 16, Len(frame), WordAt(frame, 14))
  BY <1>1, <1>4, LinkStep
<1>6. CASE Len(frame) < 16
  <2>1. NotApplicable
    BY <1>6, Zenon DEF StripSll
  <2> QED BY <1>2, <1>3, <1>5, <1>6, <2>1, NotApplicableStep, Zenon
<1>7. CASE ~(Len(frame) < 16)
  <2> DEFINE type == WordAt(frame, 14)
             end == Len(frame)
             at == 16
             w == [walk EXCEPT !.stage = "network", !.type = type, !.at = at,
                               !.end = end, !.turns = MaxVlanTags]
  <2>1. To(w)
    BY <1>7, Zenon DEF StripSll, Strip
  <2>2. AtNetwork(request, way, at, end, type)
    BY <1>5, <1>7, Zenon
  <2> HIDE DEF type, end, at
  <2>3. Reached(w, "network", at, end, type, MaxVlanTags, src, dst, result)
    BY <1>3, MovedIn, ZenonT(40)
  <2>4. Standing(request, way, chain, off, "network", at, end, type, MaxVlanTags,
                 src, dst, result)
    BY <1>3, <2>2, Zenon DEF Standing
  <2> HIDE DEF w
  <2> QED BY <1>2, <2>1, <2>3, <2>4, Moves, Zenon
<1> QED BY <1>6, <1>7

(* The first byte of a raw packet tells the version.                         *)
LEMMA StripRawStep ==
  ASSUME FrameInvariant, StripRaw
  PROVE  FrameInvariant'
<1>1. phase = "captured" /\ walk.stage = "link" /\ request.link = RAW
  BY DEF StripRaw, At
<1>2. PICK chain, off, s, a, e, t, n, src, dst, result :
        StandsAt(chain, off, s, a, e, t, n, src, dst, result)
  BY <1>1, Stands
<1>3. /\ walk = AWalk(s, a, e, t, n, src, dst, result)
      /\ s = "link" /\ result = None
  BY <1>1, <1>2, StandsIn
<1>4. /\ Accepted(request) /\ Way(request, way, chain)
      /\ Layout(frame, request, way, chain) /\ way.captured = Len(frame)
  BY <1>2, Zenon DEF StandsAt
<1>5. IF Len(frame) < 1 THEN Blocked(request, way)
      ELSE /\ frame[1] \div 16 \in {4, 6}
           /\ AtNetwork(request, way, 0, Len(frame),
                        IF frame[1] \div 16 = 4 THEN IPv4 ELSE IPv6)
  BY <1>1, <1>4, LinkStep
<1>6. CASE Len(frame) < 1
  <2>1. NotApplicable
    BY <1>6, Zenon DEF StripRaw
  <2> QED BY <1>2, <1>3, <1>5, <1>6, <2>1, NotApplicableStep, Zenon
<1>7. CASE ~(Len(frame) < 1)
  <2> DEFINE type == IF frame[1] \div 16 = 4 THEN IPv4 ELSE IPv6
             end == Len(frame)
             w == [walk EXCEPT !.stage = "network", !.type = type, !.at = 0,
                               !.end = end, !.turns = MaxVlanTags]
  <2>1. To(w)
    BY <1>5, <1>7, Zenon DEF StripRaw, Strip
  <2>2. AtNetwork(request, way, 0, end, type)
    BY <1>5, <1>7, Zenon
  <2> HIDE DEF type, end
  <2>3. Reached(w, "network", 0, end, type, MaxVlanTags, src, dst, result)
    BY <1>3, MovedIn, ZenonT(40)
  <2>4. Standing(request, way, chain, off, "network", 0, end, type, MaxVlanTags,
                 src, dst, result)
    BY <1>3, <2>2, Zenon DEF Standing
  <2> HIDE DEF w
  <2> QED BY <1>2, <2>1, <2>3, <2>4, Moves, Zenon
<1> QED BY <1>6, <1>7

(* A tag is stripped, or the cut is inside it.                               *)
LEMMA StripTagStep ==
  ASSUME FrameInvariant, StripTag
  PROVE  FrameInvariant'
<1>1. /\ phase = "captured" /\ walk.stage = "tags"
      /\ walk.type = VLAN /\ walk.turns > 0
  BY DEF StripTag, At
<1>2. PICK chain, off, s, a, e, t, n, src, dst, result :
        StandsAt(chain, off, s, a, e, t, n, src, dst, result)
  BY <1>1, Stands
<1>3. /\ walk = AWalk(s, a, e, t, n, src, dst, result)
      /\ walk.at = a /\ walk.end = e /\ walk.type = t /\ walk.turns = n
      /\ s = "tags" /\ result = None /\ InTags(request, way, a, e, t, n)
  BY <1>1, <1>2, StandsIn
<1>4. /\ Accepted(request) /\ Way(request, way, chain)
      /\ Layout(frame, request, way, chain) /\ way.captured = Len(frame)
  BY <1>2, Zenon DEF StandsAt
<1>5. /\ e - a < 4 => Blocked(request, way)
      /\ ~(e - a < 4) => InTags(request, way, a + 4, e, WordAt(frame, a + 2), n - 1)
  BY <1>1, <1>3, <1>4, TagStep
<1>6. Size = e - a
  BY <1>3, Zenon DEF Size
<1>7. CASE e - a < 4
  <2>1. NotApplicable
    BY <1>6, <1>7, Zenon DEF StripTag
  <2> QED BY <1>2, <1>3, <1>5, <1>7, <2>1, NotApplicableStep, Zenon
<1>8. CASE ~(e - a < 4)
  <2> DEFINE type == WordAt(frame, a + 2)
             at == a + 4
             turns == n - 1
             w == [walk EXCEPT !.type = type, !.at = at, !.turns = turns]
  <2>1. To(w)
    <3>1. To([walk EXCEPT !.type  = WordAt(frame, walk.at + 2),
                          !.at    = walk.at + 4,
                          !.turns = walk.turns - 1])
      BY <1>6, <1>8, Zenon DEF StripTag
    <3> QED BY <1>3, <3>1, Zenon
  <2>2. InTags(request, way, at, e, type, turns)
    BY <1>5, <1>8, Zenon
  <2> HIDE DEF type, at, turns
  <2>3. Reached(w, s, at, e, type, turns, src, dst, result)
    BY <1>3, MovedOn, Zenon
  <2>4. Standing(request, way, chain, off, s, at, e, type, turns, src, dst, result)
    BY <1>3, <2>2, Zenon DEF Standing
  <2> HIDE DEF w
  <2> QED BY <1>2, <2>1, <2>3, <2>4, Moves, Zenon
<1> QED BY <1>7, <1>8

(* Behind the last tag, or behind as many as are stripped.                   *)
LEMMA TagsStrippedStep ==
  ASSUME FrameInvariant, TagsStripped
  PROVE  FrameInvariant'
<1>1. /\ phase = "captured" /\ walk.stage = "tags"
      /\ walk.type # VLAN \/ walk.turns = 0
  BY DEF TagsStripped, At
<1>2. PICK chain, off, s, a, e, t, n, src, dst, result :
        StandsAt(chain, off, s, a, e, t, n, src, dst, result)
  BY <1>1, Stands
<1>3. /\ walk = AWalk(s, a, e, t, n, src, dst, result)
      /\ walk.type = t /\ walk.turns = n
      /\ s = "tags" /\ result = None /\ InTags(request, way, a, e, t, n)
  BY <1>1, <1>2, StandsIn
<1>4. Accepted(request) /\ Way(request, way, chain)
  BY <1>2, Zenon DEF StandsAt
<1>5. AtNetwork(request, way, a, e, t)
  BY <1>1, <1>3, <1>4, TagsDone
<1> DEFINE w == [walk EXCEPT !.stage = "network"]
<1>6. To(w)
  BY Zenon DEF TagsStripped
<1>7. Reached(w, "network", a, e, t, n, src, dst, result)
  BY <1>3, MovedStage, Zenon
<1>8. Standing(request, way, chain, off, "network", a, e, t, n, src, dst, result)
  BY <1>3, <1>5, Zenon DEF Standing
<1> HIDE DEF w
<1> QED BY <1>2, <1>6, <1>7, <1>8, Moves, Zenon

(* A type that is not of IP is that of one tag too many.                     *)
LEMMA NotIpAction ==
  ASSUME FrameInvariant, NotIp
  PROVE  FrameInvariant'
<1>1. /\ phase = "captured" /\ walk.stage = "network"
      /\ walk.type \notin {IPv4, IPv6} /\ NotApplicable
  BY Zenon DEF NotIp, At
<1>2. PICK chain, off, s, a, e, t, n, src, dst, result :
        StandsAt(chain, off, s, a, e, t, n, src, dst, result)
  BY <1>1, Stands
<1>3. walk.type = t /\ result = None /\ AtNetwork(request, way, a, e, t)
  BY <1>1, <1>2, StandsIn
<1>4. Accepted(request) /\ Way(request, way, chain)
  BY <1>2, Zenon DEF StandsAt
<1>5. Blocked(request, way)
  BY <1>1, <1>3, <1>4, NotIpStep
<1> QED BY <1>1, <1>2, <1>3, <1>5, NotApplicableStep, Zenon

(* The IPv4 header, with its options, is stripped and the end set to the     *)
(* total length.                                                             *)
LEMMA DecapIpv4Step ==
  ASSUME FrameInvariant, DecapIpv4
  PROVE  FrameInvariant'
<1>1. phase = "captured" /\ walk.stage = "network" /\ walk.type = IPv4
  BY DEF DecapIpv4, At
<1>2. PICK chain, off, s, a, e, t, n, src, dst, result :
        StandsAt(chain, off, s, a, e, t, n, src, dst, result)
  BY <1>1, Stands
<1>3. /\ walk = AWalk(s, a, e, t, n, src, dst, result)
      /\ walk.at = a /\ walk.end = e /\ t = IPv4
      /\ result = None /\ AtNetwork(request, way, a, e, t)
  BY <1>1, <1>2, StandsIn
<1>4. /\ Accepted(request) /\ Way(request, way, chain)
      /\ Layout(frame, request, way, chain) /\ way.captured = Len(frame)
  BY <1>2, Zenon DEF StandsAt
<1> DEFINE h == 4 * (frame[a + 0 + 1] % 16)
           m == WordAt(frame, a + 2)
           z == e - a
           d == IF h =< m /\ m =< z THEN a + m ELSE e
           x == SubSeq(frame, a + 13, a + 16)
           y == SubSeq(frame, a + 17, a + 20)
           c == a + h
<1>5. /\ z < 20 => Blocked(request, way)
      /\ ~(z < 20) =>
           /\ h > z => Blocked(request, way)
           /\ frame[a + 0 + 1] \div 16 = 4 /\ ~(h < 20) /\ frame[a + 9 + 1] = UDP
           /\ x = request.src
           /\ y = request.dst
           /\ ~(h > z) => AtUdp(request, way, c, d)
  BY <1>3, <1>4, Ipv4Step
<1>6. /\ Size = z
      /\ ByteAt(0) = frame[a + 0 + 1]
      /\ ByteAt(9) = frame[a + 9 + 1]
      /\ Within(m, h) = d
      /\ walk.at = a
  BY <1>3, Zenon DEF Size, ByteAt, Within
<1> DEFINE w == [walk EXCEPT !.stage = "udp", !.src = x, !.dst = y, !.end = d, !.at = c]
<1>7. IF z < 20 THEN NotApplicable
      ELSE IF \/ frame[a + 0 + 1] \div 16 # 4
              \/ h < 20
              \/ h > z
              \/ frame[a + 9 + 1] # UDP
           THEN NotApplicable
           ELSE To(w)
  <2>1. IF Size < 20 THEN NotApplicable
        ELSE LET header_len == 4 * (ByteAt(0) % 16) IN
             IF \/ ByteAt(0) \div 16 # 4
                \/ header_len < 20
                \/ header_len > Size
                \/ ByteAt(9) # UDP
             THEN NotApplicable
             ELSE To([walk EXCEPT
                        !.stage = "udp",
                        !.src   = SubSeq(frame, walk.at + 13, walk.at + 16),
                        !.dst   = SubSeq(frame, walk.at + 17, walk.at + 20),
                        !.end   = Within(WordAt(frame, walk.at + 2), header_len),
                        !.at    = walk.at + header_len])
    BY Zenon DEF DecapIpv4
  <2> HIDE DEF d
  <2> QED BY <1>6, <2>1, Zenon
<1> HIDE DEF h, m, z, d, x, y, c
<1>8. CASE z < 20 \/ h > z
  <2>1. NotApplicable
    BY <1>7, <1>8, Zenon
  <2>2. Blocked(request, way)
    BY <1>5, <1>8, Zenon
  <2> QED BY <1>2, <1>3, <2>1, <2>2, NotApplicableStep, Zenon
<1>9. CASE ~(z < 20) /\ ~(h > z)
  <2>1. To(w)
    BY <1>5, <1>7, <1>9, Zenon
  <2>2. x = request.src /\ y = request.dst /\ AtUdp(request, way, c, d)
    BY <1>5, <1>9, Zenon
  <2>3. Reached(w, "udp", c, d, t, n, x, y, result)
    BY <1>3, MovedPastIpv4, ZenonT(40)
  <2>4. Standing(request, way, chain, off, "udp", c, d, t, n, x, y, result)
    BY <1>3, <2>2, Zenon DEF Standing
  <2> HIDE DEF w
  <2> QED BY <1>2, <2>1, <2>3, <2>4, Moves, Zenon
<1> QED BY <1>8, <1>9

(* The IPv6 header is stripped.                                              *)
LEMMA DecapIpv6Step ==
  ASSUME FrameInvariant, DecapIpv6
  PROVE  FrameInvariant'
<1>1. phase = "captured" /\ walk.stage = "network" /\ walk.type = IPv6
  BY DEF DecapIpv6, At
<1>2. PICK chain, off, s, a, e, t, n, src, dst, result :
        StandsAt(chain, off, s, a, e, t, n, src, dst, result)
  BY <1>1, Stands
<1>3. /\ walk = AWalk(s, a, e, t, n, src, dst, result)
      /\ walk.at = a /\ walk.end = e /\ t = IPv6
      /\ result = None /\ AtNetwork(request, way, a, e, t)
  BY <1>1, <1>2, StandsIn
<1>4. /\ Accepted(request) /\ Way(request, way, chain)
      /\ Layout(frame, request, way, chain) /\ way.captured = Len(frame)
      /\ Headers(chain, off)
  BY <1>2, Zenon DEF StandsAt
<1> DEFINE z == e - a
           x == SubSeq(frame, a + 9, a + 24)
           y == SubSeq(frame, a + 25, a + 40)
           type == frame[a + 6 + 1]
           c == a + 40
           max == MaxExtensionHeaders
<1>5. max = 8
  BY MaximaAre
<1>6. /\ z < 40 => Blocked(request, way)
      /\ ~(z < 40) =>
           /\ frame[a + 0 + 1] \div 16 = 6
           /\ x = request.src
           /\ y = request.dst
           /\ InExtensions(request, way, chain, off, c, e, type, 8)
  BY <1>3, <1>4, Ipv6Step
<1>7. /\ Size = z
      /\ ByteAt(0) = frame[a + 0 + 1]
      /\ ByteAt(6) = type
  BY <1>3, Zenon DEF Size, ByteAt
<1> DEFINE w == [walk EXCEPT !.stage = "extensions", !.src = x, !.dst = y, !.type = type,
                             !.at = c, !.turns = max]
<1>8. IF z < 40 THEN NotApplicable
      ELSE IF frame[a + 0 + 1] \div 16 # 6 THEN NotApplicable ELSE To(w)
  <2>1. IF Size < 40 THEN NotApplicable
        ELSE IF ByteAt(0) \div 16 # 6 THEN NotApplicable
        ELSE To([walk EXCEPT
                   !.stage = "extensions",
                   !.src   = SubSeq(frame, walk.at + 9, walk.at + 24),
                   !.dst   = SubSeq(frame, walk.at + 25, walk.at + 40),
                   !.type  = ByteAt(6),
                   !.at    = walk.at + 40,
                   !.turns = MaxExtensionHeaders])
    BY Zenon DEF DecapIpv6
  <2> QED BY <1>3, <1>7, <2>1, Zenon
<1> HIDE DEF z, x, y, type, c, max
<1>9. CASE z < 40
  <2>1. NotApplicable
    BY <1>8, <1>9, Zenon
  <2> QED BY <1>2, <1>3, <1>6, <1>9, <2>1, NotApplicableStep, Zenon
<1>10. CASE ~(z < 40)
  <2>1. To(w)
    BY <1>6, <1>8, <1>10, Zenon
  <2>2. /\ x = request.src /\ y = request.dst
        /\ InExtensions(request, way, chain, off, c, e, type, max)
    BY <1>5, <1>6, <1>10, Zenon
  <2>3. Reached(w, "extensions", c, e, type, max, x, y, result)
    BY <1>3, MovedPastIpv6, ZenonT(40)
  <2>4. Standing(request, way, chain, off, "extensions", c, e, type, max, x, y, result)
    BY <1>3, <2>2, Zenon DEF Standing
  <2> HIDE DEF w
  <2> QED BY <1>2, <2>1, <2>3, <2>4, Moves, Zenon
<1> QED BY <1>9, <1>10

(* An extension header is skipped, or the cut is inside it.                  *)
LEMMA SkipExtensionStep ==
  ASSUME FrameInvariant, SkipExtension
  PROVE  FrameInvariant'
<1>1. /\ phase = "captured" /\ walk.stage = "extensions"
      /\ walk.type \in ExtensionHeader /\ walk.turns > 0
  BY DEF SkipExtension, At
<1>2. PICK chain, off, s, a, e, t, n, src, dst, result :
        StandsAt(chain, off, s, a, e, t, n, src, dst, result)
  BY <1>1, Stands
<1>3. /\ walk = AWalk(s, a, e, t, n, src, dst, result)
      /\ walk.at = a /\ walk.end = e /\ walk.type = t /\ walk.turns = n
      /\ s = "extensions" /\ result = None /\ src = request.src /\ dst = request.dst
      /\ InExtensions(request, way, chain, off, a, e, t, n)
  BY <1>1, <1>2, StandsIn
<1>4. /\ Accepted(request) /\ Way(request, way, chain)
      /\ Layout(frame, request, way, chain) /\ way.captured = Len(frame)
      /\ Headers(chain, off)
  BY <1>2, Zenon DEF StandsAt
<1> DEFINE x == IF t = FRAGMENT THEN 8 ELSE 8 * (frame[a + 1 + 1] + 1)
           z == e - a
           c == a + x
           type == frame[a + 0 + 1]
           turns == n - 1
<1>5. /\ z < 2 => Blocked(request, way)
      /\ ~(z < 2) /\ z < x => Blocked(request, way)
      /\ ~(z < 2) /\ ~(z < x) =>
           InExtensions(request, way, chain, off, c, e, type, turns)
  BY <1>1, <1>3, <1>4, ExtensionStep
<1>6. /\ Size = z
      /\ ByteAt(0) = type
      /\ ExtensionSize = x
  BY <1>3, Zenon DEF Size, ByteAt, ExtensionSize
<1> DEFINE w == [walk EXCEPT !.type = type, !.at = c, !.turns = turns]
<1>7. IF z < 2 THEN NotApplicable
      ELSE IF z < x THEN NotApplicable ELSE To(w)
  <2>1. IF Size < 2 THEN NotApplicable
        ELSE IF Size < ExtensionSize THEN NotApplicable
        ELSE To([walk EXCEPT !.type  = ByteAt(0),
                             !.at    = walk.at + ExtensionSize,
                             !.turns = walk.turns - 1])
    BY Zenon DEF SkipExtension
  <2> HIDE DEF x
  <2> QED BY <1>3, <1>6, <2>1, Zenon
<1> HIDE DEF x, z, c, type, turns
<1>8. CASE z < 2 \/ z < x
  <2>1. NotApplicable
    BY <1>7, <1>8, Zenon
  <2>2. Blocked(request, way)
    BY <1>5, <1>8, Zenon
  <2> QED BY <1>2, <1>3, <2>1, <2>2, NotApplicableStep, Zenon
<1>9. CASE ~(z < 2) /\ ~(z < x)
  <2>1. To(w)
    BY <1>7, <1>9, Zenon
  <2>2. InExtensions(request, way, chain, off, c, e, type, turns)
    BY <1>5, <1>9, Zenon
  <2>3. Reached(w, s, c, e, type, turns, src, dst, result)
    BY <1>3, MovedOn, Zenon
  <2>4. Standing(request, way, chain, off, s, c, e, type, turns, src, dst, result)
    BY <1>3, <2>2, Zenon DEF Standing
  <2> HIDE DEF w
  <2> QED BY <1>2, <2>1, <2>3, <2>4, Moves, Zenon
<1> QED BY <1>8, <1>9

(* The chain ends in UDP, or in a type that is not walked.                   *)
LEMMA ExtensionsSkippedStep ==
  ASSUME FrameInvariant, ExtensionsSkipped
  PROVE  FrameInvariant'
<1>1. /\ phase = "captured" /\ walk.stage = "extensions"
      /\ walk.type \notin ExtensionHeader \/ walk.turns = 0
  BY DEF ExtensionsSkipped, At
<1>2. PICK chain, off, s, a, e, t, n, src, dst, result :
        StandsAt(chain, off, s, a, e, t, n, src, dst, result)
  BY <1>1, Stands
<1>3. /\ walk = AWalk(s, a, e, t, n, src, dst, result)
      /\ walk.type = t /\ walk.turns = n
      /\ result = None /\ src = request.src /\ dst = request.dst
      /\ InExtensions(request, way, chain, off, a, e, t, n)
  BY <1>1, <1>2, StandsIn
<1>4. /\ Accepted(request) /\ Way(request, way, chain)
      /\ Layout(frame, request, way, chain) /\ way.captured = Len(frame)
      /\ Headers(chain, off)
  BY <1>2, Zenon DEF StandsAt
<1>5. /\ t # UDP => Blocked(request, way)
      /\ t = UDP => AtUdp(request, way, a, e)
  BY <1>1, <1>3, <1>4, ExtensionsDone
<1>6. CASE t # UDP
  <2>1. NotApplicable
    BY <1>3, <1>6, Zenon DEF ExtensionsSkipped
  <2> QED BY <1>2, <1>3, <1>5, <1>6, <2>1, NotApplicableStep, Zenon
<1>7. CASE t = UDP
  <2> DEFINE w == [walk EXCEPT !.stage = "udp"]
  <2>1. To(w)
    BY <1>3, <1>7, Zenon DEF ExtensionsSkipped
  <2>2. Reached(w, "udp", a, e, t, n, src, dst, result)
    BY <1>3, MovedStage, Zenon
  <2>3. Standing(request, way, chain, off, "udp", a, e, t, n, src, dst, result)
    BY <1>3, <1>5, <1>7, Zenon DEF Standing
  <2> HIDE DEF w
  <2> QED BY <1>2, <2>1, <2>2, <2>3, Moves, Zenon
<1> QED BY <1>6, <1>7

(* The datagram is read.                                                     *)
LEMMA DecapUdpStep ==
  ASSUME FrameInvariant, DecapUdp
  PROVE  FrameInvariant'
<1>1. phase = "captured" /\ walk.stage = "udp"
  BY DEF DecapUdp, At
<1>2. PICK chain, off, s, a, e, t, n, src, dst, result :
        StandsAt(chain, off, s, a, e, t, n, src, dst, result)
  BY <1>1, Stands
<1>3. /\ walk = AWalk(s, a, e, t, n, src, dst, result)
      /\ walk.at = a /\ walk.end = e /\ walk.src = src /\ walk.dst = dst
      /\ result = None /\ src = request.src /\ dst = request.dst
      /\ AtUdp(request, way, a, e)
  BY <1>1, <1>2, StandsIn
<1>4. /\ Accepted(request) /\ Way(request, way, chain)
      /\ Layout(frame, request, way, chain) /\ way.captured = Len(frame)
  BY <1>2, Zenon DEF StandsAt
<1> DEFINE m == WordAt(frame, a + 4)
           z == e - a
           end == IF 8 =< m /\ m =< z THEN a + m ELSE e
           y == [src      |-> request.src,
                 dst      |-> request.dst,
                 src_port |-> WordAt(frame, a),
                 dst_port |-> WordAt(frame, a + 2),
                 payload  |-> SubSeq(frame, a + 9, end)]
<1>5. /\ z < 8 => Blocked(request, way)
      /\ ~(z < 8) => /\ ~Blocked(request, way)
                     /\ y = Delivered(request, way)
  BY <1>3, <1>4, UdpStep
<1>6. Size = z /\ Within(m, 8) = end
  BY <1>3, Zenon DEF Size, Within
<1> DEFINE w == [walk EXCEPT !.stage = "done", !.result = y]
<1>7. IF z < 8 THEN NotApplicable ELSE To(w)
  <2>1. IF Size < 8 THEN NotApplicable
        ELSE To([walk EXCEPT
                !.stage  = "done",
                !.result = [src      |-> walk.src,
                            dst      |-> walk.dst,
                            src_port |-> WordAt(frame, walk.at),
                            dst_port |-> WordAt(frame, walk.at + 2),
                            payload  |-> SubSeq(frame, walk.at + 9,
                              Within(WordAt(frame, walk.at + 4), 8))]])
    BY Zenon DEF DecapUdp
  <2> HIDE DEF end
  <2> QED BY <1>3, <1>6, <2>1, Zenon
<1> HIDE DEF m, z, end, y
<1>8. CASE z < 8
  <2>1. NotApplicable
    BY <1>7, <1>8, Zenon
  <2> QED BY <1>2, <1>3, <1>5, <1>8, <2>1, NotApplicableStep, Zenon
<1>9. CASE ~(z < 8)
  <2>1. To(w)
    BY <1>7, <1>9, Zenon
  <2>2. ~Blocked(request, way) /\ y = Delivered(request, way)
    BY <1>5, <1>9, Zenon
  <2>3. Reached(w, "done", a, e, t, n, src, dst, y)
    BY <1>3, MovedOut, Zenon
  <2>4. Standing(request, way, chain, off, "done", a, e, t, n, src, dst, y)
    BY <2>2, Zenon DEF Standing
  <2> HIDE DEF w
  <2> QED BY <1>2, <2>1, <2>3, <2>4, Moves, Zenon
<1> QED BY <1>8, <1>9

(* A request that is refused leaves no frame.                                *)
LEMMA EncapsulationErrorStep ==
  ASSUME FrameInvariant, NEW r \in Request, EncapsulationError(r)
  PROVE  FrameInvariant'
<1>1. /\ phase = "idle" /\ phase' = "refused"
      /\ frame' = frame /\ way' = way /\ walk' = walk
  BY DEF EncapsulationError
<1>2. /\ "idle" # "captured" /\ "refused" # "captured" /\ "refused" # "idle"
      /\ "refused" \notin {"sent", "captured"}
      /\ "refused" \in {"idle", "refused", "sent", "captured"}
  OBVIOUS
<1> QED BY <1>1, <1>2, Zenon DEF FrameInvariant

(* Every step of decapsulate_udp keeps the invariant.                        *)
LEMMA DecapsulateStep ==
  ASSUME FrameInvariant, Decapsulate
  PROVE  FrameInvariant'
<1>1. CASE StripEthernet
  BY <1>1, StripEthernetStep
<1>2. CASE StripTag
  BY <1>2, StripTagStep
<1>3. CASE TagsStripped
  BY <1>3, TagsStrippedStep
<1>4. CASE StripSll
  BY <1>4, StripSllStep
<1>5. CASE StripRaw
  BY <1>5, StripRawStep
<1>6. CASE NotIp
  BY <1>6, NotIpAction
<1>7. CASE DecapIpv4
  BY <1>7, DecapIpv4Step
<1>8. CASE DecapIpv6
  BY <1>8, DecapIpv6Step
<1>9. CASE SkipExtension
  BY <1>9, SkipExtensionStep
<1>10. CASE ExtensionsSkipped
  BY <1>10, ExtensionsSkippedStep
<1>11. CASE DecapUdp
  BY <1>11, DecapUdpStep
<1> QED
  BY <1>1, <1>2, <1>3, <1>4, <1>5, <1>6, <1>7, <1>8, <1>9, <1>10, <1>11, Zenon
     DEF Decapsulate

(* Every step of the specification keeps the invariant.                      *)
LEMMA NextStep == FrameInvariant /\ [Next]_vars => FrameInvariant'
<1> SUFFICES ASSUME FrameInvariant, [Next]_vars
             PROVE  FrameInvariant'
  OBVIOUS
<1>1. CASE UNCHANGED vars
  BY <1>1, Zenon DEF FrameInvariant, vars
<1>2. ASSUME NEW r \in Request, Encapsulate(r)
      PROVE  FrameInvariant'
  BY <1>2, EncapsulateStep
<1>3. ASSUME NEW r \in Request, EncapsulationError(r)
      PROVE  FrameInvariant'
  BY <1>3, EncapsulationErrorStep
<1>4. CASE Tag
  BY <1>4, TagsStep
<1>5. CASE AddOption
  BY <1>5, AddOptionStep
<1>6. ASSUME NEW chain \in Chain, AddExtensions(chain)
      PROVE  FrameInvariant'
  BY <1>6, AddExtensionsStep
<1>7. ASSUME NEW filler \in Filler, NEW n \in 0 .. Len(frame) + filler, Capture(filler, n)
      PROVE  FrameInvariant'
  BY <1>7, CaptureStep
<1>8. CASE Decapsulate
  BY <1>8, DecapsulateStep
<1> QED
  BY <1>1, <1>2, <1>3, <1>4, <1>5, <1>6, <1>7, <1>8, Zenon DEF Next

(* The layers of a frame lie where Layout has them, whatever networks put    *)
(* into it and wherever it was cut, and decapsulate_udp stands where one of  *)
(* them begins, having found what the ones before say. For every set of      *)
(* requests and chains.                                                      *)
THEOREM FrameInvariantHolds == Spec => []FrameInvariant
<1>1. Init => FrameInvariant
  BY InitIs
<1>2. FrameInvariant /\ [Next]_vars => FrameInvariant'
  BY NextStep
<1> QED BY <1>1, <1>2, PTL DEF Spec

(* What FramesOpenCleanly says of a frame that was sent.                     *)
LEMMA SentOpensCleanly ==
  ASSUME NEW r, Accepted(r), NEW w, NEW chain, Way(r, w, chain),
         NEW f \in Seq(Nat), Len(f) = TotalLength(r, w),
         Holds(f, Start(r, w), Packet(r)), w.headers = 0
  PROVE  LET ip == SubSeq(f, Start(r, w) + 1, Len(f))
             segment == SubSeq(ip, HeaderLength(r) + 1, Len(ip))
         IN  /\ Len(IF V4(r) THEN ip ELSE segment) =< LengthMax
             /\ WordAt(segment, 6) # 0
             /\ Multiple(SumWords(PseudoHeader(r, Len(segment)) \o segment))
             /\ V4(r) => Multiple(SumWords(SubSeq(ip, 1, 20)))
<1> DEFINE ip == SubSeq(f, Start(r, w) + 1, Len(f))
           segment == SubSeq(ip, HeaderLength(r) + 1, Len(ip))
           k == Start(r, w)
           h == HeaderLength(r)
           n == N(r)
           u == UdpStart(r, w)
           i == w.inner
           t == Packet(r)
           g == UdpSegment(r)
           lt == Len(t)
           lg == Len(g)
           lf == Len(f)
<1>1. /\ k \in Nat /\ h \in Nat /\ i \in Nat /\ n \in Nat /\ u \in Nat
      /\ u = (k + h) + i
      /\ lf = (u + 8) + n
  BY WayIs
<1>2. i = 0
  <2>1. CASE V4(r)
    <3>1. i = 4 * w.headers
      BY <2>1, Zenon DEF Way
    <3> QED BY <3>1
  <2>2. CASE ~V4(r)
    <3>1. i = Len(Extensions(chain)) /\ Len(chain) = 0 /\ chain \in Chain \cup {<<>>}
      BY <2>2, Zenon DEF Way
    <3>2. chain = <<>>
      <4>1. CASE chain \in Chain
        <5>1. chain \in Seq([header: Byte \ {UDP}, units: Byte])
          BY <4>1, UdpFrameAssumption, Zenon
        <5> QED BY <3>1, <5>1
      <4> QED BY <3>1, <4>1
    <3>3. Extensions(chain) = <<>>
      BY <3>2, Zenon DEF Extensions
    <3> QED BY <3>1, <3>3
  <2> QED BY <2>1, <2>2
<1>3. /\ t \in Seq(Nat) /\ lt = h + 8 + n
      /\ Holds(t, h, g) /\ g \in Seq(Nat) /\ lg = 8 + n
      /\ V4(r) => \E x \in Seq(Nat) : /\ Len(x) = 20
                                      /\ Holds(t, 0, x)
                                      /\ Multiple(SumWords(x))
  BY PacketIs
<1>4. /\ WordAt(g, 6) # 0
      /\ Multiple(SumWords(PseudoHeader(r, Len(g)) \o g))
  BY UdpSegmentIs
<1>5. lf \in Nat /\ k + lt = lf /\ k + lt =< lf
  <2> HIDE DEF k, h, n, u, i, t, lt, lf
  <2> QED BY <1>1, <1>2, <1>3
<1>6. ip = t
  <2>1. SubSeq(f, k + 1, k + lt) = t
    BY <1>1, <1>3, <1>5, PartIs
  <2> QED BY <1>5, <2>1, Zenon
<1>7. segment = g
  <2>1. h + lg =< lt /\ h + lg = lt
    <3> HIDE DEF k, h, n, u, i, t, lt, lf, lg
    <3> QED BY <1>1, <1>3
  <2>2. SubSeq(t, h + 1, h + lg) = g
    BY <1>1, <1>3, <2>1, PartIs
  <2> QED BY <1>6, <2>1, <2>2, Zenon
<1>8. Len(IF V4(r) THEN ip ELSE segment) =< LengthMax
  <2>1. CASE V4(r)
    <3>1. 28 + n =< LengthMax /\ h = 20
      BY <2>1, RequestIs DEF HeaderLength
    <3>2. Len(ip) = lt
      BY <1>6, Zenon
    <3>3. lt =< LengthMax
      <4> HIDE DEF k, h, n, u, i, t, lt, lf, lg
      <4> QED BY <1>1, <1>3, <3>1, UdpFrameAssumption
    <3> QED BY <2>1, <3>2, <3>3, Zenon
  <2>2. CASE ~V4(r)
    <3>1. 8 + n =< LengthMax
      BY <2>2, RequestIs
    <3>2. Len(segment) = 8 + n
      BY <1>3, <1>7, Zenon
    <3> QED BY <2>2, <3>1, <3>2, Zenon
  <2> QED BY <2>1, <2>2
<1>9. ASSUME V4(r)
      PROVE  Multiple(SumWords(SubSeq(ip, 1, 20)))
  <2>1. PICK x \in Seq(Nat) : Len(x) = 20 /\ Holds(t, 0, x) /\ Multiple(SumWords(x))
    BY <1>3, <1>9
  <2>2. 0 \in Nat /\ 0 + Len(x) =< lt /\ 0 + 1 = 1 /\ 0 + Len(x) = 20
    <3>1. h = 20
      BY <1>9, Zenon DEF HeaderLength
    <3> HIDE DEF k, h, n, u, i, t, lt, lf, lg
    <3> QED BY <1>1, <1>3, <2>1, <3>1
  <2>3. SubSeq(t, 0 + 1, 0 + Len(x)) = x
    BY <1>3, <2>1, <2>2, PartIs
  <2>4. SubSeq(ip, 1, 20) = x
    BY <1>6, <2>2, <2>3, Zenon
  <2> QED BY <2>1, <2>4, Zenon
<1>10. /\ WordAt(segment, 6) # 0
       /\ Multiple(SumWords(PseudoHeader(r, Len(segment)) \o segment))
  BY <1>4, <1>7, Zenon
<1> HIDE DEF ip, segment
<1> QED BY <1>8, <1>9, <1>10, Zenon DEF ip, segment

(* Every frame of encapsulate_udp has right lengths and checksums: for every *)
(* payload, address and port it accepts.                                     *)
THEOREM FramesAlwaysOpenCleanly == Spec => []FramesOpenCleanly
<1>1. FrameInvariant => FramesOpenCleanly
  <2> SUFFICES ASSUME FrameInvariant, phase = "sent", way.headers = 0
               PROVE  FramesOpenCleanly
    BY Zenon DEF FramesOpenCleanly
  <2>1. "sent" \in {"sent", "captured"}
    OBVIOUS
  <2>2. PICK chain : /\ Accepted(request) /\ Way(request, way, chain)
                     /\ Layout(frame, request, way, chain) /\ Sent(request, frame, way)
    BY <2>1, Zenon DEF FrameInvariant, OnTheWay
  <2>3. /\ frame \in Seq(Nat) /\ Len(frame) = TotalLength(request, way)
        /\ Holds(frame, Start(request, way), Packet(request))
    BY <2>2, Zenon DEF Layout, Sent
  <2>4. IpStart = Start(request, way)
    BY <2>2, IpStartIs
  <2> DEFINE ip == SubSeq(frame, Start(request, way) + 1, Len(frame))
             segment == SubSeq(ip, HeaderLength(request) + 1, Len(ip))
  <2>5. /\ Len(IF V4(request) THEN ip ELSE segment) =< LengthMax
        /\ WordAt(segment, 6) # 0
        /\ Multiple(SumWords(PseudoHeader(request, Len(segment)) \o segment))
        /\ V4(request) => Multiple(SumWords(SubSeq(ip, 1, 20)))
    BY <2>2, <2>3, SentOpensCleanly
  <2> QED BY <2>4, <2>5, Zenon DEF FramesOpenCleanly, Multiple, V4, HeaderLength
<1> QED BY <1>1, FrameInvariantHolds, PTL

(* decapsulate_udp gives back the payload of every frame of encapsulate_udp, *)
(* up to the cut and without padding, and gives no result exactly when the   *)
(* cut is before the payload or the walk cannot pass the layers: for every   *)
(* request, chain of extension headers, number of tags and cut.              *)
THEOREM PayloadAlwaysComesBack == Spec => []PayloadComesBack
<1>1. FrameInvariant => PayloadComesBack
  <2> SUFFICES ASSUME FrameInvariant, phase = "captured", walk.stage = "done"
               PROVE  PayloadComesBack
    BY Zenon DEF PayloadComesBack
  <2>1. PICK chain, off, s, a, e, t, n, src, dst, result :
          StandsAt(chain, off, s, a, e, t, n, src, dst, result)
    BY Stands
  <2>2. walk.result = IF Blocked(request, way) THEN None ELSE Delivered(request, way)
    <3>1. s = "done" /\ walk.result = result
      BY <2>1, StandsIn
    <3>2. result = IF Blocked(request, way) THEN None ELSE Delivered(request, way)
      BY <2>1, <3>1, StandsIn
    <3> QED BY <3>1, <3>2, Zenon
  <2>3. Accepted(request)
    BY <2>1, Zenon DEF StandsAt
  <2>4. HeaderBytes = UdpStart(request, way) + 8
    <3>1. IpStart = Start(request, way)
      BY <2>3, IpStartIs
    <3> QED BY <3>1, Zenon DEF HeaderBytes, UdpStart, HeaderLength, V4
  <2>5. Version(request.src) = 6 <=> ~V4(request)
    BY DEF Version, V4
  <2> DEFINE blocked == \/ way.captured < HeaderBytes
                        \/ way.tags > MaxVlanTags
                        \/ Version(request.src) = 6 /\ way.headers > MaxExtensionHeaders
                        \/ ~way.known
             delivered ==
               [src      |-> request.src,
                dst      |-> request.dst,
                src_port |-> request.src_port,
                dst_port |-> request.dst_port,
                payload  |-> LET m == way.captured - HeaderBytes IN
                             IF m < Len(request.payload)
                             THEN SubSeq(request.payload, 1, m)
                             ELSE request.payload]
  <2>6. blocked <=> Blocked(request, way)
    BY <2>4, <2>5, Zenon DEF Blocked
  <2>7. delivered = Delivered(request, way)
    BY <2>4, Zenon DEF Delivered, N
  <2>8. walk.result = IF blocked THEN None ELSE delivered
    BY <2>2, <2>6, <2>7, Zenon
  <2>9. IF blocked THEN walk.result = None ELSE walk.result = delivered
    BY <2>8, Zenon
  <2> QED BY <2>9, Zenon DEF PayloadComesBack
<1> QED BY <1>1, FrameInvariantHolds, PTL
=============================================================================
