----------------------- MODULE ExtensionElementsProofs -----------------------
(* What ExtensionElements' run shows for a few elements and a few foreign    *)
(* extensions, for any.                                                      *)
EXTENDS ExtensionElements, SequenceTheorems, TLAPS

ElementType == [id: Int, data: Seq(Byte)]

TypeOK ==
  /\ format \in {"one_byte", "two_byte", "unknown"}
  /\ asked \in Seq(ElementType)
  /\ extension \in ExtensionType
  /\ phase \in {"building", "refused", "parsing", "done"}
  /\ pos \in Nat
  /\ elements \in Seq(ElementType)
  /\ heads \in Seq(Nat)
  /\ Len(heads) = Len(elements)

HeadSize(k) == IF k = "one_byte" THEN 1 ELSE 2

(* An element lies at a place of some bytes if its identifier and length are *)
(* said there, its data following.                                           *)
LiesAt(k, bytes, at, element) ==
  /\ at + HeadSize(k) + Len(element.data) =< Len(bytes)
  /\ IF k = "one_byte"
     THEN bytes[at + 1] = ((16 * element.id) + Len(element.data)) - 1
     ELSE bytes[at + 1] = element.id /\ bytes[at + 2] = Len(element.data)
  /\ \A i \in 1 .. Len(element.data) :
       bytes[at + HeadSize(k) + i] = element.data[i]

(* Where element i ends, and where the next one could begin.                 *)
End(i) ==
  IF i = 0 THEN 0 ELSE heads[i] + HeadSize(kind) + Len(elements[i].data)

Scanned ==
  /\ phase = "building" => pos = 0 /\ elements = <<>>
  /\ phase \in {"parsing", "done"} =>
       /\ pos =< Len(data)
       /\ \A i \in 1 .. Len(elements) :
            /\ LiesAt(kind, data, heads[i], elements[i])
            /\ End(i) =< pos
            /\ \A at \in End(i - 1) .. heads[i] - 1 : ByteAt(at) = 0
       /\ \A at \in End(Len(elements)) .. pos - 1 : ByteAt(at) = 0

(* Why a scan may stop before the end.                                       *)
CutOff ==
  phase = "done" /\ pos < Len(data) =>
    /\ kind = "one_byte" =>
         \/ ByteAt(pos) \div 16 = 15
         \/ Len(data) - pos < 2 + (ByteAt(pos) % 16)
    /\ kind = "two_byte" =>
         \/ Len(data) - pos = 1
         \/ Len(data) - pos < 2 + ByteAt(pos + 1)

(* What the builder accepts.                                                 *)
Serializable(f, e) ==
  IF f = "one_byte" THEN e.id \in 1 .. 14 /\ Len(e.data) \in 1 .. 16
  ELSE e.id \in 1 .. 255 /\ Len(e.data) \in 0 .. 255

(* The elements that were asked for: es[i] lies at at[i] and ends where the  *)
(* next one lies.                                                            *)
LaidOut(f, es, bytes, at) ==
  /\ at[1] = 0
  /\ \A i \in 1 .. Len(es) :
       /\ Serializable(f, es[i])
       /\ LiesAt(f, bytes, at[i], es[i])
       /\ at[i + 1] = at[i] + HeadSize(f) + Len(es[i].data)

(* What follows the last one: nothing, and later padding to whole words.     *)
Padded(bytes, last) ==
  /\ last =< Len(bytes)
  /\ phase = "building" => last = Len(bytes)
  /\ phase # "building" => Len(bytes) % 4 = 0
  /\ \A i \in last + 1 .. Len(bytes) : bytes[i] = 0

(* How far the parser has come.                                              *)
Progress(at) ==
  LET n == Len(asked)
      m == Len(elements)
  IN  /\ m =< n
      /\ \A i \in 1 .. m : elements[i] = asked[i]
      /\ m < n => pos = at[m + 1]
      /\ m = n /\ phase # "building" => pos >= at[n + 1]
      /\ phase = "done" => m = n

Built ==
  format # "unknown" /\ phase # "refused" =>
    /\ extension.profile = ProfileValue(format)
    /\ \E at \in Seq(Nat) :
         /\ Len(at) = Len(asked) + 1
         /\ LaidOut(format, asked, data, at)
         /\ Padded(data, at[Len(asked) + 1])
         /\ Progress(at)

IInv == TypeOK /\ Scanned /\ CutOff /\ Built

----------------------------------------------------------------------------
(* Elements and bytes.                                                       *)
LEMMA ElementFields ==
  ASSUME NEW e \in ElementType
  PROVE  e.id \in Int /\ e.data \in Seq(Byte) /\ Len(e.data) \in Nat
BY LenProperties DEF ElementType

LEMMA BytesAreNumbers ==
  ASSUME NEW s \in Seq(Byte)
  PROVE  s \in Seq(Int) /\ Len(s) \in Nat /\ \A i \in 1 .. Len(s) : s[i] \in 0 .. 255
<1>1. Len(s) \in Nat /\ \A i \in 1 .. Len(s) : s[i] \in 0 .. 255
  BY LenProperties, ElementOfSeq DEF Byte
<1>2. ASSUME NEW i \in 1 .. Len(s)
      PROVE  s[i] \in Int
  <2>1. \A x \in 0 .. 255 : x \in Int
    OBVIOUS
  <2> QED BY Zenon, <1>1, <2>1
<1>3. SubSeq(s, 1, Len(s)) \in Seq(Int)
  BY <1>1, <1>2, SubSeqProperties
<1> QED BY <1>1, <1>3, SubSeqFull

LEMMA Concatenation ==
  ASSUME NEW S, NEW s \in Seq(S), NEW t \in Seq(S)
  PROVE  /\ s \o t \in Seq(S)
         /\ Len(s) \in Nat /\ Len(t) \in Nat
         /\ Len(s \o t) = Len(s) + Len(t)
         /\ \A i \in 1 .. Len(s) : (s \o t)[i] = s[i]
         /\ \A i \in 1 .. Len(t) : (s \o t)[Len(s) + i] = t[i]
<1>1. Len(s) \in Nat /\ Len(t) \in Nat
  BY LenProperties
<1>2. /\ s \o t \in Seq(S)
      /\ Len(s \o t) = Len(s) + Len(t)
      /\ \A i \in 1 .. Len(s) + Len(t) :
           (s \o t)[i] = IF i =< Len(s) THEN s[i] ELSE t[i - Len(s)]
  BY ConcatProperties
<1>3. ASSUME NEW i \in 1 .. Len(t)
      PROVE  (s \o t)[Len(s) + i] = t[i]
  <2>1. /\ Len(s) + i \in 1 .. Len(s) + Len(t)
        /\ ~(Len(s) + i =< Len(s))
        /\ (Len(s) + i) - Len(s) = i
    BY <1>1
  <2> QED BY <1>2, <2>1
<1>4. ASSUME NEW i \in 1 .. Len(s)
      PROVE  (s \o t)[i] = s[i]
  <2>1. i \in 1 .. Len(s) + Len(t) /\ i =< Len(s)
    BY <1>1
  <2> QED BY <1>2, <2>1
<1> QED BY <1>1, <1>2, <1>3, <1>4

LEMMA ConcatenationOfBytes ==
  ASSUME NEW s \in Seq(Byte), NEW t \in Seq(Byte)
  PROVE  /\ s \o t \in Seq(Byte)
         /\ Len(s \o t) = Len(s) + Len(t)
         /\ \A i \in 1 .. Len(s) : (s \o t)[i] = s[i]
         /\ \A i \in 1 .. Len(t) : (s \o t)[Len(s) + i] = t[i]
BY Concatenation

LEMMA ConcatenationOfNumbers ==
  ASSUME NEW s \in Seq(Int), NEW t \in Seq(Int)
  PROVE  /\ s \o t \in Seq(Int)
         /\ Len(s \o t) = Len(s) + Len(t)
         /\ \A i \in 1 .. Len(s) : (s \o t)[i] = s[i]
         /\ \A i \in 1 .. Len(t) : (s \o t)[Len(s) + i] = t[i]
BY Concatenation

LEMMA BytesAssociative ==
  ASSUME NEW s \in Seq(Byte), NEW t \in Seq(Byte), NEW u \in Seq(Byte)
  PROVE  (s \o t) \o u = s \o (t \o u)
BY ConcatAssociative

(* A one-byte head tells identifier and length.                              *)
LEMMA OneByteHead ==
  ASSUME NEW a \in Int, NEW b \in Int, NEW l \in 1 .. 16, NEW m \in 1 .. 16,
         ((16 * a) + l) - 1 = ((16 * b) + m) - 1
  PROVE  a = b /\ l = m
OBVIOUS

LEMMA ElementHeads ==
  ASSUME NEW k \in {"one_byte", "two_byte"}, NEW e \in ElementType
  PROVE  /\ ElementHead(k, e) \in Seq(Int)
         /\ Len(ElementHead(k, e)) = HeadSize(k)
         /\ HeadSize(k) \in 1 .. 2
         /\ k = "one_byte" =>
              /\ HeadSize(k) = 1
              /\ ElementHead(k, e)[1] = ((16 * e.id) + Len(e.data)) - 1
         /\ k = "two_byte" =>
              /\ HeadSize(k) = 2
              /\ ElementHead(k, e)[1] = e.id
              /\ ElementHead(k, e)[2] = Len(e.data)
<1>1. e.id \in Int /\ Len(e.data) \in Nat
  BY ElementFields
<1>2. CASE k = "one_byte"
  BY <1>1, <1>2 DEF ElementHead, HeadSize
<1>3. CASE k = "two_byte"
  BY <1>1, <1>3 DEF ElementHead, HeadSize
<1> QED BY <1>2, <1>3

(* The bytes where an element lies are its serialization.                    *)
LEMMA LiesAtSlice ==
  ASSUME NEW k \in {"one_byte", "two_byte"}, NEW bytes \in Seq(Byte),
         NEW at \in Nat, NEW e \in ElementType, LiesAt(k, bytes, at, e)
  PROVE  SubSeq(bytes, at + 1, at + HeadSize(k) + Len(e.data))
           = ElementHead(k, e) \o e.data
<1> DEFINE h == HeadSize(k)
           l == Len(e.data)
           left == SubSeq(bytes, at + 1, at + h + l)
           right == ElementHead(k, e) \o e.data
<1>1. h \in 1 .. 2 /\ l \in Nat /\ at + h + l \in Nat /\ at + h + l =< Len(bytes)
  BY ElementHeads, ElementFields, SMTT(40) DEF LiesAt
<1>2. \A i \in at + 1 .. at + h + l : bytes[i] \in Int
  <2> SUFFICES ASSUME NEW i \in at + 1 .. at + h + l
               PROVE  bytes[i] \in Int
    OBVIOUS
  <2>1. Len(bytes) \in Nat
    BY BytesAreNumbers
  <2>2. i \in 1 .. Len(bytes)
    <3> HIDE DEF h, l
    <3> QED BY <1>1, <2>1
  <2> QED BY <2>2, BytesAreNumbers
<1>3. /\ left \in Seq(Int)
      /\ Len(left) = h + l
      /\ \A i \in 1 .. h + l : left[i] = bytes[at + i]
  <2> HIDE DEF h, l
  <2>1. /\ at + h + l - (at + 1) + 1 = h + l /\ at + 1 =< at + h + l
        /\ \A i \in 1 .. h + l : at + 1 + i - 1 = at + i
    BY <1>1
  <2> QED BY <1>1, <1>2, <2>1, SubSeqProperties, SMTT(40)
<1>4. /\ ElementHead(k, e) \in Seq(Int) /\ e.data \in Seq(Int)
      /\ Len(ElementHead(k, e)) = h
  BY ElementHeads, ElementFields, BytesAreNumbers
<1>5. /\ right \in Seq(Int)
      /\ Len(right) = h + l
      /\ \A i \in 1 .. h : right[i] = ElementHead(k, e)[i]
      /\ \A i \in 1 .. l : right[h + i] = e.data[i]
  <2>1. /\ right \in Seq(Int)
        /\ Len(right) = Len(ElementHead(k, e)) + Len(e.data)
        /\ \A i \in 1 .. Len(ElementHead(k, e)) : right[i] = ElementHead(k, e)[i]
        /\ \A i \in 1 .. Len(e.data) : right[Len(ElementHead(k, e)) + i] = e.data[i]
    BY Zenon, <1>4, ConcatenationOfNumbers
  <2> QED BY Zenon, <1>4, <2>1
<1>6. ASSUME NEW i \in 1 .. h + l
      PROVE  left[i] = right[i]
  <2> HIDE DEF left, right
  <2>1. CASE i =< h
    <3>1. (i = 1 \/ i = 2) /\ i \in 1 .. h
      BY <1>1, <2>1
    <3>2. bytes[at + i] = ElementHead(k, e)[i]
      BY <1>1, <2>1, <3>1, ElementHeads, SMTT(40) DEF LiesAt
    <3> QED BY <1>3, <1>5, <3>1, <3>2
  <2>2. CASE i > h
    <3> DEFINE j == i - h
    <3>1. j \in 1 .. l /\ h + j = i /\ at + h + j = at + i
      <4> HIDE DEF h, l
      <4> QED BY <1>1, <2>2
    <3> HIDE DEF j
    <3>2. bytes[at + h + j] = e.data[j]
      BY <3>1 DEF LiesAt
    <3>3. right[h + j] = e.data[j]
      BY <1>5, <3>1
    <3> QED BY <1>3, <3>1, <3>2, <3>3
  <2>3. i \in Int /\ h \in Int
    <3> HIDE DEF h, l
    <3> QED BY <1>1
  <2> QED BY <2>1, <2>2, <2>3
<1> QED
  <2> HIDE DEF left, right
  <2>1. left = right
    BY <1>3, <1>5, <1>6, SeqEqual
  <2> QED BY <2>1 DEF left, right

(* Only one element of a serializable length lies at a place.                *)
LEMMA LiesAtOnce ==
  ASSUME NEW k \in {"one_byte", "two_byte"}, NEW bytes \in Seq(Byte),
         NEW at \in Nat, NEW e \in ElementType, NEW f \in ElementType,
         LiesAt(k, bytes, at, e), LiesAt(k, bytes, at, f),
         k = "one_byte" => Len(e.data) \in 1 .. 16 /\ Len(f.data) \in 1 .. 16
  PROVE  e = f
<1>1. /\ e.id \in Int /\ e.data \in Seq(Byte) /\ Len(e.data) \in Nat
      /\ f.id \in Int /\ f.data \in Seq(Byte) /\ Len(f.data) \in Nat
  BY ElementFields
<1>2. e.id = f.id /\ Len(e.data) = Len(f.data)
  <2>1. CASE k = "one_byte"
    <3>1. ((16 * e.id) + Len(e.data)) - 1 = ((16 * f.id) + Len(f.data)) - 1
      BY <2>1 DEF LiesAt
    <3>2. Len(e.data) \in 1 .. 16 /\ Len(f.data) \in 1 .. 16
      BY <2>1
    <3> DEFINE a == e.id
               b == f.id
               l == Len(e.data)
               m == Len(f.data)
    <3>3. a \in Int /\ b \in Int /\ l \in 1 .. 16 /\ m \in 1 .. 16
      BY <1>1, <3>2
    <3>4. ((16 * a) + l) - 1 = ((16 * b) + m) - 1
      BY <3>1
    <3> HIDE DEF a, b, l, m
    <3>5. a = b /\ l = m
      BY <3>3, <3>4, OneByteHead
    <3> QED BY <3>5 DEF a, b, l, m
  <2>2. CASE k = "two_byte"
    BY <2>2 DEF LiesAt
  <2> QED BY <2>1, <2>2
<1>3. \A i \in 1 .. Len(e.data) : e.data[i] = f.data[i]
  BY <1>2 DEF LiesAt
<1>4. e.data = f.data
  BY <1>1, <1>2, <1>3, SeqEqual
<1> QED BY <1>2, <1>4 DEF ElementType

(* Bytes that are appended do not disturb the elements before them.          *)
LEMMA LiesAtBefore ==
  ASSUME NEW k \in {"one_byte", "two_byte"}, NEW bytes \in Seq(Byte),
         NEW more \in Seq(Byte), NEW at \in Nat, NEW e \in ElementType,
         LiesAt(k, bytes, at, e)
  PROVE  LiesAt(k, bytes \o more, at, e)
<1> DEFINE h == HeadSize(k)
           l == Len(e.data)
           all == bytes \o more
<1>1. /\ h \in 1 .. 2 /\ l \in Nat /\ at + h + l =< Len(bytes)
      /\ k = "two_byte" => h = 2
  BY ElementHeads, ElementFields DEF LiesAt
<1>2. /\ Len(all) = Len(bytes) + Len(more) /\ Len(bytes) \in Nat /\ Len(more) \in Nat
      /\ \A i \in 1 .. Len(bytes) : all[i] = bytes[i]
  BY LenProperties, ConcatProperties
<1>3. all[at + 1] = bytes[at + 1] /\ (k = "two_byte" => all[at + 2] = bytes[at + 2])
  BY <1>1, <1>2
<1>4. ASSUME NEW i \in 1 .. l
      PROVE  all[at + h + i] = bytes[at + h + i]
  BY <1>1, <1>2
<1>5. at + h + l =< Len(all)
  BY <1>1, <1>2
<1> HIDE DEF all
<1> QED BY <1>3, <1>4, <1>5 DEF LiesAt, all

(* An element that is appended lies where the bytes ended before.            *)
LEMMA LiesAtEnd ==
  ASSUME NEW k \in {"one_byte", "two_byte"}, NEW bytes \in Seq(Byte),
         NEW e \in ElementType, ElementHead(k, e) \in Seq(Byte)
  PROVE  LET all == bytes \o (ElementHead(k, e) \o e.data) IN
         /\ LiesAt(k, all, Len(bytes), e)
         /\ all \in Seq(Byte)
         /\ Len(all) = Len(bytes) + HeadSize(k) + Len(e.data)
<1> DEFINE h == HeadSize(k)
           l == Len(e.data)
           n == Len(bytes)
           head == ElementHead(k, e)
           one == head \o e.data
           all == bytes \o one
<1>1. h \in 1 .. 2 /\ l \in Nat /\ n \in Nat /\ Len(head) = h /\ e.data \in Seq(Byte)
  BY ElementHeads, ElementFields, LenProperties
<1>2. /\ one \in Seq(Byte) /\ Len(one) = h + l
      /\ \A i \in 1 .. h : one[i] = head[i]
      /\ \A i \in 1 .. l : one[h + i] = e.data[i]
  <2>1. /\ head \o e.data \in Seq(Byte)
        /\ Len(head \o e.data) = Len(head) + Len(e.data)
        /\ \A i \in 1 .. Len(head) : (head \o e.data)[i] = head[i]
        /\ \A i \in 1 .. Len(e.data) : (head \o e.data)[Len(head) + i] = e.data[i]
    BY Zenon, <1>1, ConcatenationOfBytes
  <2> QED BY Zenon, <1>1, <2>1
<1> HIDE DEF one
<1>3. /\ all \in Seq(Byte) /\ Len(all) = n + (h + l)
      /\ \A i \in 1 .. h + l : all[n + i] = one[i]
  <2>1. /\ bytes \o one \in Seq(Byte)
        /\ Len(bytes \o one) = Len(bytes) + Len(one)
        /\ \A i \in 1 .. Len(one) : (bytes \o one)[Len(bytes) + i] = one[i]
    BY Zenon, <1>2, ConcatenationOfBytes
  <2> QED BY Zenon, <1>2, <2>1
<1> HIDE DEF all
<1>4. all[n + 1] = head[1] /\ (h = 2 => all[n + 2] = head[2])
  <2>1. 1 \in 1 .. h /\ 1 \in 1 .. h + l /\ (h = 2 => 2 \in 1 .. h /\ 2 \in 1 .. h + l)
    BY <1>1
  <2> QED BY <1>2, <1>3, <2>1
<1>5. ASSUME NEW i \in 1 .. l
      PROVE  all[n + h + i] = e.data[i]
  <2> HIDE DEF h, l, n
  <2>1. h + i \in 1 .. h + l /\ n + (h + i) = n + h + i
    BY <1>1
  <2> QED BY <1>2, <1>3, <2>1
<1>6. n + h + l =< Len(all) /\ Len(all) = n + h + l
  <2> HIDE DEF h, l, n
  <2> QED BY <1>1, <1>3
<1>7. LiesAt(k, all, n, e)
  <2>1. IF k = "one_byte" THEN all[n + 1] = ((16 * e.id) + Len(e.data)) - 1
        ELSE all[n + 1] = e.id /\ all[n + 2] = Len(e.data)
    BY <1>4, ElementHeads
  <2> QED BY <1>5, <1>6, <2>1 DEF LiesAt
<1> QED BY <1>3, <1>6, <1>7 DEF all, one

LEMMA LayoutAfterElement ==
  ASSUME NEW f \in {"one_byte", "two_byte"}, NEW es \in Seq(ElementType),
         NEW bytes \in Seq(Byte), NEW at \in Seq(Nat), NEW e \in ElementType,
         Len(at) = Len(es) + 1, at[Len(es) + 1] = Len(bytes),
         LaidOut(f, es, bytes, at), Serializable(f, e), ElementHead(f, e) \in Seq(Byte)
  PROVE  LET all == bytes \o (ElementHead(f, e) \o e.data)
             more == Append(at, Len(all))
         IN  /\ more \in Seq(Nat)
             /\ Len(more) = Len(at) + 1
             /\ more[Len(at) + 1] = Len(all)
             /\ \A i \in 1 .. Len(at) : more[i] = at[i]
             /\ LaidOut(f, Append(es, e), all, more)
<1> DEFINE all == bytes \o (ElementHead(f, e) \o e.data)
           more == Append(at, Len(all))
           n == Len(es)
           longer == Append(es, e)
<1>1. /\ LiesAt(f, all, Len(bytes), e)
      /\ all \in Seq(Byte)
      /\ Len(all) = Len(bytes) + HeadSize(f) + Len(e.data)
  BY LiesAtEnd
<1>2. n \in Nat /\ Len(at) = n + 1 /\ Len(all) \in Nat
  BY <1>1, LenProperties
<1>3. /\ more \in Seq(Nat) /\ Len(more) = Len(at) + 1
      /\ more[Len(at) + 1] = Len(all)
      /\ \A i \in 1 .. Len(at) : more[i] = at[i]
  BY <1>2, AppendProperties
<1>4. /\ Len(longer) = n + 1 /\ longer[n + 1] = e
      /\ \A i \in 1 .. n : longer[i] = es[i]
  BY AppendProperties
<1>5. \A i \in 1 .. n : es[i] \in ElementType /\ at[i] \in Nat
  BY <1>2, ElementOfSeq
<1>6. ElementHead(f, e) \o e.data \in Seq(Byte)
  BY ElementFields, ConcatenationOfBytes
<1>7. \A i \in 1 .. n : LiesAt(f, all, at[i], es[i])
  BY <1>5, <1>6, LiesAtBefore DEF LaidOut
<1> HIDE DEF all, more, longer
<1>8. ASSUME NEW i \in 1 .. n + 1
      PROVE  /\ Serializable(f, longer[i])
             /\ LiesAt(f, all, more[i], longer[i])
             /\ more[i + 1] = more[i] + HeadSize(f) + Len(longer[i].data)
  <2>1. CASE i \in 1 .. n
    <3>1. i \in 1 .. Len(at) /\ i + 1 \in 1 .. Len(at)
      BY <1>2, <2>1
    <3>2. more[i] = at[i] /\ more[i + 1] = at[i + 1] /\ longer[i] = es[i]
      BY <1>3, <1>4, <2>1, <3>1
    <3> QED BY <1>7, <2>1, <3>2 DEF LaidOut
  <2>2. CASE i = n + 1
    <3>1. i \in 1 .. Len(at)
      BY <1>2, <2>2
    <3>2. /\ more[i] = Len(bytes) /\ more[i + 1] = Len(all) /\ longer[i] = e
      BY <1>2, <1>3, <1>4, <2>2, <3>1
    <3> QED BY <1>1, <3>2
  <2> QED BY <1>2, <2>1, <2>2
<1>9. more[1] = 0
  <2>1. 1 \in 1 .. Len(at)
    BY <1>2
  <2> QED BY <1>3, <2>1 DEF LaidOut
<1>10. LaidOut(f, longer, all, more)
  BY <1>4, <1>8, <1>9 DEF LaidOut
<1> QED BY <1>3, <1>10 DEF all, more, longer

LEMMA LayoutAfterPadding ==
  ASSUME NEW f \in {"one_byte", "two_byte"}, NEW es \in Seq(ElementType),
         NEW bytes \in Seq(Byte), NEW at \in Seq(Nat), NEW padding \in Seq(Byte),
         Len(at) = Len(es) + 1, LaidOut(f, es, bytes, at)
  PROVE  LaidOut(f, es, bytes \o padding, at)
<1>1. Len(es) \in Nat
  BY LenProperties
<1>2. \A i \in 1 .. Len(es) : es[i] \in ElementType /\ at[i] \in Nat
  BY <1>1, ElementOfSeq
<1>3. \A i \in 1 .. Len(es) : LiesAt(f, bytes \o padding, at[i], es[i])
  BY <1>2, LiesAtBefore DEF LaidOut
<1> QED BY <1>3 DEF LaidOut

(* Whole words.                                                              *)
LEMMA PaddingToWords ==
  ASSUME NEW n \in Nat
  PROVE  (-n) % 4 \in 0 .. 3 /\ (n + ((-n) % 4)) % 4 = 0
OBVIOUS

----------------------------------------------------------------------------
(* The builder and the parser.                                               *)
LEMMA FitsIsSerializable ==
  ASSUME format # "unknown", NEW e \in ElementType, Fits(e)
  PROVE  /\ format \in {"one_byte", "two_byte"}
         /\ Serializable(format, e)
         /\ ElementHead(format, e) \in Seq(Byte)
<1>1. e.id \in Int /\ Len(e.data) \in Nat
  BY ElementFields
<1> DEFINE n == e.id
           l == Len(e.data)
<1>2. /\ format \in {"one_byte", "two_byte"}
      /\ format = "one_byte" => n \in 1 .. 14 /\ l \in 1 .. 16
      /\ format = "two_byte" => n \in 1 .. 255 /\ l \in 0 .. 255
      /\ Serializable(format, e)
  <2>1. \/ format = "one_byte" /\ n \in 1 .. 14 /\ l \in 1 .. 16
        \/ format = "two_byte" /\ n \in 1 .. 255 /\ l =< 255
    BY Zenon DEF Fits
  <2>2. l \in Nat
    BY <1>1
  <2> HIDE DEF n, l
  <2>3. /\ format \in {"one_byte", "two_byte"}
        /\ format = "one_byte" => n \in 1 .. 14 /\ l \in 1 .. 16
        /\ format = "two_byte" => n \in 1 .. 255 /\ l \in 0 .. 255
    BY <2>1, <2>2
  <2> QED BY Zenon, <2>3 DEF Serializable, n, l
<1>3. CASE format = "one_byte"
  <2>1. (16 * n) + (l - 1) \in 0 .. 255
    <3> HIDE DEF n, l
    <3> QED BY <1>2, <1>3
  <2>2. \A x \in 0 .. 255 : <<x>> \in Seq(Byte)
    BY DEF Byte
  <2>3. ElementHead(format, e) = <<(16 * n) + (l - 1)>>
    BY Zenon, <1>3 DEF ElementHead
  <2>4. ElementHead(format, e) \in Seq(Byte)
    <3> DEFINE x == (16 * n) + (l - 1)
    <3> HIDE DEF x
    <3> QED BY <2>1, <2>2, <2>3 DEF x
  <2> QED BY <1>2, <2>4
<1>4. CASE format = "two_byte"
  <2>1. n \in 0 .. 255 /\ l \in 0 .. 255
    <3> HIDE DEF n, l
    <3> QED BY <1>2, <1>4
  <2>2. \A x, y \in 0 .. 255 : <<x, y>> \in Seq(Byte)
    BY DEF Byte
  <2>3. ElementHead(format, e) = <<n, l>>
    <3>1. format # "one_byte"
      BY <1>4, Zenon
    <3> QED BY Zenon, <3>1 DEF ElementHead
  <2> HIDE DEF n, l
  <2>4. ElementHead(format, e) \in Seq(Byte)
    BY <2>1, <2>2, <2>3
  <2> QED BY <1>2, <2>4
<1> QED BY <1>2, <1>3, <1>4

LEMMA DataFacts ==
  ASSUME TypeOK
  PROVE  /\ data \in Seq(Byte)
         /\ Len(data) \in Nat
         /\ \A i \in 1 .. Len(data) : data[i] \in 0 .. 255
         /\ Len(asked) \in Nat
         /\ Len(elements) \in Nat
         /\ Len(heads) \in Nat
<1>1. data \in Seq(Byte)
  BY DEF TypeOK, ExtensionType, data
<1> QED BY <1>1, BytesAreNumbers, LenProperties DEF TypeOK

(* What the parser reads lies where it reads.                                *)
LEMMA ReadsWhatLiesThere ==
  ASSUME TypeOK, ReadElement
  PROVE  \E e \in ElementType :
           /\ kind \in {"one_byte", "two_byte"}
           /\ LiesAt(kind, data, pos, e)
           /\ kind = "one_byte" => Len(e.data) \in 1 .. 16
           /\ elements' = Append(elements, e)
           /\ heads' = Append(heads, pos)
           /\ pos' = pos + HeadSize(kind) + Len(e.data)
           /\ pos' =< Len(data)
<1> DEFINE start == DataStart
           length == DataLength
           end == start + length
           e == [id |-> Id, data |-> SubSeq(data, start + 1, end)]
<1>1. /\ data \in Seq(Byte) /\ Len(data) \in Nat /\ pos \in Nat
      /\ \A i \in 1 .. Len(data) : data[i] \in 0 .. 255
  BY DataFacts DEF TypeOK
<1>2. kind \in {"one_byte", "two_byte"} /\ pos < Len(data) /\ end =< Len(data)
      /\ start =< Len(data)
  BY DEF ReadElement, InData, Whole, kind, Kind
<1>3. /\ start = pos + HeadSize(kind) /\ HeadSize(kind) \in 1 .. 2 /\ start \in Nat
      /\ kind = "one_byte" => HeadSize(kind) = 1
      /\ kind = "two_byte" => HeadSize(kind) = 2
  BY <1>1, <1>2 DEF DataStart, HeadSize
<1>4. pos + 1 \in 1 .. Len(data) /\ (kind = "two_byte" => pos + 2 \in 1 .. Len(data))
  BY <1>1, <1>2, <1>3
<1>5. /\ Id \in Int /\ length \in Nat
      /\ kind = "one_byte" =>
           length \in 1 .. 16 /\ data[pos + 1] = ((16 * Id) + length) - 1
      /\ kind = "two_byte" =>
           Id = data[pos + 1] /\ length = data[pos + 2]
  <2>1. CASE kind = "one_byte"
    <3> DEFINE b == data[pos + 1]
    <3>1. b \in 0 .. 255
      BY <1>1, <1>4
    <3>2. Id = b \div 16 /\ length = (b % 16) + 1
      BY <2>1 DEF Id, DataLength, ByteAt
    <3> HIDE DEF b, length
    <3>3. b \div 16 \in Int /\ b % 16 \in 0 .. 15 /\ b = (16 * (b \div 16)) + (b % 16)
      BY <3>1
    <3>4. Id \in Int /\ length \in 1 .. 16 /\ b = ((16 * Id) + length) - 1
      BY <3>2, <3>3
    <3> QED BY <2>1, <3>4 DEF b
  <2>2. CASE kind = "two_byte"
    <3>1. data[pos + 1] \in 0 .. 255 /\ data[pos + 2] \in 0 .. 255
      BY <1>1, <1>4, <2>2
    <3>2. Id = data[pos + 1] /\ length = data[pos + 2]
      <4>1. (pos + 1) + 1 = pos + 2
        BY <1>1
      <4> QED BY <2>2, <4>1 DEF Id, DataLength, ByteAt
    <3> QED BY <2>2, <3>1, <3>2
  <2> QED BY <1>2, <2>1, <2>2
<1>6. /\ SubSeq(data, start + 1, end) \in Seq(Byte)
      /\ Len(SubSeq(data, start + 1, end)) = length
      /\ \A i \in 1 .. length : SubSeq(data, start + 1, end)[i] = data[start + i]
  <2> HIDE DEF start, length
  <2>1. start \in Nat /\ length \in Nat /\ end \in Nat
    BY <1>3, <1>5
  <2>2. \A i \in start + 1 .. end : i \in 1 .. Len(data)
    BY <1>1, <1>2, <2>1
  <2>3. \A i \in start + 1 .. end : data[i] \in Byte
    BY <1>1, <2>2, ElementOfSeq
  <2>4. /\ end - (start + 1) + 1 = length
        /\ \A i \in 1 .. length : start + 1 + i - 1 = start + i
        /\ ~(start + 1 =< end) => length = 0
    BY <2>1
  <2> QED BY <2>1, <2>3, <2>4, SubSeqProperties
<1>7. e \in ElementType /\ e.id = Id /\ Len(e.data) = length
  BY <1>5, <1>6 DEF ElementType
<1>8. \A i \in 1 .. length : e.data[i] = data[pos + HeadSize(kind) + i]
  BY <1>3, <1>6
<1>9. elements' = Append(elements, e) /\ heads' = Append(heads, pos) /\ pos' = end
  BY DEF ReadElement
<1> HIDE DEF e, start, length
<1>10. LiesAt(kind, data, pos, e)
  BY <1>2, <1>3, <1>5, <1>7, <1>8 DEF LiesAt
<1> QED BY <1>2, <1>3, <1>5, <1>7, <1>9, <1>10

LEMMA KnownFormat ==
  ASSUME TypeOK, format # "unknown", extension.profile = ProfileValue(format)
  PROVE  format \in {"one_byte", "two_byte"} /\ kind = format
<1>1. format = "one_byte" \/ format = "two_byte"
  BY DEF TypeOK
<1>2. CASE format = "one_byte"
  BY <1>2 DEF kind, Kind, ProfileValue
<1>3. CASE format = "two_byte"
  <2>1. extension.profile = 4096
    BY <1>3 DEF ProfileValue, TwoByteValue
  <2> QED BY <1>3, <2>1 DEF kind, Kind, OneByteMagic, TwoByteValue
<1> QED BY <1>1, <1>2, <1>3

(* Nothing but reading it happens where a serializable element lies.         *)
LEMMA NextElement ==
  ASSUME TypeOK, kind = format, format \in {"one_byte", "two_byte"},
         NEW e \in ElementType, Serializable(format, e), LiesAt(format, data, pos, e)
  PROVE  /\ pos < Len(data)
         /\ ByteAt(pos) # 0
         /\ ~Reserved
         /\ Whole
<1> DEFINE n == e.id
           l == Len(e.data)
           b == data[pos + 1]
<1>1. /\ pos \in Nat /\ n \in Int /\ l \in Nat /\ Len(data) \in Nat
      /\ ByteAt(pos) = b
  BY ElementFields, DataFacts DEF TypeOK, ByteAt
<1>2. CASE format = "one_byte"
  <2>1. n \in 1 .. 14 /\ l \in 1 .. 16
    BY <1>2 DEF Serializable
  <2>2. pos + 1 + l =< Len(data) /\ b = ((16 * n) + l) - 1
    BY <1>2 DEF LiesAt, HeadSize
  <2> HIDE DEF n, l, b
  <2>3. /\ b # 0 /\ b \div 16 = n /\ (b % 16) + 1 = l
        /\ pos + 1 =< Len(data) /\ pos < Len(data)
    BY <1>1, <2>1, <2>2
  <2>4. DataStart = pos + 1 /\ DataLength = l /\ Id = n
    BY <1>1, <1>2, <2>3 DEF DataStart, DataLength, Id
  <2>5. n # 15
    BY <2>1
  <2> QED BY <1>1, <2>2, <2>3, <2>4, <2>5 DEF Whole, Reserved
<1>3. CASE format = "two_byte"
  <2>1. n \in 1 .. 255
    BY <1>3 DEF Serializable
  <2>2. pos + 2 + l =< Len(data) /\ b = n /\ data[pos + 2] = l
    BY <1>3 DEF LiesAt, HeadSize
  <2>3. DataStart = pos + 2 /\ DataLength = l
    <3>1. (pos + 1) + 1 = pos + 2
      BY <1>1
    <3> QED BY <1>3, <2>2, <3>1 DEF DataStart, DataLength, ByteAt
  <2>4. ~Reserved
    BY <1>3 DEF Reserved
  <2> HIDE DEF n, l, b
  <2>5. b # 0 /\ pos + 2 =< Len(data) /\ pos < Len(data)
    <3>1. \A d, p, x \in Nat : p + 2 + x =< d => p + 2 =< d /\ p < d
      OBVIOUS
    <3>2. \A x \in 1 .. 255 : x # 0
      OBVIOUS
    <3>3. pos + 2 =< Len(data) /\ pos < Len(data)
      BY Zenon, <1>1, <2>2, <3>1
    <3> QED BY Zenon, <2>1, <2>2, <3>2, <3>3
  <2> QED BY <1>1, <2>2, <2>3, <2>4, <2>5 DEF Whole
<1> QED BY <1>2, <1>3

----------------------------------------------------------------------------
(* The invariant, part by part.                                              *)
LEMMA TypeStep == TypeOK /\ [Next]_vars => TypeOK'
<1> SUFFICES ASSUME TypeOK, [Next]_vars
             PROVE  TypeOK'
  OBVIOUS
<1>1. /\ format \in {"one_byte", "two_byte", "unknown"}
      /\ asked \in Seq(ElementType) /\ elements \in Seq(ElementType) /\ heads \in Seq(Nat)
      /\ extension \in [profile: Word, data: Seq(Byte)]
      /\ pos \in Nat /\ data \in Seq(Byte) /\ Len(data) \in Nat
  BY DataFacts DEF TypeOK, ExtensionType
<1>2. ASSUME NEW bytes \in Seq(Byte)
      PROVE  [extension EXCEPT !.data = bytes] \in ExtensionType
  BY <1>1 DEF ExtensionType
<1>3. ASSUME NEW e \in Element, BuildElement(e)
      PROVE  TypeOK'
  <2>1. e \in ElementType
    BY ExtensionElementsAssumption DEF ElementType
  <2>2. format # "unknown"
    BY <1>3 DEF BuildElement, Fits
  <2>3. /\ data \in Seq(Byte) /\ ElementHead(format, e) \in Seq(Byte) /\ e.data \in Seq(Byte)
    BY <1>1, <1>3, <2>1, <2>2, FitsIsSerializable, ElementFields DEF BuildElement
  <2>4. (data \o ElementHead(format, e)) \o e.data \in Seq(Byte)
    BY Zenon, <2>3, ConcatenationOfBytes
  <2>5. extension' = [extension EXCEPT !.data = (data \o ElementHead(format, e)) \o e.data]
    BY <1>3 DEF BuildElement, data
  <2>6. extension' \in ExtensionType
    BY <1>2, <2>4, <2>5
  <2>7. asked' \in Seq(ElementType)
    BY <1>1, <1>3, <2>1, AppendProperties DEF BuildElement
  <2> QED BY <1>3, <2>6, <2>7 DEF BuildElement, TypeOK
<1>4. ASSUME NEW e \in Element, BuildError(e)
      PROVE  TypeOK'
  BY <1>4 DEF BuildError, Refuse, TypeOK
<1>5. CASE UnknownProfile
  BY <1>5 DEF UnknownProfile, Refuse, TypeOK
<1>6. CASE CloseExtension
  <2> DEFINE padding == [i \in 1 .. (-Len(data)) % 4 |-> 0]
  <2>1. padding \in Seq(Byte)
    BY <1>1, PaddingToWords DEF Byte
  <2>2. data \o padding \in Seq(Byte)
    <3> HIDE DEF padding
    <3> QED BY Zenon, <1>1, <2>1, ConcatenationOfBytes
  <2>3. extension' = [extension EXCEPT !.data = data \o padding]
    BY <1>6 DEF CloseExtension, data
  <2>4. extension' \in ExtensionType
    <3> HIDE DEF padding
    <3> QED BY <1>2, <2>2, <2>3
  <2> QED BY <1>6, <2>4 DEF CloseExtension, TypeOK
<1>7. CASE ForeignExtension
  BY <1>7, ExtensionElementsAssumption DEF ForeignExtension, TypeOK
<1>8. CASE NothingToScan \/ StopAtReserved \/ StopAtTruncated
  BY <1>8 DEF NothingToScan, StopAtReserved, StopAtTruncated, Stop, TypeOK
<1>9. CASE SkipPadding
  BY <1>9 DEF SkipPadding, TypeOK
<1>10. CASE ReadElement
  <2>1. PICK e \in ElementType : /\ elements' = Append(elements, e)
                                 /\ heads' = Append(heads, pos)
                                 /\ pos' = pos + HeadSize(kind) + Len(e.data)
    BY <1>10, ReadsWhatLiesThere
  <2>2. pos' \in Nat
    <3>1. HeadSize(kind) \in Nat /\ Len(e.data) \in Nat
      BY ElementFields DEF HeadSize
    <3> QED BY <1>1, <2>1, <3>1, SMTT(40)
  <2>3. /\ elements' \in Seq(ElementType) /\ heads' \in Seq(Nat)
        /\ Len(heads') = Len(elements')
    BY <1>1, <2>1, AppendProperties DEF TypeOK
  <2> QED BY <1>10, <2>2, <2>3 DEF ReadElement, TypeOK
<1>11. CASE UNCHANGED vars
  BY <1>11 DEF TypeOK, vars
<1> QED
  BY <1>3, <1>4, <1>5, <1>6, <1>7, <1>8, <1>9, <1>10, <1>11 DEF Next, Scan

(* While an extension is scanned it does not change.                         *)
LEMMA ScanLeavesData ==
  ASSUME Scan \/ UNCHANGED vars
  PROVE  /\ extension' = extension /\ data' = data /\ kind' = kind
         /\ format' = format /\ asked' = asked
BY DEF Scan, NothingToScan, SkipPadding, StopAtReserved, StopAtTruncated, ReadElement,
       Stop, vars, data, kind

LEMMA ScannedStep == TypeOK /\ Scanned /\ [Next]_vars => Scanned'
<1> SUFFICES ASSUME TypeOK, Scanned, [Next]_vars
             PROVE  Scanned'
  OBVIOUS
<1>1. /\ pos \in Nat /\ Len(data) \in Nat /\ Len(elements) \in Nat
      /\ elements \in Seq(ElementType) /\ heads \in Seq(Nat)
      /\ Len(heads) = Len(elements)
      /\ \A i \in 1 .. Len(elements) : elements[i] \in ElementType /\ heads[i] \in Nat
  BY DataFacts, ElementOfSeq DEF TypeOK
<1>2. ASSUME NEW e \in Element, BuildElement(e)
      PROVE  Scanned'
  BY <1>2 DEF BuildElement, Scanned
<1>3. ASSUME NEW e \in Element, BuildError(e)
      PROVE  Scanned'
  BY <1>3 DEF BuildError, Refuse, Scanned
<1>4. CASE UnknownProfile
  BY <1>4 DEF UnknownProfile, Refuse, Scanned
<1>5. CASE CloseExtension \/ ForeignExtension
  <2>1. phase' = "parsing" /\ pos' = 0 /\ elements' = <<>>
    BY <1>5 DEF CloseExtension, ForeignExtension, Scanned
  <2>2. TypeOK'
    BY TypeStep
  <2>3. Len(data') \in Nat
    BY <2>2, BytesAreNumbers DEF TypeOK, ExtensionType, data
  <2>4. Len(<<>>) = 0 /\ 1 .. 0 = {} /\ 0 .. 0 - 1 = {}
    BY EmptySeq
  <2>5. End(0)' = 0
    BY DEF End
  <2>6. /\ pos' =< Len(data')
        /\ 1 .. Len(elements') = {}
        /\ End(Len(elements))' .. pos' - 1 = {}
    BY <2>1, <2>3, <2>4 DEF End
  <2> QED BY <2>1, <2>6 DEF Scanned
<1>6. CASE NothingToScan \/ StopAtReserved \/ StopAtTruncated \/ UNCHANGED vars
  <2>1. /\ data' = data /\ kind' = kind /\ heads' = heads /\ elements' = elements
        /\ pos' = pos
        /\ phase' = "building" => phase = "building"
        /\ phase' \in {"parsing", "done"} => phase \in {"parsing", "done"}
    <3>1. CASE NothingToScan \/ StopAtReserved \/ StopAtTruncated
      <4>1. /\ UNCHANGED <<format, asked, extension, pos, elements, heads>>
            /\ phase = "parsing" /\ phase' = "done"
        BY <3>1 DEF NothingToScan, StopAtReserved, StopAtTruncated, InData, Stop
      <4> QED BY <4>1 DEF data, kind
    <3>2. CASE UNCHANGED vars
      BY <3>2 DEF vars, data, kind
    <3> QED BY <1>6, <3>1, <3>2
  <2>2. /\ \A i : End(i)' = End(i)
        /\ \A at : ByteAt(at)' = ByteAt(at)
    BY <2>1 DEF End, ByteAt
  <2> QED BY Zenon, <2>1, <2>2 DEF Scanned
<1>7. CASE SkipPadding
  <2>1. /\ data' = data /\ kind' = kind /\ heads' = heads /\ elements' = elements
        /\ phase = "parsing" /\ phase' = "parsing"
        /\ pos < Len(data) /\ ByteAt(pos) = 0 /\ pos' = pos + 1
    BY <1>7 DEF SkipPadding, InData, data, kind
  <2>2. /\ \A i : End(i)' = End(i)
        /\ \A at : ByteAt(at)' = data[at + 1] /\ ByteAt(at) = data[at + 1]
    BY <2>1 DEF End, ByteAt
  <2>3. End(Len(elements)) \in Int
    BY <1>1, ElementFields DEF End, HeadSize
  <2>4. \A i \in 1 .. Len(elements) : End(i) \in Int
    BY <1>1, ElementFields DEF End, HeadSize
  <2>5. \A at \in End(Len(elements)) .. pos : at \in End(Len(elements)) .. pos - 1 \/ at = pos
    BY <1>1, <2>3
  <2>6. \A at \in End(Len(elements)) .. pos - 1 : ByteAt(at) = 0
    BY <2>1 DEF Scanned
  <2>7. \A at \in End(Len(elements)) .. pos : ByteAt(at) = 0
    BY <2>1, <2>5, <2>6
  <2>8. pos' =< Len(data) /\ pos' - 1 = pos
    BY <1>1, <2>1
  <2>9. ASSUME NEW i \in 1 .. Len(elements)
        PROVE  /\ LiesAt(kind, data, heads[i], elements[i])
               /\ End(i) =< pos'
               /\ \A at \in End(i - 1) .. heads[i] - 1 : ByteAt(at) = 0
    <3>1. End(i) =< pos /\ LiesAt(kind, data, heads[i], elements[i])
          /\ \A at \in End(i - 1) .. heads[i] - 1 : ByteAt(at) = 0
      BY <2>1 DEF Scanned
    <3>2. End(i) =< pos'
      BY <1>1, <2>1, <2>4, <3>1
    <3> QED BY <3>1, <3>2
  <2>10. \A i \in 1 .. Len(elements') :
           /\ LiesAt(kind', data', heads'[i], elements'[i])
           /\ End(i)' =< pos'
           /\ \A at \in End(i - 1)' .. heads'[i] - 1 : ByteAt(at)' = 0
    BY Zenon, <2>1, <2>2, <2>9
  <2>11. \A at \in End(Len(elements))' .. pos' - 1 : ByteAt(at)' = 0
    BY Zenon, <2>1, <2>2, <2>7, <2>8
  <2>12. pos' =< Len(data')
    BY <2>1, <2>8
  <2> QED BY <2>1, <2>10, <2>11, <2>12 DEF Scanned
<1>8. CASE ReadElement
  <2> DEFINE n == Len(elements)
  <2>1. PICK e \in ElementType :
          /\ kind \in {"one_byte", "two_byte"}
          /\ LiesAt(kind, data, pos, e)
          /\ elements' = Append(elements, e)
          /\ heads' = Append(heads, pos)
          /\ pos' = pos + HeadSize(kind) + Len(e.data)
          /\ pos' =< Len(data)
    BY <1>8, ReadsWhatLiesThere
  <2>2. /\ data' = data /\ kind' = kind
        /\ phase = "parsing" /\ phase' = "parsing"
    BY <1>8 DEF ReadElement, InData, data, kind
  <2>3. /\ Len(elements') = n + 1 /\ elements'[n + 1] = e
        /\ \A i \in 1 .. n : elements'[i] = elements[i]
        /\ heads'[n + 1] = pos
        /\ \A i \in 1 .. n : heads'[i] = heads[i]
    BY <1>1, <2>1, AppendProperties
  <2>4. \A i \in 0 .. n : End(i)' = End(i)
    <3> SUFFICES ASSUME NEW i \in 0 .. n
                 PROVE  End(i)' = End(i)
      OBVIOUS
    <3>1. CASE i = 0
      BY <3>1 DEF End
    <3>2. CASE i \in 1 .. n
      BY <2>2, <2>3, <3>2 DEF End
    <3> QED BY <3>1, <3>2
  <2>5. ASSUME NEW i, i = n + 1
        PROVE  End(i)' = pos'
    <3>1. i # 0 /\ heads'[i] = pos /\ elements'[i] = e
      BY <1>1, <2>3, <2>5
    <3> QED BY <2>1, <2>2, <3>1 DEF End
  <2>6. \A at : ByteAt(at)' = ByteAt(at)
    BY <2>2 DEF ByteAt
  <2>7. /\ \A i \in 1 .. n :
             /\ LiesAt(kind, data, heads[i], elements[i])
             /\ End(i) =< pos
             /\ \A at \in End(i - 1) .. heads[i] - 1 : ByteAt(at) = 0
        /\ \A at \in End(n) .. pos - 1 : ByteAt(at) = 0
    BY <2>2 DEF Scanned
  <2>8. pos' \in Nat /\ pos =< pos'
    <3>1. HeadSize(kind) \in Nat /\ Len(e.data) \in Nat
      BY ElementFields DEF HeadSize
    <3> QED BY <1>1, <2>1, <3>1
  <2>9. ASSUME NEW i \in 1 .. n + 1
        PROVE  /\ LiesAt(kind, data, heads'[i], elements'[i])
               /\ End(i)' =< pos'
               /\ \A at \in End(i - 1)' .. heads'[i] - 1 : ByteAt(at) = 0
    <3>1. CASE i \in 1 .. n
      <4>1. i \in 0 .. n /\ i - 1 \in 0 .. n
        BY <1>1, <3>1
      <4>2. End(i)' = End(i) /\ End(i - 1)' = End(i - 1)
        BY <2>4, <4>1
      <4>3. End(i) \in Int
        BY <1>1, <3>1, ElementFields DEF End, HeadSize
      <4>4. End(i) =< pos'
        BY <1>1, <2>7, <2>8, <3>1, <4>3
      <4> QED BY <2>3, <2>7, <3>1, <4>2, <4>4
    <3>2. CASE i = n + 1
      <4>1. i - 1 = n /\ n \in 0 .. n
        BY <1>1, <3>2
      <4>2. End(i - 1)' = End(n)
        BY <2>4, <4>1
      <4>3. pos' =< pos'
        BY <2>8
      <4>4. /\ heads'[i] = pos /\ elements'[i] = e
            /\ LiesAt(kind, data, heads'[i], elements'[i]) /\ End(i)' =< pos'
        BY <2>1, <2>3, <2>5, <3>2, <4>3
      <4>5. \A at \in End(i - 1)' .. heads'[i] - 1 : ByteAt(at) = 0
        BY Zenon, <2>7, <4>2, <4>4
      <4> QED BY <4>4, <4>5
    <3> QED BY <1>1, <3>1, <3>2
  <2>10. pos' .. pos' - 1 = {}
    <3>1. \A x \in Nat : x .. x - 1 = {}
      OBVIOUS
    <3> QED BY Zenon, <2>8, <3>1
  <2> HIDE DEF n
  <2>11. \A i \in 1 .. Len(elements') :
           /\ LiesAt(kind', data', heads'[i], elements'[i])
           /\ End(i)' =< pos'
           /\ \A at \in End(i - 1)' .. heads'[i] - 1 : ByteAt(at)' = 0
    BY Zenon, <2>2, <2>3, <2>6, <2>9
  <2>12. \A at \in End(Len(elements))' .. pos' - 1 : ByteAt(at)' = 0
    <3>1. End(Len(elements))' = pos'
      BY <2>3, <2>5
    <3> QED BY Zenon, <2>10, <3>1
  <2>13. pos' =< Len(data')
    BY <2>1, <2>2
  <2> QED BY <2>2, <2>11, <2>12, <2>13 DEF Scanned
<1> QED
  BY <1>2, <1>3, <1>4, <1>5, <1>6, <1>7, <1>8 DEF Next, Scan

LEMMA Bytes ==
  ASSUME NEW b, b \in 0 .. 255
  PROVE  b \in Nat /\ b % 16 \in Nat
OBVIOUS

LEMMA CutOffStep == TypeOK /\ CutOff /\ [Next]_vars => CutOff'
<1> SUFFICES ASSUME TypeOK, CutOff, [Next]_vars, phase' = "done", pos' < Len(data')
             PROVE  /\ kind' = "one_byte" =>
                         \/ ByteAt(pos)' \div 16 = 15
                         \/ Len(data') - pos' < 2 + (ByteAt(pos)' % 16)
                    /\ kind' = "two_byte" =>
                         \/ Len(data') - pos' = 1
                         \/ Len(data') - pos' < 2 + ByteAt(pos + 1)'
  BY DEF CutOff
<1>1. pos \in Nat /\ Len(data) \in Nat /\ \A i \in 1 .. Len(data) : data[i] \in 0 .. 255
  BY DataFacts DEF TypeOK
<1>2. CASE UNCHANGED vars
  BY <1>2 DEF vars, CutOff, data, kind, ByteAt
<1>3. CASE Stop /\ phase = "parsing" /\ (NothingToScan \/ StopAtReserved \/ StopAtTruncated)
  <2>1. /\ data' = data /\ kind' = kind /\ pos' = pos
        /\ ByteAt(pos)' = ByteAt(pos) /\ ByteAt(pos + 1)' = ByteAt(pos + 1)
        /\ pos < Len(data)
    BY <1>3 DEF Stop, data, kind, ByteAt
  <2>2. CASE NothingToScan
    BY <1>1, <2>1, <2>2 DEF NothingToScan
  <2>3. CASE StopAtReserved
    BY <2>1, <2>3 DEF StopAtReserved, Reserved, Id
  <2>4. CASE StopAtTruncated
    <3>1. ~Whole
      BY <2>4 DEF StopAtTruncated
    <3>2. ByteAt(pos) \in 0 .. 255
      BY <1>1, <2>1 DEF ByteAt
    <3>3. CASE kind = "one_byte"
      <4> DEFINE b == ByteAt(pos)
      <4>1. DataStart = pos + 1 /\ DataLength = (b % 16) + 1
        BY <3>3 DEF DataStart, DataLength
      <4> HIDE DEF b
      <4>2. b % 16 \in Nat
        BY Zenon, <3>2, Bytes DEF b
      <4>3. Len(data) - pos < 2 + (b % 16)
        BY <1>1, <2>1, <3>1, <4>1, <4>2 DEF Whole
      <4> QED BY <2>1, <3>3, <4>3 DEF b
    <3>4. CASE kind = "two_byte"
      <4>1. DataStart = pos + 2 /\ DataLength = ByteAt(pos + 1)
        BY <3>4 DEF DataStart, DataLength
      <4>2. CASE pos + 2 > Len(data)
        BY <1>1, <2>1, <3>4, <4>2
      <4>3. CASE pos + 2 =< Len(data)
        <5>1. ByteAt(pos + 1) \in 0 .. 255
          BY <1>1, <4>3 DEF ByteAt
        <5> DEFINE b == ByteAt(pos + 1)
        <5>2. b \in Nat
          BY Zenon, <5>1, Bytes
        <5> HIDE DEF b
        <5>3. ~(pos + 2 + b =< Len(data))
          BY <3>1, <4>1, <4>3 DEF Whole, b
        <5>4. Len(data) - pos < 2 + b
          BY <1>1, <5>2, <5>3
        <5> QED BY <2>1, <3>4, <5>4 DEF b
      <4> QED BY <1>1, <4>2, <4>3
    <3> QED BY <2>1, <3>3, <3>4
  <2> QED BY <1>3, <2>2, <2>3, <2>4
<1> QED
  BY <1>2, <1>3
  DEF Next, Scan, BuildElement, BuildError, UnknownProfile, Refuse, CloseExtension,
      ForeignExtension, NothingToScan, StopAtReserved, StopAtTruncated, SkipPadding,
      ReadElement, InData, Stop

LEMMA BuiltStep == TypeOK /\ Scanned /\ Built /\ [Next]_vars => Built'
<1> SUFFICES ASSUME TypeOK, Scanned, Built, [Next]_vars,
                    format' # "unknown", phase' # "refused"
             PROVE  /\ extension'.profile = ProfileValue(format')
                    /\ \E at \in Seq(Nat) :
                         /\ Len(at) = Len(asked') + 1
                         /\ LaidOut(format', asked', data', at)
                         /\ Padded(data, at[Len(asked) + 1])'
                         /\ Progress(at)'
  BY DEF Built
<1>1. format' = format /\ format # "unknown" /\ phase # "refused"
  BY DEF Next, Scan, BuildElement, BuildError, UnknownProfile, Refuse, CloseExtension,
         ForeignExtension, NothingToScan, StopAtReserved, StopAtTruncated, SkipPadding,
         ReadElement, InData, Stop, vars
<1>2. PICK at \in Seq(Nat) :
        /\ Len(at) = Len(asked) + 1
        /\ LaidOut(format, asked, data, at)
        /\ Padded(data, at[Len(asked) + 1])
        /\ Progress(at)
  BY <1>1 DEF Built
<1>3. /\ format \in {"one_byte", "two_byte"} /\ kind = format
      /\ extension.profile = ProfileValue(format)
  BY <1>1, KnownFormat DEF Built
<1> DEFINE n == Len(asked)
           m == Len(elements)
           last == at[n + 1]
<1>4. /\ data \in Seq(Byte) /\ Len(data) \in Nat /\ n \in Nat /\ m \in Nat /\ pos \in Nat
      /\ asked \in Seq(ElementType) /\ elements \in Seq(ElementType)
      /\ at[1] = 0
      /\ \A i \in 1 .. n + 1 : at[i] \in Nat
      /\ \A i \in 1 .. n : asked[i] \in ElementType
      /\ last \in Nat /\ last =< Len(data)
  <2>1. /\ data \in Seq(Byte) /\ Len(data) \in Nat /\ n \in Nat /\ m \in Nat /\ pos \in Nat
        /\ asked \in Seq(ElementType) /\ elements \in Seq(ElementType)
    BY DataFacts DEF TypeOK
  <2>2. /\ \A i \in 1 .. n + 1 : at[i] \in Nat
        /\ \A i \in 1 .. n : asked[i] \in ElementType
    BY <1>2, <2>1, ElementOfSeq
  <2>3. n + 1 \in 1 .. n + 1
    BY <2>1
  <2> QED BY <1>2, <2>1, <2>2, <2>3 DEF LaidOut, Padded
<1>5. extension'.profile = ProfileValue(format')
  <2>1. \/ extension' = extension
        \/ \E bytes : extension' = [extension EXCEPT !.data = bytes]
    BY <1>1
    DEF Next, Scan, BuildElement, BuildError, UnknownProfile, Refuse, CloseExtension,
        ForeignExtension, NothingToScan, StopAtReserved, StopAtTruncated, SkipPadding,
        ReadElement, Stop, vars
  <2>2. \A bytes : [extension EXCEPT !.data = bytes].profile = extension.profile
    BY DEF TypeOK, ExtensionType
  <2> QED BY Zenon, <1>1, <1>3, <2>1, <2>2
<1>6. ASSUME NEW e \in Element, BuildElement(e)
      PROVE  \E more \in Seq(Nat) :
               /\ Len(more) = Len(asked') + 1
               /\ LaidOut(format', asked', data', more)
               /\ Padded(data, more[Len(asked) + 1])'
               /\ Progress(more)'
  <2> DEFINE head == ElementHead(format, e)
             all == data \o (head \o e.data)
  <2>1. /\ e \in ElementType /\ e.data \in Seq(Byte)
        /\ Serializable(format, e) /\ head \in Seq(Byte)
    <3>1. e \in ElementType
      BY ExtensionElementsAssumption DEF ElementType
    <3> QED BY <1>1, <1>6, <3>1, ElementFields, FitsIsSerializable DEF BuildElement
  <2>2. /\ phase = "building" /\ phase' = "building"
        /\ elements' = <<>> /\ pos' = 0 /\ last = Len(data)
        /\ asked' = Append(asked, e)
    BY <1>2, <1>6 DEF BuildElement, Scanned, Padded
  <2>3. data' = all
    <3>1. (data \o head) \o e.data = all
      BY Zenon, <1>4, <2>1, BytesAssociative
    <3>2. extension' = [extension EXCEPT !.data = (data \o head) \o e.data]
      BY <1>6 DEF BuildElement, data
    <3>3. \A bytes : [extension EXCEPT !.data = bytes].data = bytes
      BY DEF TypeOK, ExtensionType
    <3> QED BY Zenon, <3>1, <3>2, <3>3 DEF data
  <2>4. PICK more \in Seq(Nat) :
          /\ Len(more) = n + 2
          /\ more[n + 2] = Len(all)
          /\ more[1] = 0
          /\ LaidOut(format, Append(asked, e), all, more)
    <3> DEFINE next == Append(at, Len(all))
    <3>1. /\ next \in Seq(Nat)
          /\ Len(next) = Len(at) + 1
          /\ next[Len(at) + 1] = Len(all)
          /\ \A i \in 1 .. Len(at) : next[i] = at[i]
          /\ LaidOut(format, Append(asked, e), all, next)
      BY <1>2, <1>3, <1>4, <2>1, <2>2, LayoutAfterElement
    <3>2. 1 \in 1 .. Len(at) /\ Len(at) + 1 = n + 2
      BY <1>2, <1>4
    <3> QED BY Zenon, <1>4, <3>1, <3>2
  <2>5. Len(asked') = n + 1 /\ Len(all) \in Nat
    <3>1. all \in Seq(Byte)
      BY <1>3, <1>4, <2>1, LiesAtEnd
    <3> QED BY <1>4, <2>2, <3>1, AppendProperties, LenProperties
  <2> HIDE DEF all
  <2>6. Padded(data, more[Len(asked) + 1])'
    <3>1. \A x \in Nat : x + 1 .. x = {} /\ x =< x
      OBVIOUS
    <3>2. more[Len(asked') + 1] = Len(data')
      <4>1. n + 1 + 1 = n + 2
        BY <1>4
      <4> QED BY Zenon, <2>3, <2>4, <2>5, <4>1
    <3>3. /\ Len(data') =< Len(data')
          /\ Len(data') + 1 .. Len(data') = {}
      BY Zenon, <2>3, <2>5, <3>1
    <3>4. \A i \in more[Len(asked') + 1] + 1 .. Len(data') : data'[i] = 0
      BY Zenon, <3>2, <3>3
    <3> QED BY Zenon, <2>2, <3>2, <3>3, <3>4 DEF Padded
  <2>7. Progress(more)'
    <3>1. Len(elements') = 0 /\ 0 + 1 = 1 /\ 1 .. 0 = {} /\ 0 =< n + 1 /\ 0 # n + 1
      BY <1>4, <2>2
    <3>2. /\ Len(elements') =< Len(asked')
          /\ \A i \in 1 .. Len(elements') : elements'[i] = asked'[i]
          /\ pos' = more[Len(elements') + 1]
          /\ Len(elements') # Len(asked') /\ phase' # "done"
      BY Zenon, <2>2, <2>4, <2>5, <3>1
    <3> QED BY <3>2 DEF Progress
  <2>8. Len(more) = Len(asked') + 1
    BY <1>4, <2>4, <2>5
  <2>9. LaidOut(format', asked', data', more)
    BY Zenon, <1>1, <2>2, <2>3, <2>4
  <2> QED BY Zenon, <2>4, <2>6, <2>7, <2>8, <2>9
<1>7. CASE CloseExtension
  <2> DEFINE padding == [i \in 1 .. (-Len(data)) % 4 |-> 0]
             more == (-Len(data)) % 4
             all == data \o padding
  <2>1. more \in 0 .. 3 /\ (Len(data) + more) % 4 = 0
    BY <1>4, PaddingToWords
  <2>2. padding \in Seq(Byte) /\ Len(padding) = more /\ \A i \in 1 .. more : padding[i] = 0
    BY <2>1 DEF Byte
  <2>3. /\ phase = "building" /\ phase' = "parsing" /\ asked' = asked
        /\ elements' = <<>> /\ pos' = 0 /\ last = Len(data)
    BY <1>2, <1>7 DEF CloseExtension, Scanned, Padded
  <2> HIDE DEF padding, more
  <2>4. /\ all \in Seq(Byte) /\ Len(all) = Len(data) + more
        /\ \A i \in 1 .. more : all[Len(data) + i] = 0
    <3>1. /\ all \in Seq(Byte) /\ Len(all) = Len(data) + Len(padding)
          /\ \A i \in 1 .. Len(padding) : all[Len(data) + i] = padding[i]
      BY Zenon, <1>4, <2>2, ConcatenationOfBytes
    <3> QED BY Zenon, <2>2, <3>1
  <2>5. data' = all
    <3>1. extension' = [extension EXCEPT !.data = data \o padding]
      BY <1>7 DEF CloseExtension, data, padding
    <3>2. \A bytes : [extension EXCEPT !.data = bytes].data = bytes
      BY DEF TypeOK, ExtensionType
    <3> QED BY Zenon, <3>1, <3>2 DEF data
  <2>6. LaidOut(format, asked, all, at)
    BY <1>2, <1>3, <1>4, <2>2, LayoutAfterPadding
  <2> HIDE DEF all
  <2>7. Padded(data, at[Len(asked) + 1])'
    <3>1. ASSUME NEW i \in last + 1 .. Len(all)
          PROVE  all[i] = 0
      <4>1. /\ i - Len(data) \in 1 .. more
            /\ Len(data) + (i - Len(data)) = i
        <5> HIDE DEF last
        <5> QED BY <1>4, <2>1, <2>3, <2>4
      <4> QED BY <2>4, <4>1
    <3>2. last =< Len(all) /\ Len(all) % 4 = 0
      <4> HIDE DEF last
      <4> QED BY <1>4, <2>1, <2>3, <2>4
    <3>3. /\ last =< Len(data') /\ Len(data') % 4 = 0
          /\ \A i \in last + 1 .. Len(data') : data'[i] = 0
      BY Zenon, <2>5, <3>1, <3>2
    <3>4. at[Len(asked') + 1] = last
      BY <2>3
    <3> HIDE DEF last
    <3> QED BY <2>3, <3>3, <3>4 DEF Padded
  <2>8. Progress(at)'
    <3>1. Len(elements') = 0 /\ 0 + 1 = 1 /\ 1 .. 0 = {} /\ 0 =< n /\ (n = 0 => n + 1 = 1)
          /\ 0 >= 0
      BY <1>4, <2>3
    <3> QED BY <1>4, <2>3, <3>1 DEF Progress
  <2> QED BY <1>1, <1>2, <1>5, <2>3, <2>5, <2>6, <2>7, <2>8
<1>8. CASE Scan
  <2>1. /\ data' = data /\ kind' = kind /\ format' = format /\ asked' = asked
        /\ phase = "parsing" /\ phase' \in {"parsing", "done"}
    <3>1. phase = "parsing" /\ phase' \in {"parsing", "done"}
      BY <1>8 DEF Scan, NothingToScan, SkipPadding, StopAtReserved, StopAtTruncated,
                  ReadElement, InData, Stop
    <3> QED BY <1>8, <3>1, ScanLeavesData
  <2>2. /\ m =< n
        /\ \A i \in 1 .. m : elements[i] = asked[i]
        /\ m < n => pos = at[m + 1]
        /\ m = n => pos >= last
    BY <1>2, <2>1 DEF Progress
  <2>3. ASSUME m < n
        PROVE  /\ asked[m + 1] \in ElementType
               /\ Serializable(format, asked[m + 1])
               /\ LiesAt(format, data, pos, asked[m + 1])
               /\ at[m + 2] = pos + HeadSize(format) + Len(asked[m + 1].data)
               /\ pos < Len(data) /\ ByteAt(pos) # 0 /\ ~Reserved /\ Whole
    <3>1. m + 1 \in 1 .. n /\ (m + 1) + 1 = m + 2
      BY <1>4, <2>3
    <3>2. /\ asked[m + 1] \in ElementType
          /\ Serializable(format, asked[m + 1])
          /\ LiesAt(format, data, pos, asked[m + 1])
          /\ at[m + 2] = pos + HeadSize(format) + Len(asked[m + 1].data)
      BY <1>2, <1>4, <2>2, <2>3, <3>1 DEF LaidOut
    <3> QED BY <1>3, <3>2, NextElement
  <2>4. Padded(data, at[Len(asked) + 1])'
    BY <1>2, <2>1 DEF Padded
  <2>5. CASE NothingToScan \/ StopAtReserved \/ StopAtTruncated
    <3>1. elements' = elements /\ pos' = pos
      BY <2>5 DEF NothingToScan, StopAtReserved, StopAtTruncated, Stop
    <3>2. ~(m < n)
      BY <1>3, <1>4, <2>3, <2>5 DEF NothingToScan, StopAtReserved, StopAtTruncated
    <3>3. m = n
      BY <1>4, <2>2, <3>2
    <3>4. Progress(at)'
      BY <2>1, <2>2, <3>1, <3>3 DEF Progress
    <3> QED BY <1>1, <1>2, <1>5, <2>1, <2>4, <3>4
  <2>6. CASE SkipPadding
    <3>1. elements' = elements /\ pos' = pos + 1 /\ ByteAt(pos) = 0 /\ phase' = phase
      BY <2>6 DEF SkipPadding
    <3>2. ~(m < n)
      BY <2>3, <3>1
    <3>3. m = n /\ pos + 1 >= last
      <4> HIDE DEF m, n, last
      <4> QED BY <1>4, <2>2, <3>2
    <3>4. Progress(at)'
      BY <2>1, <2>2, <3>1, <3>3 DEF Progress
    <3> QED BY <1>1, <1>2, <1>5, <2>1, <2>4, <3>4
  <2>7. CASE ReadElement
    <3>1. PICK e \in ElementType :
            /\ LiesAt(kind, data, pos, e)
            /\ kind = "one_byte" => Len(e.data) \in 1 .. 16
            /\ elements' = Append(elements, e)
            /\ pos' = pos + HeadSize(kind) + Len(e.data)
      BY <2>7, ReadsWhatLiesThere
    <3>2. ByteAt(pos) # 0 /\ pos < Len(data) /\ phase' = phase
      BY <2>7 DEF ReadElement, InData
    <3>3. m < n
      <4>1. CASE m = n
        <5>1. data[pos + 1] # 0
          BY <3>2 DEF ByteAt
        <5>2. pos + 1 \in last + 1 .. Len(data)
          <6> HIDE DEF m, n, last
          <6> QED BY <1>4, <2>2, <3>2, <4>1
        <5> QED BY <1>2, <5>1, <5>2 DEF Padded
      <4> QED BY <1>4, <2>2, <4>1
    <3>4. e = asked[m + 1]
      <4>1. format = "one_byte" => Len(asked[m + 1].data) \in 1 .. 16
        BY <2>3, <3>3 DEF Serializable
      <4> QED BY <1>3, <1>4, <2>3, <3>1, <3>3, <4>1, LiesAtOnce
    <3>5. /\ Len(elements') = m + 1
          /\ \A i \in 1 .. m : elements'[i] = elements[i]
          /\ elements'[m + 1] = asked[m + 1]
      BY <1>4, <3>1, <3>4, AppendProperties
    <3>6. pos' = at[m + 2]
      BY <1>3, <2>3, <3>1, <3>3, <3>4
    <3>7. ASSUME NEW i \in 1 .. m + 1
          PROVE  elements'[i] = asked[i]
      <4>1. i \in 1 .. m \/ i = m + 1
        BY <1>4
      <4> QED BY <2>2, <3>5, <4>1
    <3>8. /\ m + 1 =< n /\ (m + 1) + 1 = m + 2
          /\ m + 1 = n => n + 1 = m + 2
          /\ pos' \in Nat
      <4>1. m + 2 \in 1 .. n + 1
        BY <1>4, <3>3
      <4> QED BY <1>4, <3>3, <3>6, <4>1
    <3>9. pos' >= pos'
      BY <3>8
    <3> HIDE DEF m, n
    <3>10. /\ Len(elements') =< n
           /\ \A i \in 1 .. Len(elements') : elements'[i] = asked[i]
           /\ pos' = at[Len(elements') + 1]
           /\ Len(elements') = n => pos' >= at[n + 1]
      BY Zenon, <3>5, <3>6, <3>7, <3>8, <3>9
    <3>11. Progress(at)'
      BY <2>1, <3>2, <3>10 DEF Progress, n
    <3> QED BY <1>1, <1>2, <1>5, <2>1, <2>4, <3>11
  <2> QED BY <1>8, <2>5, <2>6, <2>7 DEF Scan
<1>9. CASE UNCHANGED vars
  <2>1. /\ data' = data /\ asked' = asked /\ elements' = elements /\ pos' = pos
        /\ phase' = phase
    BY <1>9 DEF vars, data
  <2>2. Padded(data, at[Len(asked) + 1])' /\ Progress(at)'
    BY <1>2, <2>1 DEF Padded, Progress
  <2> QED BY <1>1, <1>2, <1>5, <2>1, <2>2
<1> QED
  BY <1>5, <1>6, <1>7, <1>8, <1>9
  DEF Next, BuildError, UnknownProfile, Refuse, ForeignExtension

----------------------------------------------------------------------------
LEMMA IInvInit == Init => IInv
<1> SUFFICES ASSUME Init
             PROVE  IInv
  OBVIOUS
<1>1. /\ asked = <<>> /\ elements = <<>> /\ heads = <<>> /\ pos = 0 /\ phase = "building"
      /\ data = <<>> /\ extension.profile = ProfileValue(format)
      /\ Len(<<>>) = 0 /\ <<>> \in Seq(Byte)
  BY DEF Init, data
<1>2. TypeOK
  <2>1. format \in {"one_byte", "two_byte", "unknown"}
    BY ExtensionElementsAssumption DEF Init
  <2>2. ProfileValue(format) \in Word
    BY DEF ProfileValue, OneByteMagic, TwoByteValue, Word
  <2>3. extension \in ExtensionType
    BY Zenon, <1>1, <2>2 DEF Init, ExtensionType
  <2>4. <<>> \in Seq(ElementType) /\ <<>> \in Seq(Nat)
    OBVIOUS
  <2> QED BY <1>1, <2>1, <2>3, <2>4 DEF TypeOK
<1>3. Scanned /\ CutOff
  BY <1>1 DEF Scanned, CutOff
<1>4. Built
  <2> DEFINE at == <<0>>
  <2>1. at \in Seq(Nat) /\ Len(at) = 1 /\ at[1] = 0
    OBVIOUS
  <2>2. 0 + 1 = 1 /\ 1 .. 0 = {} /\ 0 =< 0
    OBVIOUS
  <2> HIDE DEF at
  <2>3. LaidOut(format, asked, data, at)
    BY Zenon, <1>1, <2>1, <2>2 DEF LaidOut
  <2>4. Padded(data, at[Len(asked) + 1])
    BY Zenon, <1>1, <2>1, <2>2 DEF Padded
  <2>5. Progress(at)
    BY <1>1, <2>1, <2>2 DEF Progress
  <2>6. Len(at) = Len(asked) + 1
    BY Zenon, <1>1, <2>1, <2>2
  <2> QED BY Zenon, <1>1, <2>1, <2>3, <2>4, <2>5, <2>6 DEF Built
<1> QED BY <1>2, <1>3, <1>4 DEF IInv

LEMMA IInvStep == IInv /\ [Next]_vars => IInv'
BY TypeStep, ScannedStep, CutOffStep, BuiltStep DEF IInv

(* At every point the extension holds the elements that were asked for, one  *)
(* after the other, and the parser has read a prefix of them; and whoever    *)
(* made the extension, what was read lies where the parser has been.         *)
THEOREM IInvInvariant == Spec => []IInv
<1>1. Init => IInv
  BY IInvInit
<1>2. IInv /\ [Next]_vars => IInv'
  BY IInvStep
<1> QED BY <1>1, <1>2, PTL DEF Spec

(* The variables keep their types: above all the bytes of the extension stay *)
(* bytes, whatever elements are serialized.                                  *)
THEOREM TypeInvariant == Spec => []TypeOK
<1>1. IInv => TypeOK
  BY DEF IInv
<1> QED BY <1>1, IInvInvariant, PTL

(* build_header_extension and parse_extension_elements are inverse: a scan   *)
(* of an extension built here ends with the elements that were asked for,    *)
(* and its body is of whole words.                                           *)
THEOREM RoundTrip == Spec => []ElementsComeBack
<1>1. ASSUME IInv, phase = "done", format # "unknown"
      PROVE  Len(data) % 4 = 0 /\ elements = asked
  <2>1. PICK at \in Seq(Nat) : Padded(data, at[Len(asked) + 1]) /\ Progress(at)
    BY <1>1 DEF IInv, Built
  <2>2. Len(data) % 4 = 0
    BY <1>1, <2>1 DEF Padded
  <2>3. /\ Len(elements) = Len(asked)
        /\ \A i \in 1 .. Len(elements) : elements[i] = asked[i]
    BY <1>1, <2>1 DEF Progress
  <2>4. asked \in Seq(ElementType) /\ elements \in Seq(ElementType)
    BY <1>1 DEF IInv, TypeOK
  <2>5. elements = asked
    BY <2>3, <2>4, SeqEqual
  <2> QED BY <2>2, <2>5
<1>2. IInv => ElementsComeBack
  BY <1>1 DEF ElementsComeBack
<1> QED BY <1>2, IInvInvariant, PTL

(* Of an unknown profile nothing is read, but the layout is the same.        *)
LEMMA LiesAtSliceOfAny ==
  ASSUME NEW k, NEW bytes \in Seq(Byte), NEW at \in Nat, NEW e \in ElementType,
         LiesAt(k, bytes, at, e)
  PROVE  SubSeq(bytes, at + 1, at + HeadSize(k) + Len(e.data))
           = ElementHead(k, e) \o e.data
<1>1. CASE k = "one_byte"
  BY <1>1, LiesAtSlice
<1>2. CASE k # "one_byte"
  <2>1. /\ HeadSize(k) = HeadSize("two_byte")
        /\ ElementHead(k, e) = ElementHead("two_byte", e)
    BY <1>2 DEF HeadSize, ElementHead
  <2>2. LiesAt("two_byte", bytes, at, e)
    BY <1>2, <2>1 DEF LiesAt
  <2> QED BY <2>1, <2>2, LiesAtSlice
<1> QED BY <1>1, <1>2

(* Whoever made the extension: the elements that are read tile it, only      *)
(* padding lies between them, and only a reserved identifier or an element   *)
(* that is cut off ends the scan before the end.                             *)
THEOREM ScanTiles == Spec => []ElementsTile
<1>1. ASSUME IInv
      PROVE  ElementsTile
  <2> DEFINE starts == Append(heads, pos)
             head(i) == IF kind = "one_byte" THEN 1 ELSE 2
             end(i) == heads[i] + head(i) + Len(elements[i].data)
             before(i) == IF i = 1 THEN 0 ELSE end(i - 1)
             left == SubSeq(data, pos + 1, Len(data))
             n == Len(elements)
  <2> SUFFICES ASSUME phase \in {"parsing", "done"}
               PROVE  /\ \A i \in DOMAIN elements :
                           SubSeq(data, heads[i] + 1, end(i))
                             = ElementHead(kind, elements[i]) \o elements[i].data
                      /\ \A i \in DOMAIN starts :
                           \A at \in before(i) .. starts[i] - 1 : ByteAt(at) = 0
                      /\ phase = "done" /\ kind = "one_byte" /\ left # <<>> =>
                           left[1] \div 16 = 15 \/ Len(left) < 2 + (left[1] % 16)
                      /\ phase = "done" /\ kind = "two_byte" /\ left # <<>> =>
                           Len(left) = 1 \/ Len(left) < 2 + left[2]
    BY DEF ElementsTile
  <2>1. /\ data \in Seq(Byte) /\ Len(data) \in Nat /\ n \in Nat /\ pos \in Nat
        /\ elements \in Seq(ElementType) /\ heads \in Seq(Nat) /\ Len(heads) = n
        /\ \A i \in 1 .. n : elements[i] \in ElementType /\ heads[i] \in Nat
    BY <1>1, DataFacts, ElementOfSeq DEF IInv, TypeOK
  <2>2. /\ pos =< Len(data)
        /\ \A i \in 1 .. n :
             /\ LiesAt(kind, data, heads[i], elements[i])
             /\ \A at \in End(i - 1) .. heads[i] - 1 : ByteAt(at) = 0
        /\ \A at \in End(n) .. pos - 1 : ByteAt(at) = 0
    BY <1>1 DEF IInv, Scanned
  <2>3. /\ DOMAIN elements = 1 .. n
        /\ DOMAIN starts = 1 .. n + 1
        /\ \A i \in 1 .. n : starts[i] = heads[i]
        /\ starts[n + 1] = pos
    <3>1. /\ starts \in Seq(Nat) /\ Len(starts) = n + 1
          /\ \A i \in 1 .. n : starts[i] = heads[i]
          /\ starts[n + 1] = pos
      BY <2>1, AppendProperties
    <3> HIDE DEF starts
    <3> QED BY <2>1, <3>1, LenProperties
  <2>4. ASSUME NEW i \in 1 .. n
        PROVE  SubSeq(data, heads[i] + 1, end(i))
                 = ElementHead(kind, elements[i]) \o elements[i].data
    <3>1. end(i) = heads[i] + HeadSize(kind) + Len(elements[i].data)
      BY DEF HeadSize
    <3>2. heads[i] \in Nat /\ elements[i] \in ElementType
          /\ LiesAt(kind, data, heads[i], elements[i])
      BY <2>1, <2>2
    <3> HIDE DEF end
    <3> QED BY <2>1, <3>1, <3>2, LiesAtSliceOfAny, ZenonT(40)
  <2>5. ASSUME NEW i \in 1 .. n + 1, NEW at \in before(i) .. starts[i] - 1
        PROVE  ByteAt(at) = 0
    <3>1. before(i) = End(i - 1)
      <4>1. CASE i = 1
        BY <4>1 DEF End
      <4>2. CASE i # 1
        <5>1. i - 1 # 0
          BY <2>1, <4>2
        <5> QED BY <4>2, <5>1 DEF End, HeadSize
      <4> QED BY <4>1, <4>2
    <3> HIDE DEF before, starts
    <3>2. at \in End(i - 1) .. starts[i] - 1
      BY Zenon, <3>1
    <3>3. CASE i \in 1 .. n
      BY <2>2, <2>3, <3>2, <3>3
    <3>4. CASE i = n + 1
      <4>1. i - 1 = n
        BY <2>1, <3>4
      <4>2. at \in End(n) .. pos - 1
        BY Zenon, <2>3, <3>2, <3>4, <4>1
      <4> QED BY <2>2, <4>2
    <3> QED BY <2>1, <3>3, <3>4
  <2>6. ASSUME left # <<>>
        PROVE  /\ pos < Len(data) /\ Len(left) = Len(data) - pos
               /\ left[1] = ByteAt(pos)
               /\ Len(left) > 1 => left[2] = ByteAt(pos + 1)
    <3>1. \A i \in pos + 1 .. Len(data) : data[i] \in Byte
      <4>1. \A i \in pos + 1 .. Len(data) : i \in 1 .. Len(data)
        BY <2>1
      <4> QED BY <2>1, <4>1, ElementOfSeq
    <3> DEFINE d == Len(data)
               l == IF pos + 1 =< d THEN d - (pos + 1) + 1 ELSE 0
    <3>2. /\ left \in Seq(Byte)
          /\ Len(left) = l
          /\ \A i \in 1 .. l : left[i] = data[pos + 1 + i - 1]
      BY <2>1, <3>1, SubSeqProperties
    <3> HIDE DEF left
    <3>3. Len(left) \in Nat \ {0}
      BY <2>6, <3>2, EmptySeq
    <3>4. pos < d /\ l = d - pos
      <4> HIDE DEF d
      <4> QED BY <2>1, <3>2, <3>3 DEF d
    <3>5. /\ pos + 1 + 1 - 1 = pos + 1 /\ pos + 1 + 2 - 1 = (pos + 1) + 1
          /\ 1 \in 1 .. l /\ (l > 1 => 2 \in 1 .. l)
      BY <2>1, <3>4
    <3> HIDE DEF d, l
    <3>6. left[1] = data[pos + 1] /\ (l > 1 => left[2] = data[(pos + 1) + 1])
      BY Zenon, <3>2, <3>5
    <3> QED BY <3>2, <3>4, <3>6 DEF ByteAt, d
  <2>7. phase = "done" /\ kind = "one_byte" /\ left # <<>> =>
          left[1] \div 16 = 15 \/ Len(left) < 2 + (left[1] % 16)
    <3> HIDE DEF left
    <3> QED BY Zenon, <1>1, <2>6 DEF IInv, CutOff
  <2>8. ASSUME phase = "done", kind = "two_byte", left # <<>>
        PROVE  Len(left) = 1 \/ Len(left) < 2 + left[2]
    <3> HIDE DEF left
    <3>1. Len(left) = 1 \/ Len(left) < 2 + ByteAt(pos + 1)
      BY Zenon, <1>1, <2>6, <2>8 DEF IInv, CutOff
    <3>2. Len(left) = 1 \/ Len(left) > 1
      <4>1. \A d, p \in Nat : p < d => d - p = 1 \/ d - p > 1
        OBVIOUS
      <4>2. pos < Len(data) /\ Len(left) = Len(data) - pos
        BY Zenon, <2>6, <2>8
      <4> QED BY Zenon, <2>1, <4>1, <4>2
    <3> QED BY Zenon, <2>6, <2>8, <3>1, <3>2
  <2> HIDE DEF starts, end, before, left, n
  <2> QED BY Zenon, <2>3, <2>4, <2>5, <2>7, <2>8
<1>2. IInv => ElementsTile
  BY <1>1
<1> QED BY <1>2, IInvInvariant, PTL

(* Each turn of the parser's loop ends it or comes closer to the end of the  *)
(* data: with the fairness of Spec, this is why every scan ends.             *)
TurnsForward ==
  [][phase = "parsing" =>
       /\ extension' = extension
       /\ \/ phase' = "done"
          \/ phase' = "parsing" /\ pos' > pos /\ pos' =< Len(data)]_vars

(* No turn leaves the parser where it was.                                   *)
THEOREM ScanAdvances == Spec => TurnsForward
<1>1. ASSUME IInv, Next, phase = "parsing"
      PROVE  /\ extension' = extension
             /\ \/ phase' = "done"
                \/ phase' = "parsing" /\ pos' > pos /\ pos' =< Len(data)
  <2>1. pos \in Nat /\ Len(data) \in Nat
    BY <1>1, DataFacts DEF IInv, TypeOK
  <2>2. Scan
    BY <1>1 DEF Next, BuildElement, BuildError, UnknownProfile, CloseExtension,
                ForeignExtension
  <2>3. extension' = extension
    BY <2>2, ScanLeavesData
  <2>4. CASE NothingToScan \/ StopAtReserved \/ StopAtTruncated
    BY <2>3, <2>4 DEF NothingToScan, StopAtReserved, StopAtTruncated, Stop
  <2>5. CASE SkipPadding
    <3>1. phase' = phase /\ pos' = pos + 1 /\ pos < Len(data)
      BY <2>5 DEF SkipPadding, InData
    <3> QED BY <1>1, <2>1, <2>3, <3>1
  <2>6. CASE ReadElement
    <3>1. PICK e \in ElementType : /\ kind \in {"one_byte", "two_byte"}
                                  /\ pos' = pos + HeadSize(kind) + Len(e.data)
                                  /\ pos' =< Len(data)
      BY <1>1, <2>6, ReadsWhatLiesThere DEF IInv
    <3>2. HeadSize(kind) \in 1 .. 2 /\ Len(e.data) \in Nat
      BY ElementFields DEF HeadSize
    <3>3. phase' = phase /\ pos' > pos
      BY <2>1, <2>6, <3>1, <3>2 DEF ReadElement
    <3> QED BY <1>1, <2>3, <3>1, <3>3
  <2> QED BY <2>2, <2>4, <2>5, <2>6 DEF Scan
<1>2. IInv /\ [Next]_vars =>
        [phase = "parsing" =>
           /\ extension' = extension
           /\ \/ phase' = "done"
              \/ phase' = "parsing" /\ pos' > pos /\ pos' =< Len(data)]_vars
  BY <1>1
<1> QED BY <1>2, IInvInvariant, PTL DEF Spec, TurnsForward

=============================================================================
