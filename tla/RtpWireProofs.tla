--------------------------- MODULE RtpWireProofs ---------------------------
(* What RtpWire's run shows for a few requests and short datagrams, for all  *)
(* of them.  The parser's own properties hold of any datagram whatever; the  *)
(* others rest on what is on the wire being the packet that was built, or    *)
(* the beginning of it.                                                      *)
EXTENDS RtpWire, TLAPS

(* What is left of a packet is described by the builder it came from.        *)
FromBuilder(b, d) ==
  /\ Valid(b)
  /\ d.length \in 0 .. Length(b)
  /\ d.version = b.version
  /\ d.padding = (b.padding > 0)
  /\ d.extension = b.has_ext
  /\ d.cc = b.csrc
  /\ d.ext_words = ExtWords(b)
  /\ d.length = Length(b) /\ b.padding > 0 => d.last = b.padding

IInv == TypeOK /\ (sent # None => FromBuilder(sent, wire))

----------------------------------------------------------------------------
(* A number of bytes that is a number of words.                              *)
LEMMA WholeWords ==
  ASSUME NEW n \in Nat, n % 4 = 0
  PROVE  n \div 4 \in Nat /\ n = 4 * (n \div 4)
OBVIOUS

LEMMA Limits == U8 = 255 /\ U16 \in Nat /\ Byte = 0 .. U8 /\ Byte = 0 .. 255
<1>1. U16 \in Nat
  BY DEF U16, U8
<1> QED BY <1>1 DEF Byte, U8

LEMMA WordRange ==
  ASSUME NEW n \in 0 .. U16
  PROVE  n \in Nat /\ n =< U16
<1>1. \A k \in Nat : \A i \in 0 .. k : i \in Nat /\ i =< k
  OBVIOUS
<1>2. U16 \in Nat
  BY Limits
<1> QED BY <1>1, <1>2, Zenon

(* Both halves of a 16-bit number are bytes.                                 *)
LEMMA HalvesOfNumbers ==
  \A n \in Nat : n =< U16 => n % 256 \in Byte /\ n \div 256 \in Byte
BY DEF Byte, U8, U16

LEMMA Halves ==
  ASSUME NEW n \in 0 .. U16
  PROVE  n % 256 \in Byte /\ n \div 256 \in Byte
BY WordRange, HalvesOfNumbers, Zenon

LEMMA ValidFields ==
  ASSUME NEW b \in BuilderType, Valid(b)
  PROVE  /\ b.version \in 0 .. 3
         /\ b.csrc \in 0 .. 15
         /\ b.payload \in Nat
         /\ b.padding \in Byte
         /\ b.ext \in Nat
         /\ b.has_ext \in BOOLEAN
<1>1. b.padding \in Byte
  BY Limits DEF BuilderType, Valid
<1> QED BY <1>1 DEF BuilderType, Valid

(* The extension of a valid builder is made of words, as many as fit in the  *)
(* length field.                                                             *)
LEMMA ValidExtension ==
  ASSUME NEW b \in BuilderType, Valid(b), b.has_ext
  PROVE  ExtWords(b) \in 0 .. U16 /\ ExtLength(b) = 4 + (4 * ExtWords(b))
<1> DEFINE w == b.ext \div 4
<1>1. b.ext \in Nat /\ b.ext % 4 = 0 /\ w =< U16
  BY DEF BuilderType, Valid
<1>2. w \in Nat /\ b.ext = 4 * w
  BY <1>1, WholeWords
<1>3. ExtWords(b) = w /\ ExtLength(b) = 4 + b.ext
  BY Zenon DEF ExtWords, ExtLength
<1> HIDE DEF w
<1> QED BY <1>1, <1>2, <1>3

LEMMA NoExtension ==
  ASSUME NEW b, ~b.has_ext
  PROVE  ExtWords(b) = 0 /\ ExtLength(b) = 0
BY Zenon DEF ExtWords, ExtLength

LEMMA ExtWordsRange ==
  ASSUME NEW b \in BuilderType, Valid(b)
  PROVE  ExtWords(b) \in 0 .. U16 /\ ExtLength(b) \in Nat
<1>1. U16 \in Nat
  BY Limits, Zenon
<1>2. CASE b.has_ext
  <2>1. ExtWords(b) \in 0 .. U16 /\ ExtLength(b) = 4 + (4 * ExtWords(b))
    BY <1>2, ValidExtension
  <2>2. \A w \in 0 .. U16 : 4 + (4 * w) \in Nat
    BY <1>1
  <2> QED BY <2>1, <2>2, Zenon
<1>3. CASE ~b.has_ext
  <2>1. ExtWords(b) = 0 /\ ExtLength(b) = 0
    BY <1>3, NoExtension
  <2> QED BY <1>1, <2>1
<1> QED BY <1>2, <1>3

(* The lengths of a valid builder's packet are numbers, in range.            *)
LEMMA ValidLengths ==
  ASSUME NEW b \in BuilderType, Valid(b)
  PROVE  /\ HeaderLength(b) \in Nat
         /\ HeaderLength(b) >= 12
         /\ Length(b) = HeaderLength(b) + b.payload + b.padding
         /\ Length(b) \in Nat
         /\ Length(b) >= 12
<1> DEFINE extension == ExtLength(b)
<1>1. extension \in Nat
  BY ExtWordsRange
<1>2. b.csrc \in 0 .. 15 /\ b.payload \in Nat /\ b.padding \in Nat
  BY ValidFields, Limits
<1>3. HeaderLength(b) = 12 + (4 * b.csrc) + extension
  BY DEF HeaderLength, FixedHeaderSize
<1>4. Length(b) = HeaderLength(b) + b.payload + b.padding
  BY DEF Length
<1> HIDE DEF extension
<1> QED BY <1>1, <1>2, <1>3, <1>4

(* Whatever byte a packet is cut at, it is a byte.                           *)
LEMMA LastBytesAreBytes ==
  ASSUME NEW b \in BuilderType, Valid(b), NEW n, NEW last \in LastBytes(b, n)
  PROVE  last \in Byte
<1>1. b.padding \in Byte /\ ExtWords(b) \in 0 .. U16
  BY ValidFields, ExtWordsRange
<1>2. ExtWords(b) % 256 \in Byte /\ ExtWords(b) \div 256 \in Byte
  BY <1>1, Halves
<1>3. ByteValue \subseteq Byte
  BY RtpWireAssumption
<1>4. 0 \in Byte
  BY Limits
<1>5. last \in {b.padding, 0, ExtWords(b) % 256, ExtWords(b) \div 256} \cup ByteValue
  BY Zenon DEF LastBytes
<1> QED BY <1>1, <1>2, <1>3, <1>4, <1>5

(* The last byte of a packet with padding is their number.                   *)
LEMMA LastIsPadding ==
  ASSUME NEW b \in BuilderType, Valid(b), b.padding > 0,
         NEW last \in LastBytes(b, Length(b))
  PROVE  last = b.padding
<1> DEFINE body == HeaderLength(b) + b.payload
           n == Length(b)
<1>1. n > body
  <2>1. b.payload \in Nat /\ b.padding \in Nat
    BY ValidFields, Limits
  <2> QED BY <2>1, ValidLengths
<1>2. last \in IF n > body THEN {b.padding} ELSE LastBytes(b, n)
  BY Zenon DEF LastBytes
<1> HIDE DEF body, n
<1> QED BY <1>1, <1>2

(* build() puts a datagram on the wire that the builder describes.           *)
LEMMA BuiltFromBuilder ==
  ASSUME NEW b \in BuilderType, Valid(b), NEW last \in LastBytes(b, Length(b))
  PROVE  Built(b, last) \in DatagramType /\ FromBuilder(b, Built(b, last))
<1>1. /\ b.version \in 0 .. 3
      /\ b.csrc \in 0 .. 15
      /\ b.payload \in Nat
      /\ b.padding \in Byte
      /\ b.has_ext \in BOOLEAN
  BY ValidFields
<1>2. /\ HeaderLength(b) \in Nat
      /\ Length(b) = HeaderLength(b) + b.payload + b.padding
      /\ Length(b) \in Nat
      /\ Length(b) >= 12
  BY ValidLengths
<1>3. ExtWords(b) \in 0 .. U16
  BY ExtWordsRange
<1>4. b.csrc % 16 = b.csrc
  BY <1>1
<1>5. last \in Byte
  BY LastBytesAreBytes
<1>6. b.padding > 0 => last = b.padding
  BY LastIsPadding
<1>7. Built(b, last) \in DatagramType
  BY <1>1, <1>2, <1>3, <1>4, <1>5 DEF Built, DatagramType
<1>8. FromBuilder(b, Built(b, last))
  BY <1>1, <1>2, <1>4, <1>6 DEF Built, FromBuilder
<1> QED BY <1>7, <1>8

----------------------------------------------------------------------------
LEMMA IInvInit == Init => IInv
<1> SUFFICES ASSUME Init PROVE IInv
  OBVIOUS
<1>1. NewBuilder \in BuilderType
  BY DEF NewBuilder, BuilderType
<1> QED BY <1>1 DEF Init, IInv, TypeOK

(* A setter changes the builder only, and only while nothing is on the wire. *)
LEMMA SettersType ==
  ASSUME builder \in BuilderType,
         WithVersion \/ WithCsrc \/ WithExtension \/ WithPayload \/ WithPadding
  PROVE  builder' \in BuilderType /\ UNCHANGED <<sent, wire>>
<1>1. /\ Version \subseteq Int
      /\ Csrc \subseteq Nat
      /\ ExtBytes \subseteq Nat
      /\ Payload \subseteq Nat
      /\ Padding \subseteq Int
  BY RtpWireAssumption
<1>2. CASE WithVersion
  BY <1>1, <1>2 DEF WithVersion, With, BuilderType
<1>3. CASE WithCsrc
  BY <1>1, <1>3 DEF WithCsrc, With, BuilderType
<1>4. CASE WithExtension
  BY <1>1, <1>4 DEF WithExtension, With, BuilderType
<1>5. CASE WithPayload
  BY <1>1, <1>5 DEF WithPayload, With, BuilderType
<1>6. CASE WithPadding
  BY <1>1, <1>6 DEF WithPadding, With, BuilderType
<1> QED BY <1>2, <1>3, <1>4, <1>5, <1>6

LEMMA IInvStep == IInv /\ [Next]_vars => IInv'
<1> SUFFICES ASSUME IInv, [Next]_vars PROVE IInv'
  OBVIOUS
<1>1. /\ builder \in BuilderType
      /\ sent \in BuilderType \cup {None}
      /\ wire \in DatagramType \cup {None}
      /\ sent # None => wire # None
      /\ sent # None => FromBuilder(sent, wire)
  BY DEF IInv, TypeOK
<1>2. None \notin DatagramType /\ None \notin BuilderType
  BY RtpWireAssumption
<1>3. CASE WithVersion \/ WithCsrc \/ WithExtension \/ WithPayload \/ WithPadding
  <2>1. builder' \in BuilderType /\ UNCHANGED <<sent, wire>>
    BY <1>1, <1>3, SettersType
  <2> QED BY <1>1, <2>1 DEF IInv, TypeOK
<1>4. CASE Build
  <2>1. PICK last \in LastBytes(builder, Length(builder)) :
          wire' = Built(builder, last)
    BY <1>4 DEF Build
  <2>2. Valid(builder) /\ sent' = builder /\ builder' = builder
    BY <1>4 DEF Build
  <2>3. wire' \in DatagramType /\ FromBuilder(builder, wire')
    BY <1>1, <2>1, <2>2, BuiltFromBuilder
  <2> QED BY <1>1, <1>2, <2>2, <2>3 DEF IInv, TypeOK
<1>5. CASE Cut
  <2>1. /\ sent # None
        /\ wire # None
        /\ UNCHANGED <<builder, sent>>
    BY <1>5 DEF Cut
  <2>2. PICK n \in 0 .. wire.length - 1 :
          \E last \in LastBytes(sent, n) :
            wire' = [wire EXCEPT !.length = n, !.last = last]
    BY <1>5 DEF Cut
  <2>3. PICK last \in LastBytes(sent, n) :
          wire' = [wire EXCEPT !.length = n, !.last = last]
    BY <2>2
  <2>4. /\ sent \in BuilderType
        /\ wire \in DatagramType
        /\ Valid(sent)
        /\ FromBuilder(sent, wire)
    BY <1>1, <2>1 DEF FromBuilder
  <2>5. last \in Byte
    BY <2>4, LastBytesAreBytes
  <2>6. wire.length \in Nat /\ n \in Nat /\ n < wire.length
    BY <2>4 DEF DatagramType
  <2>7. wire' \in DatagramType
    BY <2>3, <2>4, <2>5, <2>6 DEF DatagramType
  <2>8. Length(sent) \in Nat
    BY <2>4, ValidLengths
  <2>9. /\ wire'.length = n
        /\ wire'.version = wire.version
        /\ wire'.padding = wire.padding
        /\ wire'.extension = wire.extension
        /\ wire'.cc = wire.cc
        /\ wire'.ext_words = wire.ext_words
    BY <2>3, <2>4 DEF DatagramType
  <2>10. FromBuilder(sent, wire')
    BY <2>4, <2>6, <2>8, <2>9 DEF FromBuilder
  <2> QED BY <1>1, <1>2, <2>1, <2>7, <2>10 DEF IInv, TypeOK
<1>6. CASE Intrude
  <2>1. Noise \subseteq DatagramType
    BY RtpWireAssumption
  <2> QED BY <1>1, <1>6, <2>1 DEF Intrude, IInv, TypeOK
<1>7. CASE Consume
  BY <1>1, <1>7 DEF Consume, IInv, TypeOK
<1>8. CASE UNCHANGED vars
  BY <1>8 DEF vars, IInv, TypeOK
<1> QED BY <1>3, <1>4, <1>5, <1>6, <1>7, <1>8 DEF Next

LEMMA WireInv == Spec => []IInv
BY IInvInit, IInvStep, PTL DEF Spec

(* The builder, what was sent and the datagram on the wire stay in their     *)
(* types, whatever callers ask for.                                          *)
THEOREM TypeCorrect == Spec => []TypeOK
<1>1. IInv => TypeOK
  BY DEF IInv
<1> QED BY <1>1, WireInv, PTL

----------------------------------------------------------------------------
(* What the first byte announces of the CSRC list and the extension is there.*)
Whole(d) ==
  /\ d.length >= FixedHeaderSize
  /\ CsrcFits(d)
  /\ d.extension => ExtensionFits(d)

LEMMA DatagramFields ==
  ASSUME NEW d \in DatagramType
  PROVE  /\ d.length \in Nat
         /\ d.cc \in 0 .. 15
         /\ d.ext_words \in Nat
         /\ d.ext_words # None
         /\ d.last \in 0 .. 255
         /\ d.padding \in BOOLEAN
         /\ d.extension \in BOOLEAN
<1>1. U16 \in Nat /\ Byte = 0 .. 255
  BY Limits, Zenon
<1>2. d.ext_words \in 0 .. U16
  BY DEF DatagramType
<1>3. d.ext_words \in Nat /\ d.last \in 0 .. 255
  <2>1. d.ext_words \in Nat
    BY <1>1, <1>2
  <2>2. d.last \in Byte
    BY DEF DatagramType
  <2> QED BY <1>1, <2>1, <2>2, Zenon
<1>4. d.ext_words # None
  BY <1>3, RtpParserAssumption
<1> QED BY <1>3, <1>4 DEF DatagramType

(* Neither mode accepts less than a fixed header.                            *)
LEMMA AcceptedLength ==
  ASSUME NEW d \in DatagramType, NEW mode \in Mode, ~Raises(d, mode)
  PROVE  d.length >= FixedHeaderSize
<1>1. d.length \in Nat
  BY DatagramFields
<1>2. CASE mode = "strict"
  <2>1. Violation(d) = None
    BY <1>2 DEF Raises
  <2>2. d.length < FixedHeaderSize => Violation(d) \in Error
    BY Zenon DEF Violation, Error
  <2>3. ~(d.length < FixedHeaderSize)
    BY <2>1, <2>2, RtpParserAssumption
  <2> QED BY <1>1, <2>3 DEF FixedHeaderSize
<1>3. CASE mode = "lenient"
  BY <1>1, <1>3 DEF Raises, FixedHeaderSize
<1> QED BY <1>2, <1>3 DEF Mode

(* Strict mode accepts what is whole, is version 2 and has the padding it    *)
(* announces, and nothing else.                                              *)
LEMMA StrictAccepts ==
  ASSUME NEW d \in DatagramType
  PROVE  ~Raises(d, "strict") <=>
           /\ Whole(d)
           /\ d.version = 2
           /\ d.padding => PaddingFits(d)
<1>1. d.length >= FixedHeaderSize <=> ~(d.length < FixedHeaderSize)
  BY DatagramFields DEF FixedHeaderSize
<1>2. None \notin Error
  BY RtpParserAssumption
<1>3. Violation(d) = None \/ Violation(d) \in Error
  BY Zenon DEF Violation, Error
<1>4. ~Raises(d, "strict") <=> Violation(d) = None
  BY DEF Raises
<1>5. Whole(d) /\ d.version = 2 /\ (d.padding => PaddingFits(d))
        => Violation(d) = None
  BY <1>1, Zenon DEF Whole, Violation
<1>6. ~(Whole(d) /\ d.version = 2 /\ (d.padding => PaddingFits(d)))
        => Violation(d) \in Error
  BY <1>1, Zenon DEF Whole, Violation, Error
<1> QED BY <1>2, <1>4, <1>5, <1>6

(* Where lenient mode puts the parts of anything that has a fixed header.    *)
LEMMA Layout ==
  ASSUME NEW d \in DatagramType, d.length >= FixedHeaderSize
  PROVE  /\ CsrcCount(d) \in 0 .. 15
         /\ CsrcCount(d) = d.cc <=> CsrcFits(d)
         /\ CsrcEnd(d) \in Nat
         /\ CsrcEnd(d) =< d.length
         /\ PayloadStart(d) \in Nat
         /\ PayloadStart(d) =< d.length
         /\ PaddingSize(d) \in Nat
         /\ PayloadStart(d) =< d.length - PaddingSize(d)
<1>1. d.length \in Nat /\ d.cc \in 0 .. 15 /\ d.ext_words \in Nat
  BY DatagramFields
<1>2. d.length >= 12
  BY DEF FixedHeaderSize
<1>3. /\ CsrcCount(d) \in 0 .. 15
      /\ CsrcCount(d) = d.cc <=> CsrcFits(d)
      /\ 12 + (4 * CsrcCount(d)) =< d.length
  <2>1. CASE CsrcFits(d)
    BY <1>1, <2>1 DEF CsrcCount, CsrcFits, FixedHeaderSize
  <2>2. CASE ~CsrcFits(d)
    <3>1. CsrcCount(d) = (d.length - 12) \div 4
      BY <2>2 DEF CsrcCount, FixedHeaderSize
    <3>2. 12 + (4 * d.cc) > d.length
      BY <1>1, <2>2 DEF CsrcFits, FixedHeaderSize
    <3>3. \A n \in Nat : n \div 4 \in Nat /\ 4 * (n \div 4) =< n
      OBVIOUS
    <3>4. d.length - 12 \in Nat
      BY <1>1, <1>2
    <3> QED BY <1>1, <2>2, <3>1, <3>2, <3>3, <3>4
  <2> QED BY <2>1, <2>2
<1>4. CsrcEnd(d) \in Nat /\ CsrcEnd(d) =< d.length
  BY <1>1, <1>3 DEF CsrcEnd, FixedHeaderSize
<1>5. PayloadStart(d) \in Nat /\ PayloadStart(d) =< d.length
  <2>1. CASE HasExtension(d)
    BY <1>1, <1>4, <2>1 DEF PayloadStart, HasExtension, ExtensionFits
  <2>2. CASE ~HasExtension(d)
    BY <1>4, <2>2 DEF PayloadStart
  <2> QED BY <2>1, <2>2
<1>6. PaddingSize(d) \in Nat /\ PayloadStart(d) =< d.length - PaddingSize(d)
  <2>1. CASE d.padding /\ PaddingFits(d)
    BY <1>1, <1>5, <2>1 DEF PaddingSize, PaddingFits
  <2>2. CASE ~(d.padding /\ PaddingFits(d))
    <3>1. PaddingSize(d) = 0
      BY <2>2, Zenon DEF PaddingSize
    <3> QED BY <1>1, <1>5, <3>1
  <2> QED BY <2>1, <2>2
<1> QED BY <1>3, <1>4, <1>5, <1>6

(* The extension that is reported is the one that is there.                  *)
LEMMA ReportedExtension ==
  ASSUME NEW d \in DatagramType
  PROVE  /\ Parse(d).header_extension # None <=> HasExtension(d)
         /\ HeaderSize(Parse(d)) = PayloadStart(d)
<1>1. d.ext_words # None
  BY DatagramFields
<1>2. Parse(d).header_extension = IF HasExtension(d) THEN d.ext_words ELSE None
  BY DEF Parse
<1>3. Parse(d).csrc = CsrcCount(d)
  BY DEF Parse
<1>4. CASE HasExtension(d)
  <2>1. Parse(d).header_extension = d.ext_words
    BY <1>2, <1>4
  <2>2. HeaderSize(Parse(d)) =
          FixedHeaderSize + (4 * CsrcCount(d)) + (4 + (4 * d.ext_words))
    BY <1>1, <1>3, <2>1, Zenon DEF HeaderSize
  <2>3. PayloadStart(d) =
          FixedHeaderSize + (4 * CsrcCount(d)) + 4 + (4 * d.ext_words)
    BY <1>4, Zenon DEF PayloadStart, CsrcEnd
  <2>4. CsrcCount(d) \in Int
    BY DatagramFields DEF CsrcCount, FixedHeaderSize
  <2> QED BY <1>1, <1>4, <2>1, <2>2, <2>3, <2>4, DatagramFields DEF FixedHeaderSize
<1>5. CASE ~HasExtension(d)
  <2>1. Parse(d).header_extension = None
    BY <1>2, <1>5
  <2>2. HeaderSize(Parse(d)) = FixedHeaderSize + (4 * CsrcCount(d)) + 0
    BY <1>3, <2>1, Zenon DEF HeaderSize
  <2>3. PayloadStart(d) = FixedHeaderSize + (4 * CsrcCount(d))
    BY <1>5, Zenon DEF PayloadStart, CsrcEnd
  <2>4. CsrcCount(d) \in Int
    BY DatagramFields DEF CsrcCount, FixedHeaderSize
  <2> QED BY <1>5, <2>1, <2>2, <2>3, <2>4 DEF FixedHeaderSize
<1> QED BY <1>4, <1>5

(* The parts of a parsed packet tile the datagram, in either mode and        *)
(* whatever the datagram is: no header, payload or padding of any length     *)
(* makes them overlap, run past the end or leave bytes between them.         *)
THEOREM PartsTileHolds == Spec => []PartsTile
<1>1. TypeOK => PartsTile
  <2> SUFFICES ASSUME TypeOK, NEW mode \in Mode, Accepted(mode)
               PROVE  /\ HeaderSize(Parse(wire)) = Parse(wire).payload_start
                      /\ Parse(wire).payload_start =< Parse(wire).payload_end
                      /\ Parse(wire).payload_end + Parse(wire).padding_size
                           = wire.length
    BY DEF PartsTile
  <2>1. wire \in DatagramType /\ ~Raises(wire, mode)
    BY DEF TypeOK, Accepted
  <2>2. wire.length >= FixedHeaderSize
    BY <2>1, AcceptedLength
  <2>3. /\ Parse(wire).payload_start = PayloadStart(wire)
        /\ Parse(wire).payload_end = wire.length - PaddingSize(wire)
        /\ Parse(wire).padding_size = PaddingSize(wire)
    BY DEF Parse
  <2>4. wire.length \in Nat
    BY <2>1, DatagramFields
  <2>5. HeaderSize(Parse(wire)) = PayloadStart(wire)
    BY <2>1, ReportedExtension
  <2>6. /\ PaddingSize(wire) \in Nat
        /\ PayloadStart(wire) =< wire.length - PaddingSize(wire)
    BY <2>1, <2>2, Layout
  <2> QED BY <2>3, <2>4, <2>5, <2>6
<1> QED BY <1>1, TypeCorrect, PTL

(* Strict mode accepts a datagram if and only if what lenient mode returns   *)
(* honours everything that its first byte announces: lenient mode repairs    *)
(* exactly what strict mode raises on, for every datagram.                   *)
THEOREM StrictIffHonouredHolds == Spec => []StrictIffHonoured
<1>1. TypeOK => StrictIffHonoured
  <2> SUFFICES ASSUME TypeOK, wire # None
               PROVE  Accepted("strict") <=>
                        /\ Accepted("lenient")
                        /\ Parse(wire).version = 2
                        /\ Parse(wire).csrc = wire.cc
                        /\ (Parse(wire).header_extension # None) = wire.extension
                        /\ (Parse(wire).padding_size # 0) = wire.padding
    BY DEF StrictIffHonoured
  <2>1. wire \in DatagramType
    BY DEF TypeOK
  <2>2. /\ Parse(wire).version = wire.version
        /\ Parse(wire).csrc = CsrcCount(wire)
        /\ Parse(wire).padding_size = PaddingSize(wire)
    BY DEF Parse
  <2>3. Accepted("lenient") <=> wire.length >= FixedHeaderSize
    BY <2>1, DatagramFields DEF Accepted, Raises, FixedHeaderSize
  <2>4. Accepted("strict") <=> /\ Whole(wire)
                               /\ wire.version = 2
                               /\ wire.padding => PaddingFits(wire)
    BY <2>1, StrictAccepts DEF Accepted
  <2>5. (Parse(wire).header_extension # None) = wire.extension
          <=> (wire.extension => ExtensionFits(wire))
    <3>1. Parse(wire).header_extension # None <=> HasExtension(wire)
      BY <2>1, ReportedExtension
    <3>2. wire.extension \in BOOLEAN
      BY <2>1, DatagramFields
    <3> QED BY <3>1, <3>2, Zenon DEF HasExtension
  <2>6. CASE wire.length >= FixedHeaderSize
    <3>1. CsrcCount(wire) = wire.cc <=> CsrcFits(wire)
      BY <2>1, <2>6, Layout
    <3>2. (PaddingSize(wire) # 0) = wire.padding
            <=> (wire.padding => PaddingFits(wire))
      <4>1. PaddingFits(wire) => wire.last # 0
        BY DEF PaddingFits
      <4>2. wire.padding \in BOOLEAN
        BY <2>1, DatagramFields
      <4> QED BY <4>1, <4>2, Zenon DEF PaddingSize
    <3> QED BY <2>2, <2>3, <2>4, <2>5, <2>6, <3>1, <3>2, Zenon DEF Whole
  <2>7. CASE ~(wire.length >= FixedHeaderSize)
    BY <2>3, <2>4, <2>7, Zenon DEF Whole
  <2> QED BY <2>6, <2>7
<1> QED BY <1>1, TypeCorrect, PTL

----------------------------------------------------------------------------
(* A datagram that is whole, as far as its header goes, has its payload      *)
(* where the builder put it.                                                 *)
LEMMA WholeHeader ==
  ASSUME NEW b \in BuilderType, NEW d \in DatagramType, FromBuilder(b, d),
         Whole(d)
  PROVE  CsrcCount(d) = b.csrc /\ PayloadStart(d) = HeaderLength(b)
<1>1. /\ Valid(b)
      /\ d.cc = b.csrc
      /\ d.extension = b.has_ext
      /\ d.ext_words = ExtWords(b)
  BY DEF FromBuilder
<1>2. CsrcCount(d) = b.csrc
  BY <1>1, Zenon DEF Whole, CsrcCount
<1>3. CsrcEnd(d) = 12 + (4 * b.csrc)
  BY <1>2 DEF CsrcEnd, FixedHeaderSize
<1>4. HeaderLength(b) = 12 + (4 * b.csrc) + ExtLength(b)
  BY DEF HeaderLength, FixedHeaderSize
<1>5. b.csrc \in Nat
  BY <1>1, ValidFields
<1>6. CASE b.has_ext
  <2>1. HasExtension(d)
    BY <1>1, <1>6 DEF Whole, HasExtension
  <2>2. PayloadStart(d) = CsrcEnd(d) + 4 + (4 * d.ext_words)
    BY <2>1 DEF PayloadStart
  <2>3. ExtLength(b) = 4 + (4 * d.ext_words)
    BY <1>1, <1>6, ValidExtension
  <2>4. d.ext_words \in Nat
    BY DatagramFields
  <2> QED BY <1>2, <1>3, <1>4, <1>5, <2>2, <2>3, <2>4
<1>7. CASE ~b.has_ext
  <2>1. ~HasExtension(d)
    BY <1>1, <1>7 DEF HasExtension
  <2>2. PayloadStart(d) = CsrcEnd(d)
    BY <2>1 DEF PayloadStart
  <2>3. ExtLength(b) = 0
    BY <1>7, NoExtension
  <2> QED BY <1>2, <1>3, <1>4, <1>5, <2>2, <2>3
<1> QED BY <1>6, <1>7

(* As much of a packet as the builder's header is long is whole.             *)
LEMMA HeaderArrived ==
  ASSUME NEW b \in BuilderType, NEW d \in DatagramType, FromBuilder(b, d),
         d.length >= HeaderLength(b)
  PROVE  Whole(d)
<1>1. /\ Valid(b)
      /\ d.cc = b.csrc
      /\ d.extension = b.has_ext
      /\ d.ext_words = ExtWords(b)
  BY DEF FromBuilder
<1>2. HeaderLength(b) = 12 + (4 * b.csrc) + ExtLength(b)
  BY DEF HeaderLength, FixedHeaderSize
<1>3. b.csrc \in Nat /\ ExtLength(b) \in Nat /\ d.length \in Nat
  BY <1>1, ValidFields, ExtWordsRange, DatagramFields
<1>4. CsrcFits(d) /\ d.length >= FixedHeaderSize
  BY <1>1, <1>2, <1>3 DEF CsrcFits, FixedHeaderSize
<1>5. ASSUME d.extension PROVE ExtensionFits(d)
  <2>1. ExtLength(b) = 4 + (4 * d.ext_words)
    BY <1>1, <1>5, ValidExtension
  <2>2. CsrcEnd(d) = 12 + (4 * b.csrc)
    BY <1>1, <1>4, Zenon DEF CsrcEnd, CsrcCount, FixedHeaderSize
  <2>3. d.ext_words \in Nat
    BY DatagramFields
  <2> QED BY <1>2, <1>3, <2>1, <2>2, <2>3 DEF ExtensionFits
<1> QED BY <1>4, <1>5 DEF Whole

(* A packet that was cut is not misread: strict mode, when it accepts it,    *)
(* and lenient mode, when the header was not cut, find the CSRC list, the    *)
(* extension and the payload where the builder put them.                     *)
THEOREM HeaderSurvivesCutHolds == Spec => []HeaderSurvivesCut
<1>1. IInv => HeaderSurvivesCut
  <2> SUFFICES ASSUME IInv, NEW mode \in Mode, sent # None, Accepted(mode),
                      mode = "lenient" => wire.length >= HeaderLength(sent)
               PROVE  /\ Parse(wire).csrc = sent.csrc
                      /\ HeaderSize(Parse(wire)) = HeaderLength(sent)
                      /\ Parse(wire).payload_start = HeaderLength(sent)
    BY DEF HeaderSurvivesCut
  <2>1. /\ sent \in BuilderType
        /\ wire \in DatagramType
        /\ FromBuilder(sent, wire)
    BY DEF IInv, TypeOK, Accepted
  <2>2. Whole(wire)
    <3>1. CASE mode = "strict"
      BY <2>1, <3>1, StrictAccepts DEF Accepted
    <3>2. CASE mode = "lenient"
      BY <2>1, <3>2, HeaderArrived
    <3> QED BY <3>1, <3>2 DEF Mode
  <2>3. CsrcCount(wire) = sent.csrc /\ PayloadStart(wire) = HeaderLength(sent)
    BY <2>1, <2>2, WholeHeader
  <2>4. HeaderSize(Parse(wire)) = PayloadStart(wire)
    BY <2>1, ReportedExtension
  <2> QED BY <2>3, <2>4 DEF Parse
<1> QED BY <1>1, WireInv, PTL

(* What was asked of the builder is what strict parsing finds, for every     *)
(* valid request and whatever the bytes of the payload.                      *)
THEOREM RoundTripHolds == Spec => []RoundTrip
<1>1. IInv => RoundTrip
  <2> SUFFICES ASSUME IInv, sent # None, sent.version = 2,
                      wire.length = Length(sent)
               PROVE  /\ Accepted("strict")
                      /\ Parse(wire) =
                           [version          |-> 2,
                            csrc             |-> sent.csrc,
                            header_extension |-> IF sent.has_ext
                                                 THEN ExtWords(sent)
                                                 ELSE None,
                            payload_start    |-> HeaderLength(sent),
                            payload_end      |-> HeaderLength(sent) + sent.payload,
                            padding_size     |-> sent.padding]
    BY DEF RoundTrip
  <2>1. /\ sent \in BuilderType
        /\ wire \in DatagramType
        /\ wire # None
        /\ FromBuilder(sent, wire)
    BY RtpWireAssumption DEF IInv, TypeOK
  <2>2. /\ Valid(sent)
        /\ wire.version = 2
        /\ wire.padding = (sent.padding > 0)
        /\ wire.extension = sent.has_ext
        /\ wire.ext_words = ExtWords(sent)
        /\ sent.padding > 0 => wire.last = sent.padding
    BY <2>1 DEF FromBuilder
  <2>3. sent.padding \in Nat /\ sent.payload \in Nat
    BY <2>2, <2>1, ValidFields, Limits
  <2>4. /\ HeaderLength(sent) \in Nat
        /\ wire.length = HeaderLength(sent) + sent.payload + sent.padding
    BY <2>1, <2>2, ValidLengths
  <2>5. Whole(wire)
    BY <2>1, <2>3, <2>4, HeaderArrived
  <2>6. CsrcCount(wire) = sent.csrc /\ PayloadStart(wire) = HeaderLength(sent)
    BY <2>1, <2>5, WholeHeader
  <2>7. wire.padding => PaddingFits(wire)
    <3> SUFFICES ASSUME wire.padding PROVE PaddingFits(wire)
      OBVIOUS
    <3>1. sent.padding > 0 /\ wire.last = sent.padding
      BY <2>2
    <3>2. wire.length - PayloadStart(wire) = sent.payload + sent.padding
      BY <2>3, <2>4, <2>6
    <3>3. sent.padding \in 1 .. sent.payload + sent.padding
      BY <2>3, <3>1
    <3> QED BY <3>1, <3>2, <3>3, Zenon DEF PaddingFits
  <2>8. PaddingSize(wire) = sent.padding
    <3>1. CASE sent.padding > 0
      BY <2>2, <2>7, <3>1, Zenon DEF PaddingSize
    <3>2. CASE ~(sent.padding > 0)
      <4>1. sent.padding = 0
        BY <2>3, <3>2
      <4>2. ~wire.padding
        BY <2>2, <3>2
      <4> QED BY <4>1, <4>2, Zenon DEF PaddingSize
    <3> QED BY <3>1, <3>2
  <2>9. Accepted("strict")
    BY <2>1, <2>2, <2>5, <2>7, StrictAccepts DEF Accepted
  <2>10. wire.length - PaddingSize(wire) = HeaderLength(sent) + sent.payload
    BY <2>3, <2>4, <2>8
  <2>11. HasExtension(wire) <=> sent.has_ext
    BY <2>2, <2>5 DEF Whole, HasExtension
  <2>12. Parse(wire) =
           [version          |-> 2,
            csrc             |-> sent.csrc,
            header_extension |-> IF HasExtension(wire) THEN ExtWords(sent)
                                 ELSE None,
            payload_start    |-> HeaderLength(sent),
            payload_end      |-> HeaderLength(sent) + sent.payload,
            padding_size     |-> sent.padding]
    BY <2>2, <2>6, <2>8, <2>10, Zenon DEF Parse
  <2> QED BY <2>9, <2>11, <2>12, Zenon
<1> QED BY <1>1, WireInv, PTL
=============================================================================
