----------------------------- MODULE RtpParser -----------------------------
(* parse_rtp and parse_rtp_lenient: where a datagram's CSRC list, header     *)
(* extension, payload and padding begin and end, and when the two modes give *)
(* up.  Of a datagram the model keeps the length and the bytes that decide   *)
(* the layout; the fields that are copied out unread are left out.           *)
EXTENDS Integers

CONSTANT None    \* Python's None

FixedHeaderSize == 12

Mode == {"strict", "lenient"}

U8 == 255

U16 == (256 * U8) + U8   \* 0xFFFF

Byte == 0 .. U8

(* ext_words is the length field of the extension header, wherever the CSRC  *)
(* count puts it; last is the last byte of the datagram.                     *)
DatagramType == [length:    Nat,
                 version:   0 .. 3,
                 padding:   BOOLEAN,
                 extension: BOOLEAN,
                 cc:        0 .. 15,
                 ext_words: 0 .. U16,
                 last:      Byte]

CsrcFits(d) == FixedHeaderSize + (4 * d.cc) =< d.length

(* Lenient mode reads as many CSRCs as there are.                            *)
CsrcCount(d) ==
  IF CsrcFits(d) THEN d.cc ELSE (d.length - FixedHeaderSize) \div 4

CsrcEnd(d) == FixedHeaderSize + (4 * CsrcCount(d))

(* The extension header, then the words it declares.                         *)
ExtensionFits(d) ==
  /\ CsrcEnd(d) + 4 =< d.length
  /\ CsrcEnd(d) + 4 + (4 * d.ext_words) =< d.length

HasExtension(d) == d.extension /\ ExtensionFits(d)

PayloadStart(d) ==
  IF HasExtension(d) THEN CsrcEnd(d) + 4 + (4 * d.ext_words) ELSE CsrcEnd(d)

(* Mutated form of PaddingFits: the padding may take one byte of the header. *)
PaddingFitsHeaderByte(d) == d.last \in 1 .. d.length - PayloadStart(d) + 1

(* The count in the last byte is not zero and stays behind the header; so    *)
(* there is a last byte behind the header.                                   *)
PaddingFits(d) == d.last \in 1 .. d.length - PayloadStart(d)

PaddingSize(d) == IF d.padding /\ PaddingFits(d) THEN d.last ELSE 0

Error == {"RtpBufferTooShort", "RtpInvalidVersion",
          "RtpExtensionError", "RtpPaddingError"}

ASSUME RtpParserAssumption == None \notin Error /\ None \notin Int

(* Mutated form of Violation: the CSRC list is not checked.                  *)
ViolationButCsrc(d) ==
  IF d.length < FixedHeaderSize THEN "RtpBufferTooShort"
  ELSE IF d.version # 2 THEN "RtpInvalidVersion"
  ELSE IF d.extension /\ ~ExtensionFits(d) THEN "RtpExtensionError"
  ELSE IF d.padding /\ ~PaddingFits(d) THEN "RtpPaddingError"
  ELSE None

(* Mutated form of Violation: a padding count of zero is let through.        *)
ViolationButZero(d) ==
  IF d.length < FixedHeaderSize THEN "RtpBufferTooShort"
  ELSE IF d.version # 2 THEN "RtpInvalidVersion"
  ELSE IF ~CsrcFits(d) THEN "RtpBufferTooShort"
  ELSE IF d.extension /\ ~ExtensionFits(d) THEN "RtpExtensionError"
  ELSE IF d.padding /\ d.last > d.length - PayloadStart(d) THEN "RtpPaddingError"
  ELSE None

(* What strict mode raises on d: the first thing that is wrong with it.      *)
Violation(d) ==
  IF d.length < FixedHeaderSize THEN "RtpBufferTooShort"
  ELSE IF d.version # 2 THEN "RtpInvalidVersion"
  ELSE IF ~CsrcFits(d) THEN "RtpBufferTooShort"
  ELSE IF d.extension /\ ~ExtensionFits(d) THEN "RtpExtensionError"
  ELSE IF d.padding /\ ~PaddingFits(d) THEN "RtpPaddingError"
  ELSE None

Raises(d, mode) ==
  IF mode = "strict" THEN Violation(d) # None ELSE d.length < FixedHeaderSize

(* The RtpPacket returned otherwise: the views are given by their bounds.    *)
Parse(d) ==
  [version          |-> d.version,
   csrc             |-> CsrcCount(d),
   header_extension |-> IF HasExtension(d) THEN d.ext_words ELSE None,
   payload_start    |-> PayloadStart(d),
   payload_end      |-> d.length - PaddingSize(d),
   padding_size     |-> PaddingSize(d)]

(* RtpPacket.header_size                                                     *)
HeaderSize(packet) ==
  FixedHeaderSize + (4 * packet.csrc)
    + (IF packet.header_extension = None THEN 0
       ELSE 4 + (4 * packet.header_extension))
=============================================================================
