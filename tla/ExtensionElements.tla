--------------------------- MODULE ExtensionElements ---------------------------
(* The elements of an RTP header extension (RFC 8285), from                  *)
(* build_header_extension to parse_extension_elements.  A sender asks for    *)
(* elements one after the other and closes the extension; or the extension   *)
(* comes from another implementation, with whatever bytes it may hold.  The  *)
(* parser scans it, one action for one turn of its loop.                     *)
(*                                                                           *)
(* A byte is a number below 256, data a sequence of bytes; offsets count     *)
(* from 0, as in the code.                                                   *)
EXTENDS Integers, SequencesExt

CONSTANTS
  Profile,       \* the profiles a sender may ask for
  Element,       \* the elements it may ask for
  Foreign,       \* extensions of other implementations
  MaxElements    \* bound: elements of an extension built here

Byte == 0 .. 255

Word == 0 .. 65535

OneByteMagic == 48862      \* 0xBEDE
TwoByteValue == 4096       \* 0x1000, its last four bits being free

ExtensionType == [profile: Word, data: Seq(Byte)]

ASSUME ExtensionElementsAssumption ==
  /\ Profile \subseteq {"one_byte", "two_byte", "unknown"}
  /\ Element \subseteq [id: Int, data: Seq(Byte)]
  /\ Foreign \subseteq ExtensionType
  /\ MaxElements \in Nat

VARIABLES
  format,        \* the profile that the sender asked for
  asked,         \* the elements serialized so far
  extension,     \* profile and bytes of the extension
  phase,         \* "building", "refused", "parsing", "done"
  pos,           \* the parser's offset
  elements,      \* the elements it has read
  heads          \* history: the offset of each one's first byte

vars == <<format, asked, extension, phase, pos, elements, heads>>

Kind(profile) ==
  IF profile = OneByteMagic THEN "one_byte"
  ELSE IF profile - (profile % 16) = TwoByteValue THEN "two_byte"
  ELSE "unknown"

ProfileValue(kind) ==
  IF kind = "one_byte" THEN OneByteMagic ELSE TwoByteValue

Init ==
  /\ format \in Profile
  /\ asked = <<>>
  /\ extension = [profile |-> ProfileValue(format), data |-> <<>>]
  /\ phase = "building"
  /\ pos = 0
  /\ elements = <<>>
  /\ heads = <<>>

----------------------------------------------------------------------------
(* build_header_extension                                                    *)

(* Mutated form of Fits: the length may need the fifth bit.                  *)
FitsSeventeen(element) ==
  \/ format = "one_byte" /\ element.id \in 1 .. 14 /\ Len(element.data) \in 1 .. 17
  \/ format = "two_byte" /\ element.id \in 1 .. 255 /\ Len(element.data) =< 255

Fits(element) ==
  \/ format = "one_byte" /\ element.id \in 1 .. 14 /\ Len(element.data) \in 1 .. 16
  \/ format = "two_byte" /\ element.id \in 1 .. 255 /\ Len(element.data) =< 255

ElementHead(kind, element) ==
  IF kind = "one_byte" THEN <<(16 * element.id) + Len(element.data) - 1>>
  ELSE <<element.id, Len(element.data)>>

BuildElement(element) ==
  /\ phase = "building"
  /\ Len(asked) < MaxElements
  /\ Fits(element)
  /\ asked' = Append(asked, element)
  /\ extension' =
       [extension EXCEPT !.data = @ \o ElementHead(format, element) \o element.data]
  /\ UNCHANGED <<format, phase, pos, elements, heads>>

(* RtpBuildError.                                                            *)
Refuse ==
  /\ phase' = "refused"
  /\ UNCHANGED <<format, asked, extension, pos, elements, heads>>

BuildError(element) ==
  /\ phase = "building" /\ format # "unknown"
  /\ Len(asked) < MaxElements
  /\ ~Fits(element)
  /\ Refuse

UnknownProfile ==
  /\ phase = "building" /\ format = "unknown"
  /\ Refuse

(* The body is brought to whole words and handed to the RTP builder, which   *)
(* puts the number of words before it.                                       *)
CloseExtension ==
  /\ phase = "building"
  /\ format # "unknown"
  /\ extension' =
       [extension EXCEPT !.data = @ \o [i \in 1 .. (-Len(@)) % 4 |-> 0]]
  /\ phase' = "parsing"
  /\ UNCHANGED <<format, asked, pos, elements, heads>>

ForeignExtension ==
  /\ phase = "building"
  /\ asked = <<>>
  /\ extension' \in Foreign
  /\ format' = "unknown"
  /\ phase' = "parsing"
  /\ UNCHANGED <<asked, pos, elements, heads>>

----------------------------------------------------------------------------
(* parse_extension_elements                                                  *)

data == extension.data

kind == Kind(extension.profile)

ByteAt(at) == data[at + 1]

InData == phase = "parsing" /\ kind # "unknown" /\ pos < Len(data)

Id == IF kind = "one_byte" THEN ByteAt(pos) \div 16 ELSE ByteAt(pos)

DataStart == IF kind = "one_byte" THEN pos + 1 ELSE pos + 2

(* Mutated form of DataLength: the one-byte format counts from zero.         *)
DataLengthFromZero ==
  IF kind = "one_byte" THEN ByteAt(pos) % 16 ELSE ByteAt(pos + 1)

DataLength ==
  IF kind = "one_byte" THEN (ByteAt(pos) % 16) + 1 ELSE ByteAt(pos + 1)

Whole ==
  /\ DataStart =< Len(data)
  /\ DataStart + DataLength =< Len(data)

Reserved == kind = "one_byte" /\ Id = 15

Stop == phase' = "done" /\ UNCHANGED <<format, asked, extension, pos, elements, heads>>

NothingToScan ==
  /\ phase = "parsing"
  /\ kind = "unknown" \/ pos >= Len(data)
  /\ Stop

(* Mutated form of SkipPadding: the loop goes on before it has moved.        *)
SkipPaddingInPlace ==
  /\ InData
  /\ ByteAt(pos) = 0
  /\ UNCHANGED vars

SkipPadding ==
  /\ InData
  /\ ByteAt(pos) = 0
  /\ pos' = pos + 1
  /\ UNCHANGED <<format, asked, extension, phase, elements, heads>>

StopAtReserved ==
  /\ InData
  /\ Reserved
  /\ Stop

StopAtTruncated ==
  /\ InData
  /\ ByteAt(pos) # 0 /\ ~Reserved
  /\ ~Whole
  /\ Stop

ReadElement ==
  /\ InData
  /\ ByteAt(pos) # 0 /\ ~Reserved
  /\ Whole
  /\ LET end == DataStart + DataLength IN
     /\ elements' = Append(elements, [id   |-> Id,
                                      data |-> SubSeq(data, DataStart + 1, end)])
     /\ pos' = end
  /\ heads' = Append(heads, pos)
  /\ UNCHANGED <<format, asked, extension, phase>>

Scan ==
  NothingToScan \/ SkipPadding \/ StopAtReserved \/ StopAtTruncated \/ ReadElement

Next ==
  \/ \E element \in Element : BuildElement(element) \/ BuildError(element)
  \/ UnknownProfile
  \/ CloseExtension
  \/ ForeignExtension
  \/ Scan

Spec == Init /\ [][Next]_vars /\ WF_vars(Scan)

----------------------------------------------------------------------------
(* "(inverse of parse_extension_elements)": what was asked for is read back, *)
(* from a body of whole words, whatever the elements' data looks like.       *)
ElementsComeBack ==
  phase = "done" /\ format # "unknown" =>
    /\ Len(data) % 4 = 0
    /\ elements = asked

(* Whoever made the extension: the elements read lie in it one after the     *)
(* other, each with the identifier and the length that its first bytes say;  *)
(* what lies between them is padding; and the scan leaves the rest of the    *)
(* data only where an identifier is reserved or an element is cut off.       *)
ElementsTile ==
  LET starts == Append(heads, pos)
      head(i) == IF kind = "one_byte" THEN 1 ELSE 2
      end(i) == heads[i] + head(i) + Len(elements[i].data)
      before(i) == IF i = 1 THEN 0 ELSE end(i - 1)
      left == SubSeq(data, pos + 1, Len(data))
  IN  phase \in {"parsing", "done"} =>
        /\ \A i \in DOMAIN elements :
             SubSeq(data, heads[i] + 1, end(i))
               = ElementHead(kind, elements[i]) \o elements[i].data
        /\ \A i \in DOMAIN starts :
             \A at \in before(i) .. starts[i] - 1 : ByteAt(at) = 0
        /\ phase = "done" /\ kind = "one_byte" /\ left # <<>> =>
             left[1] \div 16 = 15 \/ Len(left) < 2 + (left[1] % 16)
        /\ phase = "done" /\ kind = "two_byte" /\ left # <<>> =>
             Len(left) = 1 \/ Len(left) < 2 + left[2]

(* Every scan ends: padding, an element or the end of the data, each turn of *)
(* the loop comes closer to the end.                                         *)
ScanEnds == phase = "parsing" ~> phase = "done"
=============================================================================
