------------------------------ MODULE RtcpFormat ------------------------------
(* The RTCP packets on the wire: what build_rtcp makes of a packet, and what *)
(* the body parsers of parse_rtcp make of the bytes between a packet's       *)
(* header and its padding.                                                   *)
(*                                                                           *)
(* A byte is a number below 256.  A 32-bit field is the sequence of its four *)
(* bytes, and runs of fields that nothing looks into (the sender info, the   *)
(* last four fields of a report block) are kept together as one sequence.    *)
(* Offsets count from 0, as in the code.                                     *)
EXTENDS Integers, SequencesExt

Byte == 0 .. 255

SR == 200
RR == 201
SDES == 202
BYE == 203
APP == 204

InfoSize == 20             \* SenderInfo, after the SSRC
ReportBlockSize == 24      \* SSRC, loss, and four more fields
MaxCount == 31             \* what the five bits of the count field hold
MaxWords == (256 * 255) + 255   \* what the length field holds

Zeros(n) == [i \in 1 .. n |-> 0]

(* The zeros that bring n bytes to a whole number of words.                  *)
Fill(n) == Zeros((-n) % 4)

(* A 24-bit field in two's complement.                                       *)
Half24 == 128 * 256 * 256

Unsigned24(n) ==
  LET u == n % (2 * Half24)
  IN  <<u \div (256 * 256), (u \div 256) % 256, u % 256>>

Signed24(b) ==
  LET u == b[1] * (256 * 256) + b[2] * 256 + b[3]
  IN  IF u >= Half24 THEN u - 2 * Half24 ELSE u

----------------------------------------------------------------------------
(* Packets, as records of what their fields hold.  A reason is a sequence of *)
(* one text or none.                                                         *)

Field32 == [1 .. 4 -> Byte]

BlockType == [ssrc:            Field32,
              fraction_lost:   Int,
              cumulative_lost: Int,
              rest:            [1 .. ReportBlockSize - 8 -> Byte]]

ItemType == [type: Int, text: Seq(Byte)]

ChunkType == [ssrc: Field32, items: Seq(ItemType)]

SenderReport == [type:          {SR},
                 ssrc:          Field32,
                 sender_info:   [1 .. InfoSize -> Byte],
                 report_blocks: Seq(BlockType),
                 padding_size:  Int]

ReceiverReport == [type:          {RR},
                   ssrc:          Field32,
                   report_blocks: Seq(BlockType),
                   padding_size:  Int]

SourceDescription == [type: {SDES}, chunks: Seq(ChunkType), padding_size: Int]

Goodbye == [type:         {BYE},
            sources:      Seq(Field32),
            reason:       {r \in Seq(Seq(Byte)) : Len(r) =< 1},
            padding_size: Int]

ApplicationDefined == [type:         {APP},
                       subtype:      Int,
                       ssrc:         Field32,
                       name:         Seq(Byte),
                       data:         Seq(Byte),
                       padding_size: Int]

RtcpPacket ==
  SenderReport \cup ReceiverReport \cup SourceDescription \cup Goodbye
    \cup ApplicationDefined

----------------------------------------------------------------------------
(* Building.                                                                 *)

BlockFits(block) ==
  /\ block.fraction_lost \in Byte
  /\ block.cumulative_lost \in -Half24 .. Half24 - 1

BlockBytes(block) ==
  block.ssrc \o <<block.fraction_lost>> \o Unsigned24(block.cumulative_lost)
             \o block.rest

ItemFits(item) == item.type \in 1 .. 255 /\ Len(item.text) =< 255

ItemBytes(item) == <<item.type, Len(item.text)>> \o item.text

ChunkBytes(chunk) ==
  LET raw == chunk.ssrc \o FlattenSeq([i \in DOMAIN chunk.items |->
                                         ItemBytes(chunk.items[i])]) \o <<0>>
  IN  raw \o Fill(Len(raw))

Each(Op(_), s) == FlattenSeq([i \in DOMAIN s |-> Op(s[i])])

All(Op(_), s) == \A i \in DOMAIN s : Op(s[i])

(* The entries that the count field counts; APP puts its subtype there.      *)
Count(p) ==
  CASE p.type \in {SR, RR} -> Len(p.report_blocks)
    [] p.type = SDES       -> Len(p.chunks)
    [] p.type = BYE        -> Len(p.sources)
    [] p.type = APP        -> p.subtype

Serialized(p) ==
  CASE p.type = SR   -> p.ssrc \o p.sender_info \o Each(BlockBytes, p.report_blocks)
    [] p.type = RR   -> p.ssrc \o Each(BlockBytes, p.report_blocks)
    [] p.type = SDES -> Each(ChunkBytes, p.chunks)
    [] p.type = BYE  -> FlattenSeq(p.sources)
                          \o Each(LAMBDA text : <<Len(text)>> \o text, p.reason)
    [] p.type = APP  -> p.ssrc \o p.name \o p.data

(* What the serializer of the packet's type refuses.                         *)
FieldsFit(p) ==
  CASE p.type \in {SR, RR} -> All(BlockFits, p.report_blocks)
    [] p.type = SDES       -> All(LAMBDA c : All(ItemFits, c.items), p.chunks)
    [] p.type = BYE        -> All(LAMBDA text : Len(text) =< 255, p.reason)
    [] p.type = APP        -> Len(p.name) = 4

(* Mutated form of Buildable: any padding that fits its byte will do.        *)
BuildableUnaligned(p) ==
  /\ Count(p) \in 0 .. MaxCount
  /\ FieldsFit(p)
  /\ p.padding_size \in Byte

Buildable(p) ==
  /\ Count(p) \in 0 .. MaxCount
  /\ FieldsFit(p)
  /\ p.padding_size \in Byte
  /\ p.padding_size % 4 = 0

Padding(n) == IF n = 0 THEN <<>> ELSE Zeros(n - 1) \o <<n>>

Body(p) ==
  LET serialized == Serialized(p)
  IN  serialized \o Fill(Len(serialized)) \o Padding(p.padding_size)

(* The length field does not hold more: struct.pack raises.                  *)
LengthFits(p) == Len(Body(p)) \div 4 =< MaxWords

(* Version 2, the padding flag, and what is left of the count in five bits.  *)
Header(p) ==
  LET words == Len(Body(p)) \div 4
  IN  <<128 + (IF p.padding_size = 0 THEN 0 ELSE 32) + (Count(p) % 32),
        p.type, words \div 256, words % 256>>

Built(p) == Header(p) \o Body(p)

----------------------------------------------------------------------------
(* Parsing.  A parser returns a sequence of one packet, or none at all where *)
(* the code raises RtcpMalformedPacket.                                      *)

Malformed == <<>>

Field(bytes, at) == SubSeq(bytes, at + 1, at + 4)

From(bytes, at) == SubSeq(bytes, at + 1, Len(bytes))

ReportBlocks(data, count) ==
  [i \in 1 .. count |->
     LET at == (i - 1) * ReportBlockSize IN
     [ssrc            |-> Field(data, at),
      fraction_lost   |-> data[at + 5],
      cumulative_lost |-> Signed24(SubSeq(data, at + 6, at + 8)),
      rest            |-> SubSeq(data, at + 9, at + 24)]]

ParseSR(content, count, padding) ==
  IF Len(content) < 4 + InfoSize + count * ReportBlockSize THEN Malformed
  ELSE <<[type          |-> SR,
          ssrc          |-> Field(content, 0),
          sender_info   |-> SubSeq(content, 5, 4 + InfoSize),
          report_blocks |-> ReportBlocks(From(content, 4 + InfoSize), count),
          padding_size  |-> padding]>>

ParseRR(content, count, padding) ==
  IF Len(content) < 4 + count * ReportBlockSize THEN Malformed
  ELSE <<[type          |-> RR,
          ssrc          |-> Field(content, 0),
          report_blocks |-> ReportBlocks(From(content, 4), count),
          padding_size  |-> padding]>>

(* The items from an offset up to their terminator, and the offset after it; *)
(* an end beyond the content where they are malformed.                       *)
Items(content) ==
  LET past == [end |-> Len(content) + 1, items |-> <<>>]
      read[at \in Nat] ==
        IF at >= Len(content) THEN past
        ELSE IF content[at + 1] = 0 THEN [end |-> at + 1, items |-> <<>>]
        ELSE IF at + 2 > Len(content) THEN past
        ELSE LET next == at + 2 + content[at + 2] IN
             IF next > Len(content) THEN past
             ELSE [end   |-> read[next].end,
                   items |-> <<[type |-> content[at + 1],
                                text |-> SubSeq(content, at + 3, next)]>>
                             \o read[next].items]
  IN  read

ParseSDES(content, count, padding) ==
  LET items == Items(content)
      end(at) == items[at + 4].end + ((at - items[at + 4].end) % 4)
      (* the offset after n chunks, beyond the content if one is malformed   *)
      offset[n \in 0 .. count] ==
        IF n = 0 THEN 0
        ELSE IF offset[n - 1] + 4 > Len(content) THEN Len(content) + 1
        ELSE end(offset[n - 1])
  IN  IF \E n \in 1 .. count : offset[n] > Len(content) THEN Malformed
      ELSE <<[type         |-> SDES,
              chunks       |-> [n \in 1 .. count |->
                                  [ssrc  |-> Field(content, offset[n - 1]),
                                   items |-> items[offset[n - 1] + 4].items]],
              padding_size |-> padding]>>

ParseBYE(content, count, padding) ==
  LET rest == From(content, count * 4) IN
  IF \/ Len(content) < count * 4
     \/ rest # <<>> /\ 1 + rest[1] > Len(rest)
  THEN Malformed
  ELSE <<[type         |-> BYE,
          sources      |-> [i \in 1 .. count |-> Field(content, (i - 1) * 4)],
          reason       |-> IF rest = <<>> THEN <<>>
                           ELSE <<SubSeq(rest, 2, 1 + rest[1])>>,
          padding_size |-> padding]>>

ParseAPP(content, subtype, padding) ==
  IF Len(content) < 8 THEN Malformed
  ELSE <<[type         |-> APP,
          subtype      |-> subtype,
          ssrc         |-> Field(content, 0),
          name         |-> SubSeq(content, 5, 8),
          data         |-> From(content, 8),
          padding_size |-> padding]>>

ParseOne(type, count, content, padding) ==
  CASE type = SR   -> ParseSR(content, count, padding)
    [] type = RR   -> ParseRR(content, count, padding)
    [] type = SDES -> ParseSDES(content, count, padding)
    [] type = BYE  -> ParseBYE(content, count, padding)
    [] type = APP  -> ParseAPP(content, count, padding)
    [] OTHER       -> Malformed
=============================================================================
