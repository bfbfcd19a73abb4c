----------------------------- MODULE RtcpCompound -----------------------------
(* A compound RTCP packet from build_rtcp to parse_rtcp.  A caller hands     *)
(* packets to the builder, which joins them into one datagram; on its way    *)
(* the datagram may be cut short or have a bit flipped; the receiver parses *)
(* what arrives in strict mode and then, whatever came of that, in lenient   *)
(* mode.  Parsing is a loop: one action for one turn of it.                  *)
EXTENDS RtcpFormat

CONSTANTS
  Packet,        \* the packets a caller may ask for
  Bit,           \* bits of a byte that may be flipped
  MaxPackets,    \* bound: packets in a compound
  MaxLength      \* bound: bytes of a compound that grows or is damaged

ASSUME RtcpCompoundAssumption ==
  /\ Bit \subseteq 0 .. 7
  /\ MaxPackets \in Nat
  /\ MaxLength \in Nat
  /\ Packet \subseteq RtcpPacket

Mode == {"strict", "lenient"}

HeaderSize == 4

VARIABLES
  sent,        \* the packets serialized so far, each with where it ends
  phase,       \* of the caller: "building", "refused", "parsing"
  datagram,    \* the bytes serialized so far; those that arrive
  damage,      \* history: what happened to them, and at which byte
  parser       \* by mode, the state of the loop

vars == <<sent, phase, datagram, damage, parser>>

Init ==
  /\ sent = <<>>
  /\ phase = "building"
  /\ datagram = <<>>
  /\ damage = [kind |-> "none", at |-> 0]
  /\ parser = [m \in Mode |->
                 [status |-> "parsing", offset |-> 0, packets |-> <<>>]]

(* One turn of the generator in build_rtcp.                                  *)
BuildOne(p) ==
  /\ phase = "building"
  /\ Len(sent) < MaxPackets /\ Len(datagram) =< MaxLength
  /\ Buildable(p) /\ LengthFits(p)
  /\ datagram' = datagram \o Built(p)
  /\ sent' = Append(sent, [packet |-> p, end |-> Len(datagram')])
  /\ UNCHANGED <<phase, damage, parser>>

(* RtcpBuildError (struct.error for the length): nothing is returned.        *)
BuildError(p) ==
  /\ phase = "building"
  /\ Len(sent) < MaxPackets /\ Len(datagram) =< MaxLength
  /\ ~(Buildable(p) /\ LengthFits(p))
  /\ phase' = "refused"
  /\ UNCHANGED <<sent, datagram, damage, parser>>

Deliver(bytes, kind, at) ==
  /\ phase = "building"
  /\ phase' = "parsing"
  /\ datagram' = bytes
  /\ damage' = [kind |-> kind, at |-> at]
  /\ UNCHANGED <<sent, parser>>

(* All the bytes arrive, or the first n.                                     *)
Cut(n) ==
  /\ Len(datagram) > MaxLength => n = Len(datagram)
  /\ Deliver(SubSeq(datagram, 1, n), "cut", n)

Flipped(byte, bit) ==
  LET weight == <<1, 2, 4, 8, 16, 32, 64, 128>>[bit + 1]
  IN  IF (byte \div weight) % 2 = 0 THEN byte + weight ELSE byte - weight

FlipBit(at, bit) ==
  /\ Len(datagram) =< MaxLength
  /\ Deliver([datagram EXCEPT ![at + 1] = Flipped(@, bit)], "flip", at)

----------------------------------------------------------------------------
(* The header at an offset, and what it declares.                            *)

ByteAt(at) == datagram[at + 1]

Version(at) == ByteAt(at) \div 64

PaddingFlag(at) == (ByteAt(at) \div 32) % 2 = 1

(* Mutated form of PacketEnd: the length field counts the header.            *)
PacketEndHeaderCounted(at) == at + 4 * (256 * ByteAt(at + 2) + ByteAt(at + 3))

PacketEnd(at) == at + 4 * (256 * ByteAt(at + 2) + ByteAt(at + 3) + 1)

BodyAt(at) == SubSeq(datagram, at + HeaderSize + 1, PacketEnd(at))

PaddingFits(at) ==
  /\ BodyAt(at) # <<>>
  /\ Last(BodyAt(at)) \in 1 .. Len(BodyAt(at))

(* Padding that does not fit its packet is ignored (strict mode has raised). *)
PaddingSize(at) ==
  IF PaddingFlag(at) /\ PaddingFits(at) THEN Last(BodyAt(at)) ELSE 0

ParsedAt(at) ==
  LET content == SubSeq(BodyAt(at), 1, Len(BodyAt(at)) - PaddingSize(at))
  IN  ParseOne(ByteAt(at + 1), ByteAt(at) % 32, content, PaddingSize(at))

----------------------------------------------------------------------------
(* The parsing loop.  The lenient parser is called when the strict one has   *)
(* returned or raised.                                                       *)

Running(m) ==
  /\ phase = "parsing"
  /\ parser[m].status = "parsing"
  /\ m = "lenient" => parser["strict"].status # "parsing"

Remaining(m) == Len(datagram) - parser[m].offset

End(m, status) == parser' = [parser EXCEPT ![m].status = status]

(* Strict mode raises where lenient mode stops.                              *)
Refuse(m) == End(m, IF m = "strict" THEN "raised" ELSE "done")

BufferTooShort(m) ==
  /\ Running(m)
  /\ Len(datagram) < HeaderSize
  /\ End(m, "raised")

EndOfBuffer(m) ==
  /\ Running(m)
  /\ Len(datagram) >= HeaderSize
  /\ Remaining(m) = 0
  /\ End(m, "done")

TrailingBytes(m) ==
  /\ Running(m)
  /\ Len(datagram) >= HeaderSize
  /\ Remaining(m) \in 1 .. HeaderSize - 1
  /\ Refuse(m)

(* A header can be read; strict mode has seen to its version.                *)
InvalidVersion(m) ==
  /\ Running(m)
  /\ Remaining(m) >= HeaderSize
  /\ m = "strict"
  /\ Version(parser[m].offset) # 2
  /\ End(m, "raised")

HeaderAccepted(m) ==
  /\ Running(m)
  /\ Remaining(m) >= HeaderSize
  /\ m = "strict" => Version(parser[m].offset) = 2

LengthMismatch(m) ==
  /\ HeaderAccepted(m)
  /\ PacketEnd(parser[m].offset) > Len(datagram)
  /\ Refuse(m)

PacketAvailable(m) ==
  /\ HeaderAccepted(m)
  /\ PacketEnd(parser[m].offset) =< Len(datagram)

InvalidPadding(m) ==
  /\ PacketAvailable(m)
  /\ m = "strict"
  /\ PaddingFlag(parser[m].offset)
  /\ ~PaddingFits(parser[m].offset)
  /\ End(m, "raised")

PaddingAccepted(m) ==
  /\ PacketAvailable(m)
  /\ m = "strict" /\ PaddingFlag(parser[m].offset) => PaddingFits(parser[m].offset)

(* Mutated form of MalformedPacket: lenient mode stops.                      *)
MalformedPacketStops(m) ==
  /\ PaddingAccepted(m)
  /\ ParsedAt(parser[m].offset) = Malformed
  /\ Refuse(m)

MalformedPacket(m) ==
  /\ PaddingAccepted(m)
  /\ ParsedAt(parser[m].offset) = Malformed
  /\ IF m = "strict" THEN End(m, "raised")
     ELSE parser' = [parser EXCEPT ![m].offset = PacketEnd(@)]

(* Mutated form of ParsePacket: lenient mode looks for the next packet       *)
(* where the padding of this one begins.                                     *)
ParsePacketToContent(m) ==
  /\ PaddingAccepted(m)
  /\ ParsedAt(parser[m].offset) # Malformed
  /\ parser' = [parser EXCEPT
       ![m].packets = @ \o ParsedAt(parser[m].offset),
       ![m].offset  = PacketEnd(@) - IF m = "strict" THEN 0 ELSE PaddingSize(@)]

ParsePacket(m) ==
  /\ PaddingAccepted(m)
  /\ ParsedAt(parser[m].offset) # Malformed
  /\ parser' = [parser EXCEPT ![m].packets = @ \o ParsedAt(parser[m].offset),
                              ![m].offset  = PacketEnd(@)]

Parse(m) ==
  /\ \/ BufferTooShort(m)
     \/ EndOfBuffer(m)
     \/ TrailingBytes(m)
     \/ InvalidVersion(m)
     \/ LengthMismatch(m)
     \/ InvalidPadding(m)
     \/ MalformedPacket(m)
     \/ ParsePacket(m)
  /\ UNCHANGED <<sent, phase, datagram, damage>>

Next ==
  \/ \E p \in Packet : BuildOne(p) \/ BuildError(p)
  \/ \E n \in 0 .. Len(datagram) : Cut(n)
  \/ \E at \in 0 .. Len(datagram) - 1, bit \in Bit : FlipBit(at, bit)
  \/ \E m \in Mode : Parse(m)

(* The loop is not left before it has ended.                                 *)
Fairness == \A m \in Mode : WF_vars(Parse(m))

Spec == Init /\ [][Next]_vars /\ Fairness

----------------------------------------------------------------------------
Ended(m) == phase = "parsing" /\ parser[m].status # "parsing"

(* A packet as it comes back: data of APP is brought to whole words with     *)
(* zeros, and no field says how many.                                        *)
Returned(p) ==
  IF p.type = APP THEN [p EXCEPT !.data = @ \o Fill(Len(@))] ELSE p

ReturnedOf(s) == [i \in DOMAIN s |-> Returned(s[i].packet)]

(* Where packet i of the compound begins.                                    *)
Start(i) == IF i = 1 THEN 0 ELSE sent[i - 1].end

(* What the builder accepts is read back as it was given, and a compound     *)
(* that is cut yields, in lenient mode, the packets that arrived whole; in   *)
(* strict mode it is accepted where it was cut between two packets only.     *)
CutLeavesPrefix ==
  damage.kind = "cut" =>
    LET whole == {i \in 0 .. Len(sent) : Start(i + 1) =< damage.at}
        got   == ReturnedOf(SubSeq(sent, 1, Max(whole)))
    IN  /\ Ended("lenient") =>
             IF damage.at < HeaderSize THEN parser["lenient"].status = "raised"
             ELSE /\ parser["lenient"].status = "done"
                  /\ parser["lenient"].packets = got
        /\ Ended("strict") =>
             (parser["strict"].status = "done"
                <=> damage.at > 0 /\ damage.at = Start(Max(whole) + 1))

(* Lenient mode: "malformed or unrecognised individual packets are skipped". *)
(* A damaged byte that is not of a length field costs or changes the packet  *)
(* it lies in and no other: the rest of the compound is returned.            *)
DamageIsContained ==
  damage.kind = "flip" /\ Ended("lenient") =>
    \A i \in 1 .. Len(sent) :
      damage.at \in Start(i) .. Start(i + 1) - 1 =>
        LET got    == parser["lenient"].packets
            before == ReturnedOf(SubSeq(sent, 1, i - 1))
            after  == ReturnedOf(SubSeq(sent, i + 1, Len(sent)))
        IN  damage.at \notin {Start(i) + 2, Start(i) + 3} =>
              /\ parser["lenient"].status = "done"
              /\ Len(got) \in {Len(sent) - 1, Len(sent)}
              /\ IsPrefix(before, got)
              /\ IsSuffix(after, got)

(* The modes differ over damage only: what strict mode returns, lenient mode *)
(* returns too; where strict mode raises, lenient mode has or will come by   *)
(* the packets that strict mode had parsed by then; and lenient mode raises  *)
(* on nothing that strict mode accepts.                                      *)
ModesAgree ==
  LET s == parser["strict"]
      l == parser["lenient"]
  IN  Ended("lenient") =>
        /\ IsPrefix(s.packets, l.packets)
        /\ s.status = "done" => l.status = "done" /\ l.packets = s.packets

(* Whatever arrives, each parser returns or raises: no length field holds    *)
(* the loop in place.                                                        *)
Terminates ==
  phase = "parsing" ~> \A m \in Mode : parser[m].status # "parsing"
=============================================================================
