------------------------------- MODULE UdpFrame -------------------------------
(* A UDP payload from encapsulate_udp to decapsulate_udp.  A caller has a    *)
(* payload wrapped into a frame; networks on the way put their own layers    *)
(* into such a frame (VLAN tags, IPv4 options, IPv6 extension headers) or    *)
(* pad it, and a capture may cut it; decapsulate_udp walks what is left, one *)
(* action for one layer or one turn of a loop.                               *)
(*                                                                           *)
(* A byte is a number below 256, an address the sequence of its bytes;       *)
(* offsets count from 0, as in the code.                                     *)
EXTENDS Integers, SequencesExt

CONSTANTS
  Request,       \* what callers may ask encapsulate_udp for
  Chain,         \* sequences of IPv6 extension headers
  Filler,        \* numbers of bytes that pad a frame
  None,          \* Python's None
  LengthMax,     \* what a 16-bit length field holds
  MaxTags        \* bound: VLAN tags put into a frame

Byte == 0 .. 255

Address == [1 .. 4 -> Byte] \cup [1 .. 16 -> Byte]

EN10MB == 1
RAW == 101
LINUX_SLL == 113

IPv4 == 2048          \* 0x0800
IPv6 == 34525         \* 0x86DD
VLAN == 33024         \* 0x8100

UDP == 17
FRAGMENT == 44
ExtensionHeader == {0, 43, FRAGMENT, 60}

AllOnes == (256 * 255) + 255   \* 0xFFFF, a 16-bit word

MaxVlanTags == 2
MaxExtensionHeaders == 8

(* An address that cannot be parsed is None.  Behind the header that names   *)
(* UDP there is the datagram, not one more extension header.                 *)
ASSUME UdpFrameAssumption ==
  /\ Request \subseteq [link: Int, src: Address \cup {None},
                       dst: Address \cup {None},
                       src_port: Int, dst_port: Int, payload: Seq(Byte)]
  /\ Chain \subseteq Seq([header: Byte \ {UDP}, units: Byte])
  /\ Filler \subseteq Nat
  /\ LengthMax \in Nat /\ 40 =< LengthMax /\ LengthMax =< AllOnes
  /\ MaxTags \in Nat

VARIABLES
  request,       \* what was asked of encapsulate_udp, or None
  phase,         \* "idle", "refused", "sent", "captured"
  frame,         \* the frame: bytes
  way,           \* history: the layers that networks put into it
  walk           \* the state of decapsulate_udp

vars == <<request, phase, frame, way, walk>>

Zeros(n) == [i \in 1 .. n |-> 0]

Word(n) == <<n \div 256, n % 256>>

WordAt(bytes, at) == (256 * bytes[at + 1]) + bytes[at + 2]

Init ==
  /\ request = None
  /\ phase = "idle"
  /\ frame = <<>>
  /\ way = [tags |-> 0, inner |-> 0, headers |-> 0, known |-> TRUE, captured |-> 0]
  /\ walk = [stage |-> "link", at |-> 0, end |-> 0, type |-> 0, turns |-> 0,
             src |-> <<>>, dst |-> <<>>, result |-> None]

----------------------------------------------------------------------------
(* encapsulate_udp                                                           *)

Version(address) == IF Len(address) = 4 THEN 4 ELSE 6

MaxPayload(version) ==
  IF version = 4 THEN LengthMax - 20 - 8 ELSE LengthMax - 8

Valid(r) ==
  /\ None \notin {r.src, r.dst}
  /\ Version(r.src) = Version(r.dst)
  /\ \A port \in {r.src_port, r.dst_port} : 0 =< port /\ port =< AllOnes
  /\ Len(r.payload) =< MaxPayload(Version(r.src))
  /\ r.link \in {EN10MB, LINUX_SLL, RAW}

SumWords(bytes) ==
  LET padded == bytes \o Zeros(Len(bytes) % 2) IN
  FoldFunction(+, 0, [i \in 1 .. Len(padded) \div 2 |->
                        WordAt(padded, 2 * (i - 1))])

(* Mutated form of Checksum16: the last carry is lost.                       *)
Checksum16NoCarry(bytes) == AllOnes - (SumWords(bytes) % (AllOnes + 1))

Checksum16(bytes) ==
  LET carried[n \in Nat] ==
        IF n =< AllOnes THEN n
        ELSE carried[(n % (AllOnes + 1)) + (n \div (AllOnes + 1))]
  IN  AllOnes - carried[SumWords(bytes)]

PseudoHeader(r, length) ==
  IF Version(r.src) = 4 THEN r.src \o r.dst \o <<0, UDP>> \o Word(length)
  ELSE r.src \o r.dst \o <<0, 0>> \o Word(length) \o <<0, 0, 0, UDP>>

(* A computed checksum of zero is transmitted as all-ones.                   *)
UdpChecksum(r, segment) ==
  LET checksum == Checksum16(PseudoHeader(r, Len(segment)) \o segment)
  IN  IF checksum = 0 THEN AllOnes ELSE checksum

UdpSegment(r) ==
  LET length == 8 + Len(r.payload)
      segment(checksum) ==
        Word(r.src_port) \o Word(r.dst_port) \o Word(length) \o Word(checksum)
          \o r.payload
  IN  segment(UdpChecksum(r, segment(0)))

Ipv4Header(r, segment) ==
  LET header(checksum) ==
        <<69, 0>> \o Word(20 + Len(segment)) \o <<0, 0, 0, 0, 64, UDP>>
          \o Word(checksum) \o r.src \o r.dst
  IN  header(Checksum16(header(0)))

Ipv6Header(r, segment) ==
  <<96, 0, 0, 0>> \o Word(Len(segment)) \o <<UDP, 64>> \o r.src \o r.dst

LinkHeader(r) ==
  LET ethertype == IF Version(r.src) = 4 THEN IPv4 ELSE IPv6 IN
  CASE r.link = EN10MB    -> Zeros(5) \o <<1>> \o Zeros(5) \o <<2>> \o Word(ethertype)
    [] r.link = LINUX_SLL -> <<0, 0, 0, 1>> \o Zeros(10) \o Word(ethertype)
    [] r.link = RAW       -> <<>>

Packet(r) ==
  LET segment == UdpSegment(r) IN
  (IF Version(r.src) = 4 THEN Ipv4Header(r, segment) ELSE Ipv6Header(r, segment))
    \o segment

Encapsulate(r) ==
  /\ phase = "idle"
  /\ Valid(r)
  /\ request' = r
  /\ phase' = "sent"
  /\ frame' = LinkHeader(r) \o Packet(r)
  /\ UNCHANGED <<way, walk>>

(* EncapsulationError.                                                       *)
EncapsulationError(r) ==
  /\ phase = "idle"
  /\ ~Valid(r)
  /\ request' = r
  /\ phase' = "refused"
  /\ UNCHANGED <<frame, way, walk>>

----------------------------------------------------------------------------
(* The networks that the frame passes, and the capture.                      *)

(* Where the IP header begins.                                               *)
IpStart == Len(LinkHeader(request)) + (4 * way.tags)

(* A switch puts an 802.1Q tag behind the addresses.                         *)
Tag ==
  /\ phase = "sent" /\ request.link = EN10MB
  /\ way.tags < MaxTags
  /\ frame' = SubSeq(frame, 1, 12) \o (Word(VLAN) \o <<0, 5>>)
                \o SubSeq(frame, 13, Len(frame))
  /\ way' = [way EXCEPT !.tags = @ + 1]
  /\ UNCHANGED <<request, phase, walk>>

(* A field of the IP header gets another value, and bytes are inserted       *)
(* behind the first length bytes of it.                                      *)
Inserted(length, bytes, field, value) ==
  LET end == IpStart + length
      ip == [frame EXCEPT ![IpStart + field + 1] = value]
  IN  SubSeq(ip, 1, end) \o bytes \o SubSeq(ip, end + 1, Len(ip))

(* An IPv4 router adds an option of a word.                                  *)
AddOption ==
  /\ phase = "sent" /\ Version(request.src) = 4
  /\ way.headers = 0
  /\ LET longer == Inserted(20, <<1, 1, 1, 1>>, 0, 70)
         total == WordAt(frame, IpStart + 2) + 4
     IN  /\ total =< LengthMax
         /\ frame' = [longer EXCEPT ![IpStart + 3] = total \div 256,
                                    ![IpStart + 4] = total % 256]
  /\ way' = [way EXCEPT !.headers = 1, !.inner = 4]
  /\ UNCHANGED <<request, phase, walk>>

(* A header names the type of the next one; a fragment header is that of a   *)
(* first fragment.                                                           *)
HeaderBytesOf(chain, i) ==
  LET next == IF i = Len(chain) THEN UDP ELSE chain[i + 1].header IN
  <<next, chain[i].units>>
    \o (IF chain[i].header = FRAGMENT THEN <<0, 1>> \o Zeros(4)
        ELSE Zeros(6 + (8 * chain[i].units)))

(* An IPv6 source puts a chain of extension headers before the datagram, of  *)
(* types that decapsulate_udp knows or not.                                  *)
AddExtensions(chain) ==
  /\ phase = "sent" /\ Version(request.src) = 6
  /\ way.headers = 0 /\ chain # <<>>
  /\ LET bytes == FlattenSeq([i \in DOMAIN chain |-> HeaderBytesOf(chain, i)])
     IN  /\ frame' = Inserted(40, bytes, 6, chain[1].header)
         /\ way' = [way EXCEPT
                      !.headers = Len(chain),
                      !.inner   = Len(bytes),
                      !.known   = \A i \in DOMAIN chain :
                                    chain[i].header \in ExtensionHeader]
  /\ UNCHANGED <<request, phase, walk>>

(* The frame reaches the wire, with padding to the link's shortest frame,    *)
(* and its first n bytes are captured.                                       *)
Capture(filler, n) ==
  /\ phase = "sent"
  /\ n =< Len(frame) + filler
  /\ phase' = "captured"
  /\ frame' = SubSeq(frame \o Zeros(filler), 1, n)
  /\ way' = [way EXCEPT !.captured = n]
  /\ UNCHANGED <<request, walk>>

----------------------------------------------------------------------------
(* decapsulate_udp.  What is sliced off a memoryview is an interval of the   *)
(* frame, from walk.at to walk.end.                                          *)

At(stage) == phase = "captured" /\ walk.stage = stage

Size == walk.end - walk.at

ByteAt(offset) == frame[walk.at + offset + 1]

To(w) == walk' = w /\ UNCHANGED <<request, phase, frame, way>>

NotApplicable == To([walk EXCEPT !.stage = "done"])

(* Stripped of its link layer, the packet is of this type and starts here.   *)
Strip(type, at, stage) ==
  To([walk EXCEPT !.stage = stage, !.type = type, !.at = at,
                  !.end = Len(frame), !.turns = MaxVlanTags])

StripEthernet ==
  /\ At("link") /\ request.link = EN10MB
  /\ IF Len(frame) < 14 THEN NotApplicable
     ELSE Strip(WordAt(frame, 12), 14, "tags")

StripTag ==
  /\ At("tags") /\ walk.type = VLAN /\ walk.turns > 0
  /\ IF Size < 4 THEN NotApplicable
     ELSE To([walk EXCEPT !.type  = WordAt(frame, walk.at + 2),
                          !.at    = @ + 4,
                          !.turns = @ - 1])

TagsStripped ==
  /\ At("tags") /\ (walk.type # VLAN \/ walk.turns = 0)
  /\ To([walk EXCEPT !.stage = "network"])

StripSll ==
  /\ At("link") /\ request.link = LINUX_SLL
  /\ IF Len(frame) < 16 THEN NotApplicable
     ELSE Strip(WordAt(frame, 14), 16, "network")

StripRaw ==
  /\ At("link") /\ request.link = RAW
  /\ IF Len(frame) < 1 \/ frame[1] \div 16 \notin {4, 6} THEN NotApplicable
     ELSE Strip(IF frame[1] \div 16 = 4 THEN IPv4 ELSE IPv6, 0, "network")

NotIp ==
  /\ At("network") /\ walk.type \notin {IPv4, IPv6}
  /\ NotApplicable

(* The end that a length field sets, if it is one that can be.               *)
Within(length, least) ==
  IF least =< length /\ length =< Size THEN walk.at + length ELSE walk.end

DecapIpv4 ==
  /\ At("network") /\ walk.type = IPv4
  /\ IF Size < 20 THEN NotApplicable
     ELSE LET header_len == 4 * (ByteAt(0) % 16) IN
          IF \/ ByteAt(0) \div 16 # 4
             \/ header_len < 20
             \/ header_len > Size
             \/ ByteAt(9) # UDP
          THEN NotApplicable
          ELSE To([walk EXCEPT
                     !.stage = "udp",
                     !.src   = SubSeq(frame, walk.at + 13, walk.at + 16),
                     !.dst   = SubSeq(frame, walk.at + 17, walk.at + 20),
                     !.end   = Within(WordAt(frame, walk.at + 2), header_len),
                     !.at    = @ + header_len])

DecapIpv6 ==
  /\ At("network") /\ walk.type = IPv6
  /\ IF Size < 40 THEN NotApplicable
     ELSE IF ByteAt(0) \div 16 # 6 THEN NotApplicable
     ELSE To([walk EXCEPT
                !.stage = "extensions",
                !.src   = SubSeq(frame, walk.at + 9, walk.at + 24),
                !.dst   = SubSeq(frame, walk.at + 25, walk.at + 40),
                !.type  = ByteAt(6),
                !.at    = @ + 40,
                !.turns = MaxExtensionHeaders])

(* Mutated form of ExtensionSize: a fragment header has a length field.      *)
ExtensionSizeAnyHeader == 8 * (ByteAt(1) + 1)

ExtensionSize ==
  IF walk.type = FRAGMENT THEN 8 ELSE 8 * (ByteAt(1) + 1)

SkipExtension ==
  /\ At("extensions") /\ walk.type \in ExtensionHeader /\ walk.turns > 0
  /\ IF Size < 2 THEN NotApplicable
     ELSE IF Size < ExtensionSize THEN NotApplicable
     ELSE To([walk EXCEPT !.type  = ByteAt(0),
                          !.at    = @ + ExtensionSize,
                          !.turns = @ - 1])

ExtensionsSkipped ==
  /\ At("extensions") /\ (walk.type \notin ExtensionHeader \/ walk.turns = 0)
  /\ IF walk.type # UDP THEN NotApplicable
     ELSE To([walk EXCEPT !.stage = "udp"])

DecapUdp ==
  /\ At("udp")
  /\ IF Size < 8 THEN NotApplicable
     ELSE To([walk EXCEPT
                !.stage  = "done",
                !.result = [src      |-> walk.src,
                            dst      |-> walk.dst,
                            src_port |-> WordAt(frame, walk.at),
                            dst_port |-> WordAt(frame, walk.at + 2),
                            payload  |-> SubSeq(frame, walk.at + 9,
                              Within(WordAt(frame, walk.at + 4), 8))]])

Decapsulate ==
  \/ StripEthernet \/ StripTag \/ TagsStripped \/ StripSll \/ StripRaw
  \/ NotIp \/ DecapIpv4 \/ DecapIpv6 \/ SkipExtension \/ ExtensionsSkipped
  \/ DecapUdp

Next ==
  \/ \E r \in Request : Encapsulate(r) \/ EncapsulationError(r)
  \/ Tag
  \/ AddOption
  \/ \E chain \in Chain : AddExtensions(chain)
  \/ \E filler \in Filler :
       \E n \in 0 .. Len(frame) + filler : Capture(filler, n)
  \/ Decapsulate

Spec == Init /\ [][Next]_vars

----------------------------------------------------------------------------
(* Bytes before the payload in the frame that was sent.                      *)
HeaderBytes ==
  IpStart + (IF Version(request.src) = 4 THEN 20 ELSE 40) + way.inner + 8

(* "The inverse of decap.decapsulate_udp", whatever networks put into the    *)
(* frame: the payload comes back with its addresses and ports, without the   *)
(* padding behind it, up to the byte where the capture was cut; and there is *)
(* no result exactly when the cut is before the payload, there are more      *)
(* layers than the walk goes through, or one of a type it does not know.     *)
PayloadComesBack ==
  phase = "captured" /\ walk.stage = "done" =>
    IF \/ way.captured < HeaderBytes
       \/ way.tags > MaxVlanTags
       \/ Version(request.src) = 6 /\ way.headers > MaxExtensionHeaders
       \/ ~way.known
    THEN walk.result = None
    ELSE walk.result =
           [src      |-> request.src,
            dst      |-> request.dst,
            src_port |-> request.src_port,
            dst_port |-> request.dst_port,
            payload  |-> LET n == way.captured - HeaderBytes IN
                         IF n < Len(request.payload)
                         THEN SubSeq(request.payload, 1, n)
                         ELSE request.payload]

(* A frame that is built "opens cleanly": no length in it is more than its   *)
(* field holds, and the checksum that a receiver computes over the IPv4      *)
(* header, and over datagram and pseudo-header, with the checksum field      *)
(* included, is all-ones.  (Sums are compared modulo 2^16 - 1, which is what *)
(* one's complement addition computes.)                                      *)
FramesOpenCleanly ==
  phase = "sent" /\ way.headers = 0 =>
    LET v4 == Version(request.src) = 4
        ip == SubSeq(frame, IpStart + 1, Len(frame))
        segment == SubSeq(ip, (IF v4 THEN 20 ELSE 40) + 1, Len(ip))
    IN  /\ Len(IF v4 THEN ip ELSE segment) =< LengthMax
        /\ WordAt(segment, 6) # 0
        /\ SumWords(PseudoHeader(request, Len(segment)) \o segment) % AllOnes = 0
        /\ v4 => SumWords(SubSeq(ip, 1, 20)) % AllOnes = 0
=============================================================================
