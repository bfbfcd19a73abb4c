------------------------------ MODULE RtpWire ------------------------------
(* From builder to parser: a caller sets up an RtpBuilder in any order and   *)
(* builds a packet; a capture may cut it short (pcap's snaplen); or bytes    *)
(* that no builder made turn up instead.  Whatever is on the wire is what    *)
(* parse_rtp and parse_rtp_lenient are given.                                *)
EXTENDS RtpParser

CONSTANTS
  Version, Csrc, ExtBytes, Payload, Padding,   \* what callers may ask for
  ByteValue,     \* values of payload bytes and other bytes not modelled
  Noise          \* datagrams that no builder made

(* The state of an RtpBuilder: numbers of CSRCs and of bytes stand for data. *)
BuilderType == [version: Int, padding: Int, csrc: Nat,
                has_ext: BOOLEAN, ext: Nat, payload: Nat]

ASSUME RtpWireAssumption ==
  /\ Version \subseteq Int
  /\ Csrc \subseteq Nat
  /\ ExtBytes \subseteq Nat
  /\ Payload \subseteq Nat
  /\ Padding \subseteq Int
  /\ ByteValue \subseteq Byte
  /\ Noise \subseteq DatagramType
  /\ None \notin DatagramType
  /\ None \notin BuilderType

VARIABLES
  builder,   \* the RtpBuilder
  sent,      \* the builder's state that the packet was built from, or None
  wire       \* the datagram to be parsed, or None

vars == <<builder, sent, wire>>

NewBuilder ==
  [version |-> 2, padding |-> 0, csrc |-> 0,
   has_ext |-> FALSE, ext |-> 0, payload |-> 0]

Init ==
  /\ builder = NewBuilder
  /\ sent = None
  /\ wire = None

----------------------------------------------------------------------------
(* RtpBuilder                                                                *)

(* Mutated form of Valid: one CSRC more than the count field can say.        *)
ValidCsrc16(b) ==
  /\ b.version \in 0 .. 3
  /\ b.csrc =< 16
  /\ b.has_ext => b.ext % 4 = 0 /\ b.ext \div 4 =< U16
  /\ b.padding # 0 => b.padding \in 1 .. U8

(* Mutated form of Valid: padding has no upper limit.                        *)
ValidLongPadding(b) ==
  /\ b.version \in 0 .. 3
  /\ b.csrc =< 15
  /\ b.has_ext => b.ext % 4 = 0 /\ b.ext \div 4 =< U16
  /\ b.padding >= 0

(* _validate() does not raise.                                               *)
Valid(b) ==
  /\ b.version \in 0 .. 3
  /\ b.csrc =< 15
  /\ b.has_ext => b.ext % 4 = 0 /\ b.ext \div 4 =< U16
  /\ b.padding # 0 => b.padding \in 1 .. U8

ExtLength(b) == IF b.has_ext THEN 4 + b.ext ELSE 0

HeaderLength(b) == FixedHeaderSize + (4 * b.csrc) + ExtLength(b)

Length(b) == HeaderLength(b) + b.payload + b.padding

ExtWords(b) == IF b.has_ext THEN b.ext \div 4 ELSE 0

(* The values that byte number n - 1 of the packet may have.                 *)
LastBytes(b, n) ==
  IF n > HeaderLength(b) + b.payload
  THEN {IF n = Length(b) THEN b.padding ELSE 0}
  ELSE IF b.has_ext /\ n = FixedHeaderSize + (4 * b.csrc) + 4
  THEN {ExtWords(b) % 256}
  ELSE IF b.has_ext /\ n = FixedHeaderSize + (4 * b.csrc) + 3
  THEN {ExtWords(b) \div 256}
  ELSE ByteValue

(* The packet that build() joins together, whose last byte is last.          *)
Built(b, last) ==
  [length    |-> Length(b),
   version   |-> b.version,
   padding   |-> b.padding > 0,
   extension |-> b.has_ext,
   cc        |-> b.csrc % 16,
   ext_words |-> ExtWords(b),
   last      |-> last]

(* The with_...() methods.                                                   *)
With(b) == wire = None /\ builder' = b /\ UNCHANGED <<sent, wire>>

WithVersion == \E v \in Version : With([builder EXCEPT !.version = v])

WithCsrc == \E n \in Csrc : With([builder EXCEPT !.csrc = n])

WithExtension ==
  \E n \in ExtBytes : With([builder EXCEPT !.has_ext = TRUE, !.ext = n])

WithPayload == \E n \in Payload : With([builder EXCEPT !.payload = n])

WithPadding == \E n \in Padding : With([builder EXCEPT !.padding = n])

Build ==
  /\ wire = None
  /\ Valid(builder)
  /\ \E last \in LastBytes(builder, Length(builder)) :
       wire' = Built(builder, last)
  /\ sent' = builder
  /\ UNCHANGED builder

----------------------------------------------------------------------------
(* The wire                                                                  *)

(* Only the first bytes of the packet are captured, or none.                 *)
Cut ==
  /\ sent # None
  /\ wire # None
  /\ \E n \in 0 .. wire.length - 1 :
       \E last \in LastBytes(sent, n) :
         wire' = [wire EXCEPT !.length = n, !.last = last]
  /\ UNCHANGED <<builder, sent>>

(* Something arrives that is not from this builder.                          *)
Intrude ==
  /\ wire = None
  /\ builder = NewBuilder
  /\ wire' \in Noise
  /\ sent' = None
  /\ UNCHANGED builder

(* The packet has been parsed; the caller goes on with the same builder.     *)
Consume ==
  /\ wire # None
  /\ wire' = None
  /\ sent' = None
  /\ UNCHANGED builder

Next ==
  \/ WithVersion \/ WithCsrc \/ WithExtension \/ WithPayload \/ WithPadding
  \/ Build \/ Cut \/ Intrude \/ Consume

Spec == Init /\ [][Next]_vars

----------------------------------------------------------------------------
TypeOK ==
  /\ builder \in BuilderType
  /\ sent \in BuilderType \cup {None}
  /\ wire \in DatagramType \cup {None}
  /\ sent # None => wire # None

(* The datagram on the wire is parsed without an exception in this mode.     *)
Accepted(mode) == wire # None /\ ~Raises(wire, mode)

(* build_packet(), "Build then parse, so the result matches what parse_rtp   *)
(* would produce": what was asked of the builder is what strict parsing      *)
(* finds, whatever the payload's bytes are.                                  *)
RoundTrip ==
  sent # None /\ sent.version = 2 /\ wire.length = Length(sent) =>
    /\ Accepted("strict")
    /\ Parse(wire) = [version          |-> 2,
                      csrc             |-> sent.csrc,
                      header_extension |-> IF sent.has_ext THEN ExtWords(sent)
                                           ELSE None,
                      payload_start    |-> HeaderLength(sent),
                      payload_end      |-> HeaderLength(sent) + sent.payload,
                      padding_size     |-> sent.padding]

(* The parts of a parsed packet tile the datagram, in either mode and after  *)
(* any repair: header_size, computed from the parts, is where the payload    *)
(* begins; the payload never ends before it begins; padding is the rest.     *)
PartsTile ==
  \A mode \in Mode :
    Accepted(mode) =>
      LET packet == Parse(wire) IN
      /\ HeaderSize(packet) = packet.payload_start
      /\ packet.payload_start =< packet.payload_end
      /\ packet.payload_end + packet.padding_size = wire.length

(* Strict mode raises exactly where lenient mode has something to repair: it *)
(* accepts a datagram if and only if the packet that lenient mode returns    *)
(* honours all that the first byte announces.                                *)
StrictIffHonoured ==
  wire # None =>
    (Accepted("strict") <=>
       /\ Accepted("lenient")
       /\ Parse(wire).version = 2
       /\ Parse(wire).csrc = wire.cc
       /\ (Parse(wire).header_extension # None) = wire.extension
       /\ (Parse(wire).padding_size # 0) = wire.padding)

(* A packet cut short is never misread by strict mode: if it is accepted at  *)
(* all its CSRC list and extension are whole and its payload begins where it *)
(* did.  Lenient mode may repair a header that was cut, but one that arrived *)
(* whole it reads as it was built.                                           *)
HeaderSurvivesCut ==
  \A mode \in Mode :
    /\ sent # None
    /\ Accepted(mode)
    /\ mode = "lenient" => wire.length >= HeaderLength(sent)
    => /\ Parse(wire).csrc = sent.csrc
       /\ HeaderSize(Parse(wire)) = HeaderLength(sent)
       /\ Parse(wire).payload_start = HeaderLength(sent)
=============================================================================
