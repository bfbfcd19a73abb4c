# rtpkit, specified

TLA+ specifications of [rtpkit](../src/README.md), a Python library that parses
and builds RTP and RTCP packets, reads and writes capture files, and analyses
streams. Every definition is translated from the source under `src/src/rtpkit`
(paths below are relative to it); `PROJECT.json` maps each one to its lines.

- [1. The system](#1-the-system): components, state, operations, what is hard
- [2. The modules](#2-the-modules): how specification and code correspond
- [3. The runs](#3-the-runs): what TLC checks, bounds, fairness
- [4. The proofs](#4-the-proofs): what holds for every value of the constants
- [5. Where the code and its documentation disagree](#5-where-the-code-and-its-documentation-disagree)
- [6. What is not modelled](#6-what-is-not-modelled)
- [7. Where the project stands](#7-where-the-project-stands)

## 1. The system

Data flows one way through the library. A caller wires the parts together;
no part calls back, there are no threads, and the only suspended computations
are the capture readers, which are generators.

```
 capture file --> read_capture --> read_pcap / read_pcapng --> frames
                                                                 |
 encapsulate_udp, write_pcap(ng)                          decapsulate_udp
        ^                                                        |
        |                                                   UDP payloads
 RtpBuilder, build_rtcp                                          |
        |                              +-------------------------+
        +---- datagrams ------------>  parse_rtp / parse_rtcp (strict, lenient)
                                       |              |
                          RtpFlowClassifier      RtpStreamTracker
```

| Component | State | Operations | Interacts with |
|---|---|---|---|
| stream tracker (`stream/tracker.py`, `model/stream.py`) | per SSRC: first and highest extended number, counters, jitter, retained packets | `observe`, `stats`, `all_stats`, `ordered_packets`, `ssrcs` | fed parsed packets and arrival times from a capture or a socket |
| flow classifier (`detection/flow.py`) | counters, the first SSRC, the last number, two latched flags, the set of distinct numbers | `observe`, `classify` | calls `parse_rtp` |
| heuristics (`detection/heuristics.py`) | none | `looks_like_rtp`, `looks_like_rtcp` | call the parsers |
| RTP parser (`parser/rtp_parser.py`, `model/packet.py`) | none; returns views of the caller's buffer | `parse_rtp`, `parse_rtp_lenient` | called by classifier, builder, heuristics |
| RTP builder (`builder/rtp_builder.py`) | the fields set so far | `with_...`, `build`, `build_packet` | calls the parser and the extension builder |
| header extension elements (`model/extension.py`) | none | `parse_extension_elements`, `build_header_extension` | |
| RTCP parser (`parser/rtcp_parser.py`, `model/rtcp.py`) | a loop over a compound packet | `parse_rtcp`, `parse_rtcp_lenient` | |
| RTCP builder (`builder/rtcp_builder.py`) | none | `build_rtcp` | inverse of the parser |
| pcapng reader (`io/pcapng_reader.py`) | offset, byte order, the section's interfaces | `read_pcapng`, `read_pcapng_lenient` (generators) | |
| pcap reader (`io/pcap_reader.py`) | offset | `read_pcap`, `read_pcap_lenient` (generators) | |
| capture dispatch (`io/capture.py`) | none | `read_capture`, `read_capture_lenient` | choose a reader by magic bytes |
| writers (`io/pcap_writer.py`, `io/pcapng_writer.py`) | the table of link types, within a call | `write_pcap`, `write_pcapng` | inverses of the readers |
| decapsulation, encapsulation (`io/decap.py`, `io/encap.py`) | none | `decapsulate_udp`, `encapsulate_udp` | inverses |
| G.711 (`codec/g711.py`) | tables computed at import | `encode_...`, `decode_...` | |
| fuzz harness (`fuzz/`) | a random generator, crash list | mutators, `fuzz_parser` | calls any parser |

What is hard here is not concurrency but **history, order and damaged input**:

- *Sequence numbers wrap.* The tracker recovers the sender's order from 16 bits
  relative to the highest number so far; one wrong decision shifts everything
  after it. Packets arrive late, twice, or never, in any combination with a wrap.
  Correct means: the tracker's extended numbers keep the sender's distances,
  copies and late packets are told from new ones, what is lost is counted.
- *Incremental verdicts.* The classifier forgets packets and keeps flags. Correct
  means that the verdict is the one that the whole flow deserves.
- *Strict and lenient mode* of every parser share one loop. Correct means:
  lenient mode gives up nothing that strict mode accepts, repairs exactly what
  strict mode refuses, and after a repair everything behind it is in its place.
- *Lengths read from the input* drive every offset. Correct means: every loop
  ends, and the parts of a packet neither overlap nor leave gaps.
- *Builders and parsers are inverses* up to the limits of the wire format.
- *Generators* stay suspended while others run. Correct means that what one has
  read does not depend on another.

`PROJECT.json` lists each hazard at its line with the properties that cover it.

## 2. The modules

### SequenceNumbers, StreamTracker

`Extend` is `_StreamState._extend`; `WrappedDelta` is the classifier's
`_wrapped_delta`. The modulus, 65536 in the code, is `2 * SeqModHalf`.

`StreamTracker` is `RtpStreamTracker`. Its one variable, `states`, is
`_states`; its one action, `Observe(packet, arrival)`, is `observe()` whole: find
or create the source's state, extend the number, count, retain, raise the
highest, update the jitter. `ExpectedCount`, `LostCount` and `OrderedPackets`
are `snapshot()` and `ordered_packets()`, whose sort is given by the rank of each
key: how many of the keys are below it.
Abstractions: payloads are values that tell copies apart; arrival times are in
timestamp units; the jitter is an exact fraction where the code has a float.

### OneSender, RtpSession, IdealReceiver, PacedSession

The tracker alone accepts any numbers, so what it computes can be judged only
against a sender. `OneSender` names the source that is it, and what the tracker
keeps of that source. `RtpSession` has it number packets consecutively from any
start, and adds a network that loses, repeats and reorders them (`Deliver` feeds
`Observe`). `MaxAhead` and `MaxBehind` bound how far an arrival may be from the
furthest one. The payload of a packet is its place in the sender's order, which
the tracker never looks at. `IdealReceiver` is the abstract specification: a
receiver that knows each packet's place, and therefore has no arithmetic to get
wrong. `RtpSession!ImplementsIdealReceiver` is the refinement.

`PacedSession` adds time instead: packets are stamped at a fixed spacing, take
varying delays, and may overtake each other; timestamps start anywhere and wrap.

### FlowClassifier

`RtpFlowClassifier`, a variable for each field. `observe()` has three outcomes,
an action for each: `parse_rtp` raises (`ObserveGarbage`), the payload type may
be RTCP's (`ObserveCollision`), or the packet counts (`ObserveEvidence`).
`IsLikelyRtp` is `classify()`. The history variable `evidence` keeps what the
code forgets, for the properties to compare with.

### PcapngReader

`_read_pcapng` as a generator, once for each mode over the same file; the two
consumers interleave in every way. A file is a sequence of abstract blocks; of a
block the model keeps its type, whether its declared length can be honoured,
whether its body parses, and for interfaces and packets what they declare and
refer to. `ReadBlock(m)` is one turn of the loop; its disjuncts are the loop's
paths, in the order of the code's tests. `Section` and `Declares` say
what the file means independently of how it is read.

### RtpParser, RtpWire

`RtpParser` translates `_parse`: of a datagram it keeps the length and the bytes
that decide the layout. `Violation` is what strict mode raises, first fault
first; `Parse` the packet that is returned, its views given by their bounds, with
the repairs of lenient mode; `HeaderSize` is `RtpPacket.header_size`, which the
code computes from the parts and not from an offset.

`RtpWire` puts an `RtpBuilder` in front of it, with an action for each setter
that bears on the layout, and `Build`; a capture may cut the packet at any byte
(`Cut`, as `fuzz.mutate.truncate` does), and bytes that no builder made may
arrive instead (`Intrude`, `random_bytes`). `LastBytes` is the point: where a
packet ends decides what will be taken for its padding count.
Left out: marker, payload type, sequence number, timestamp and SSRC, which are
copied and have no bearing on any other field.

### RtcpFormat, RtcpCompound

`RtcpFormat` holds the wire format as operators over byte sequences: `Buildable`
and `Built` are `_build_one` with its five serialisers, `ParseOne` is `_parse_one`
with its five parsers, a malformed body being a value. `RtcpCompound` is the
state machine around them: `BuildOne` is a turn of `build_rtcp`'s generator,
`BuildError` its failure; the datagram arrives whole or cut (`Cut`), or with a bit
flipped (`FlipBit`, as `fuzz.mutate.bit_flip`); then `_parse_compound` reads it
strictly and, when that has returned or raised, leniently. `Parse(m)` is one turn
of the loop, a disjunct for each check, in the code's order. The variable `sent`
remembers where each packet ends, so that properties can say which packet a cut
or a flipped bit lies in. Left out of the contents: fields of reports and sender
information that are copied (`rest`).

### ExtensionElements

`BuildElement`, `BuildError` and `CloseExtension` are `build_header_extension`,
element by element; `ForeignExtension` gives the parser the bytes of another
implementation instead. `Scan` is one turn of the loop of `_parse_one_byte` or
`_parse_two_byte`: the two differ in `Id`, `DataStart`, `DataLength` and
`Reserved` only. The history variable `heads` keeps where each element was
found.

### UdpFrame

`Encapsulate` is `encapsulate_udp`, byte for byte, checksums included; in the way
of the frame a switch tags it, a router adds an option, a source chains extension
headers of types that are walked over or not, links pad it and a capture cuts it
(all external); `Decapsulate` is
`decapsulate_udp`, a step for each layer and for each turn of its two loops. A
memoryview is an interval of the frame (`walk.at`, `walk.end`). `LengthMax` stands
for the 65535 of a 16-bit length, so that the limits are within reach.

### CaptureFiles

`WritePcap` and `WritePcapng` are the writers: the link type rule, the table of
interfaces, `_split_timestamp` and the two halves of a pcapng time, padding, and
what `struct.pack` refuses. `AnotherToolWrites` records the same packets with a
finer clock, as read by the nanosecond magics of pcap and by `if_tsresol`.
`CutFile` cuts at any byte. `Open` is the dispatch and the check of the first
header; the reading actions are the loops of `_read_pcap` and, for blocks as the
writers make them, `_read_pcapng` (`PcapngReader` has every other block).
`CopyCapture` hands what was read to a writer again. Time is counted in fractions
of a microsecond, exactly; the code's floats are not modelled. `Word` stands for
2^32, `MicroPerSecond` for 10^6: carries and overflows are a few units away.
A file is a sequence of blocks with their sizes; byte order and an unknown magic
are left out.

### Mutants

Definitions introduced as "Mutated form of ..." are not part of any
specification. Each changes one definition as a plausible bug would; a property
is kept only if such a change violates it (`PROJECT.json`, "mutants").

## 3. The runs

| Run | Question | Bounds |
|---|---|---|
| `tracker` | what does the tracker count, file and report for any arrivals, and do sources disturb each other? | 5 arrivals of 2 sources, 8 numbers, 2 payloads |
| `session_window` | does it recover the sender's order? | 9 packets sent, 6 arrivals, 6 numbers, up to 2 ahead and 2 behind |
| `flow_classifier` | is the incremental verdict the verdict on the flow? | 5 payloads, 6 numbers, 2 sources, threshold 1, minimum 3 |
| `pcapng_readers` | attribution, agreement of the modes, termination | files of up to 4 blocks out of 14 |
| `paced_jitter` | is the jitter RFC 3550's? | 5 packets, 4 arrivals, delays 0, 1, 5 |
| `rtp_wire` | is what was built read back, and what is damaged never misread? | values at, around and beyond each field's limits; every other datagram of up to 26 bytes |
| `rtcp` | does a compound come back; what does a cut or a flipped bit cost; do both parsers end? | up to 3 packets out of 21, damage in compounds of up to 28 bytes |
| `extension_elements` | do elements come back; is every body tiled; does the scan end? | up to 3 elements out of 11; every foreign body of up to 5 bytes out of 5 values |
| `udp_frames` | does a payload come back through whatever networks add; are lengths and checksums right? | 3 link types, both IP versions, up to 3 tags, chains of up to 9 headers, with one of another type behind them or not, every cut |
| `capture_files` | do packets come back from both formats; is a cut noticed? | up to 3 packets out of 7, every cut, copied any number of times |

Two more runs end in a violation, on purpose; see section 5.

Why these bounds are enough for the interesting cases to happen:

- The tracker decides by comparing with half the sequence space. With 8 numbers
  and 5 arrivals there are arrivals at every distance, the exact half included,
  wraps forwards and backwards, and more than one cycle; a late packet, a copy
  and a wrap fit into one behaviour, of one source or of two interleaved. The
  session's counter has 6 numbers and up to 9 packets to give them to: it wraps
  from every start. What needs more arrivals than that is proved instead (section 4).
- The classifier's minimum of 3 leaves two payloads to contradict, or to follow,
  a verdict that has been reached.
- Four blocks hold a section, two interfaces, one of them damaged, and a packet;
  or two sections, an interface and a packet.
- In `rtp_wire` a datagram of 26 bytes has room for every part: three CSRCs, or
  an extension, with padding. Larger values act only through comparisons that
  the smaller ones already decide both ways; the proofs have no bound.
- Three RTCP packets give each damaged one a neighbour before and behind. Every
  type occurs with none and some of what it counts, every limit of the builder
  just kept and just missed; compounds of more than 28 bytes are parsed whole.
  The bits flipped are those of the version, the padding flag, and low and middle
  bits of counts, types and lengths.
- The walk over a frame takes two tags and eight headers: three and nine occur.
  One payload is made to bring the UDP checksum to zero, and others are as long
  as the length fields admit, or one byte longer.
- Seven packets in `capture_files` are rounded down and up at a tie, carry into
  the next second, carry out of the last one, exceed a classic file's seconds, are
  negative, or have a link type of more than 16 bits; three are enough for
  two interfaces used in turn, and for records in front of the one cut.

Deadlock is not checked (except in `rtp_wire`) because the bounds, or the end of
a file, stop the models.

**Fairness** is assumed of loops, and of nothing else. `PcapngReader`:
`WF_vars(ReadBlock(m))` says that whoever iterates over a generator goes on to its
end, as `list(...)` and every `for` loop do. `RtcpCompound` and
`ExtensionElements`: `WF_vars(Parse(m))` and `WF_vars(Scan)` say that a call that
has begun runs, being synchronous. `Terminates` and `ScanEnds` then say that no
input can hold a loop in place. What a caller asks for, and what a network does,
need never happen.

## 4. The proofs

Checked by TLAPS, for every sequence space, window, threshold, request, file and
datagram, and (the bounds being constants) for behaviours of any length. Each
module below first proves an inductive invariant, which says what the program's
state means in terms of the history, and reads the properties off it.

**StreamProofs, the tracker.** `ExtendIsNearAndCongruent`: `Extend` returns a
number congruent to the one on the wire and within half the space of the highest.
`ExtendIsExact`: a number closer than half the space is recovered exactly,
however many times the counter has wrapped. Then `TypeCorrect`, `AccountingHolds`,
`KeysMatchWireHolds`, `LossBurstBoundedHolds`, `OutOfOrderBoundsHold`,
`LossReportHolds` and the action properties `HistoryStableHolds` and
`SourcesIndependentHolds`. The inductive
invariant is a conjunction over the sources of their properties: none is
inductive alone, since that nothing lies above the highest number needs that the
highest is among the seen, and the counts need the set of seen numbers to be
finite and to be the domain of the retained packets.

**StreamProofs, RtpSession.** `UnwrapFaithfulHolds`, `LossTrueHolds`,
`OrderedAsSentHolds` and `Refinement`, under the hypothesis `WithinHalf`:
`MaxAhead` and `MaxBehind` are below half the
sequence space, which is what the tracker's docstring asks of the traffic. The
inductive invariant says that every number filed has the distance from the first
one that the sender gave the packet; `ExtendIsExact` carries it over a step. The
hypothesis cannot be weakened: at a distance of exactly half the space the theorem
is false (section 5). For `OrderedAsSent` the ranks of a finite set of keys are
shown to be a bijection onto `1 .. n` that keeps their order (`Ranks`).

**StreamProofs, PacedSession.** `TransitInvariant`, `JitterStaysBounded` and
`JitterIsRfc3550`, under the hypothesis `Unwrapped`: no timestamp reaches the top
of its range. (Where one does, the statement is false: section 5.) The invariant
identifies the transit time that the tracker remembers with the delay of the last
arrival, so that each difference is one of two delays; a bounded difference keeps
a bounded jitter bounded.

**FlowClassifierProofs.** `TypeCorrect`, `SignalsOfEvidenceHolds`,
`VerdictOfEvidenceHolds`, `RefutationIsFinalHolds`. The invariant states what the
forgetful state says of the whole flow: the remembered source is the first
packet's, the last number the last packet's, the set the range of all.

**PcapngReaderProofs.** `TypeInvariant`, `StrictPasses`, `StrictAttributes`,
`LenientPasses`, `LenientAccepts`, `ModesTellOneStory` and the action property
`ReadersAdvance`, for files of any blocks and any number of them, and two
generators interleaved in any way. The invariant: a reader's table holds the
readable interface descriptions of the section its offset lies in, in order, and
what it has yielded are the blocks before its offset that the mode accepts.
`ReadersAdvance` is the safety half of `Terminates`.

**RtcpCompoundProofs.** A step of the loop is first brought into three forms, to
stop, to skip and to take a packet (`TurnStep`). Then three arguments:

- *The two modes.* The invariant `Agree` names the offsets that strict mode has
  walked over; lenient mode stands at one of them, with the packets up to it, or
  has gone on from where strict mode raised. `ModesAgreeHolds` follows, for
  any bytes whatever. `ParsersAdvance` is the safety half of `Terminates`.
- *The builder's packets.* `Joined` says where in the datagram each packet lies,
  and that its bytes are those built but for the one damaged. Hence
  `ParsersStayInStep`: without damage to a length field both parsers stand at heads
  of packets. With the third argument, `CutLeavesPrefixHolds` and
  `DamageIsContainedHolds` follow for compounds of any packets, in any number.
- *One packet.* `PacketsComeBack`: whatever the builder accepts, of any of the five
  types, the body parser gives back as it was. The serializers concatenate, by
  recursion over what the packet holds; report blocks and sources are of one size, so
  that a byte's place says which entry it belongs to (`FlattenedEqual`), and SDES
  chunks and items lie where the sizes of those before them end (`Flattened`).
  The parser reads items by another recursion, which is shown to exist
  (`ReadsExists`), and the items are then found from the last to the first
  (`ItemsComeBack`); the starts of chunks likewise from the first on
  (`ChunksComeBack`). The number of packets lost comes back through its 24 bits in
  two's complement (`BlocksComeBack`).

`RtcpCompoundAssumption` says that packets are records of the five kinds in
`model/rtcp.py`: text, names and data are any bytes, a 32-bit field is four bytes,
and a number whose range the serializer checks is any integer.

**ExtensionElementsProofs.** `RoundTrip`, `ScanTiles`, `TypeInvariant` and the
action property `ScanAdvances`, the safety half of `ScanEnds`. For the tiling the
invariant `Scanned` says that heads and elements follow one another up to the
offset, with only padding between; for the round trip, `Built` keeps where the
builder put each element, and the scan has read exactly those before its offset.

**RtpWireProofs.** `TypeCorrect`, `PartsTileHolds`, `StrictIffHonouredHolds`,
`HeaderSurvivesCutHolds`, `RoundTripHolds`. The tiling and the equivalence of the
modes hold of any datagram whatever. The other two rest on the invariant that what
is on the wire is described by the builder's state it was built from
(`FromBuilder`), or is the beginning of such a packet, whose last byte is known
to be the padding count only while it is whole.

**CaptureFilesProofs.** `InvariantHolds`, `CutIsAlwaysNoticed` and
`CapturesAlwaysComeBack`, for any packets in any number, either format, any cut and
any number of copies. The invariant has three parts: what a file holds (behind its
header blocks each packet in its block, one after the other, up to the cut);
how far the reader is (it stands where a block begins and has yielded what the
blocks before it hold); and, once it has stopped, why (the end of the file, or a
block that the cut goes through).
That `StartOf` grows by the size of each block is what ties offsets to blocks.

**UdpFrameProofs.** `FrameInvariantHolds`, `FramesAlwaysOpenCleanly` and
`PayloadAlwaysComesBack`, for any request, any chain of extension headers, any
number of tags and any cut.

- *The frame.* `Layout` says which bytes lie where: the types in front of the
  IP header, the fields of the header that are read, the extension headers, the
  datagram. It is stated "as far as the frame reaches", so that a cut keeps it. One
  lemma for each thing a network does shows how it moves the layers
  (`TaggedLayout`, `OptionLayout`, `ExtensionsLayout`, `CapturedLayout`).
- *The walk.* The invariant gives each stage the place where it may stand: behind
  so many tags, at the head of the i-th extension header, at the datagram. One
  lemma for each action (`TagStep`, `Ipv4Step`, `ExtensionStep`, ...) shows that it
  goes on to the next place, or gives up because the frame is one that
  `PayloadComesBack` excludes.
- *The checksum.* Adding the carries back keeps the remainder modulo 0xFFFF and
  does not make a sum zero that is not (`CarriedIsFolded`); the complement of the sum
  brings it to a multiple of 0xFFFF (`ChecksumCompletes`), in a field that was
  zero before (`WordFilledIn`) and at an even offset (`PseudoHeaderIs`).

**Recursion and induction.** The library's induction theorems take an operator as a
parameter, which no installed prover can instantiate. The three modules
that need it (RtcpCompoundProofs, CaptureFilesProofs, UdpFrameProofs) therefore prove
induction over sets of numbers (`Induction`) from the well-foundedness of the order,
and then that the recursive function behind an operator (`FlattenSeq`, a sum, the
carry loop, the parser's reading of items) exists: a function is built up to every number,
so that the CHOOSE in the definition picks one that satisfies its recursion.

The assumptions are those the modules declare (`...Assumption`): constants are in
their types, and `None` is not a number or a record.

Only model-checked: `Terminates` (twice) and `ScanEnds`, being liveness under fairness,
which is beyond this prover; the theorems `...Advance` prove that each turn of these
loops ends it or makes progress.

## 5. Where the code and its documentation disagree

Two are runs in which TLC finds the documented statement violated:

- `paced_timestamp_wrap`: when the 32-bit RTP timestamp wraps, a step of 2^32
  enters the jitter (`stream/tracker.py:69`), which is then no longer the
  "RFC 3550 interarrival jitter estimate" (`model/stream.py:26`).
- `pcapng_lenient_interfaces`: an interface description skipped in lenient mode
  shifts the numbers of those behind it (`io/pcapng_reader.py:119`), and packets
  get another interface's link type and timestamp resolution.

Others are smaller, and the properties state what the code does:

- `expected_count`, "from the sequence number range covered"
  (`model/stream.py:18`), starts at the first packet to *arrive*
  (`stream/tracker.py:76`). Packets from before it hide as many losses:
  `LossReport` says exactly how many.
- `out_of_order_count`, "below the highest one already observed"
  (`model/stream.py:20`), leaves out late copies (`stream/tracker.py:48`), as
  `IdealReceiver` does.
- "Within half the sequence space (32768)" (`stream/tracker.py:104`) does not
  include 32768 itself, where the order of the raw numbers decides (`:62`). The
  theorems assume less than half.
- `build_rtcp` is "the inverse of parse_rtcp" (`builder/rtcp_builder.py:1`) but for
  APP data, which is brought to whole words with zeros that no field counts
  (`:79`); `Returned` in `RtcpCompound` says what comes back.
- "ID 0 is padding" (`model/extension.py:80`): only a zero byte is
  (`:104`); identifier 0 with a length is returned as an element.
- `write_pcapng` masks a negative time into a large one
  (`io/pcapng_writer.py:62`) where `write_pcap` fails, and both fail with
  `struct.error`, not `PcapWriteError`, for what a field cannot hold.

## 6. What is not modelled

- G.711 (`codec/g711.py`): a table built from arithmetic alone, without state or
  order, over 65536 samples; a test exhausts it, and a model would repeat it.
- The payload type table, the re-exports, `looks_like_rtp` and
  `looks_like_rtcp` (wrappers of the parsers), the fuzz runner's loop and
  `splice_random_bytes`: no decision that is not made elsewhere.
- Values of fields that are only copied, messages of exceptions and log lines.
- Zero-copy views: a caller that reuses its buffer changes packets it has been
  given. The documentation makes that the caller's duty; the models have values.
- Memory: the tracker retains every packet, as documented.
- Floating-point rounding of timestamps and jitter.
- Pcapng options: of `if_tsresol` only that interfaces may differ in it.
- Later fragments of an IPv4 or IPv6 datagram, which `decapsulate_udp` takes for
  whole ones or first ones (`io/decap.py:138`): their bytes are not a UDP header,
  and the source promises nothing about them.
- RTCP bodies of more than 65535 words, beyond the reach of a run.

## 7. Where the project stands

Every component with control flow of its own is modelled. The tracker came first,
being the only one with long-lived state, then its session and refinement, the
classifier, the pcapng reader, RTP parser and builder, RTCP, extension elements,
frames and capture files.

Every invariant and every action property that the passing runs show is also
stated by a theorem. What stays with TLC is liveness.
