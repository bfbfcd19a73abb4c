---------------------------- MODULE CaptureFiles ----------------------------
(* Packets written to a capture file, classic or pcapng, the file cut short  *)
(* at any byte, and what is read back from it in either mode; a program that *)
(* copies captures hands what it read to a writer again.                     *)
(*                                                                           *)
(* A file is the sequence of the blocks (or records) written, each with the  *)
(* number of bytes it takes; how a block is laid out inside is left out, but *)
(* not the padding after the data.  A timestamp is a whole number of units,  *)
(* PerMicro of which make a microsecond: what the format cannot hold is      *)
(* there to be rounded.  A field of 32 bits holds a number below Word.       *)
EXTENDS Integers, SequencesExt

CONSTANTS
  Packet,            \* what a caller may hand to a writer
  PerMicro,          \* units of time in a microsecond
  MicroPerSecond,    \* microseconds in a second
  Word,              \* numbers that a 32-bit field tells apart
  LinkWord,          \* link types that a 16-bit field tells apart
  NoLink,            \* no link type given
  NoFile,            \* nothing has been written
  MaxPackets         \* bound: packets handed over

PerSecond == PerMicro * MicroPerSecond

PacketType == [link: Nat, time: Int, data: Seq(Nat), original: Nat]

ASSUME CaptureFilesAssumption ==
  /\ Packet \subseteq PacketType
  /\ {PerMicro, Word, LinkWord} \subseteq Nat \ {0}
  /\ MicroPerSecond \in 1 .. Word
  /\ MicroPerSecond % 2 = 0
  /\ NoLink \notin Nat
  /\ MaxPackets \in Nat

VARIABLES
  handed,    \* the packets handed to the writer
  file,      \* what it wrote: the format and the blocks
  size,      \* bytes of the file that are left
  writer,    \* the outcome of the last call of a writer
  reader     \* the generator that reads the file

vars == <<handed, file, size, writer, reader>>

Closed == [mode |-> "none", status |-> "closed", offset |-> 0,
           link |-> NoLink, resolution |-> 0, interfaces |-> <<>>,
           yielded |-> <<>>]

Init ==
  /\ handed \in UNION {[1 .. n -> Packet] : n \in 0 .. MaxPackets}
  /\ file = NoFile
  /\ size = 0
  /\ writer = "idle"
  /\ reader = Closed

----------------------------------------------------------------------------
(* Bytes that each kind of block takes; those of packets grow with the data. *)
Overhead ==
  [GLOBAL |-> 24, RECORD |-> 16, SHB |-> 28, IDB |-> 20, IDBRESOL |-> 32,
   EPB |-> 32]

Size(b) ==
  IF b.kind \in {"RECORD", "EPB"} THEN Overhead[b.kind] + Len(b.body)
  ELSE Overhead[b.kind]

StartOf(blocks, i) ==
  FoldLeft(LAMBDA n, b : n + Size(b), 0, SubSeq(blocks, 1, i - 1))

FileSize(blocks) == StartOf(blocks, Len(blocks) + 1)

(* Python's round: ties go to the even number.                               *)
RoundHalfEven(x, d) ==
  LET q == x \div d
      r == x % d
  IN  IF 2 * r < d \/ (2 * r = d /\ q % 2 = 0) THEN q ELSE q + 1

(* int(timestamp) drops the fraction, of a negative number too.              *)
WholeSeconds(t) ==
  IF t >= 0 THEN t \div PerSecond ELSE -((-t) \div PerSecond)

(* Mutated form of _split_timestamp: rounding never carries.                 *)
_split_timestampNoCarry(t) ==
  [sec |-> WholeSeconds(t),
   usec |-> RoundHalfEven(t - (WholeSeconds(t) * PerSecond), PerMicro)
              % MicroPerSecond]

_split_timestamp(t) ==
  LET sec  == WholeSeconds(t)
      usec == RoundHalfEven(t - (sec * PerSecond), PerMicro)
  IN  IF usec >= MicroPerSecond
      THEN [sec |-> sec + 1, usec |-> usec - MicroPerSecond]
      ELSE [sec |-> sec, usec |-> usec]

(* struct.pack of the two fields of a record's timestamp.                    *)
FitsPcap(ts) == {ts.sec, ts.usec} \subseteq 0 .. Word - 1

Record(p, sec, frac) ==
  [kind |-> "RECORD", sec |-> sec, frac |-> frac, captured |-> Len(p.data),
   original |-> p.original, body |-> p.data]

PcapFile(resolution, link, records) ==
  [format |-> "pcap",
   blocks |-> <<[kind |-> "GLOBAL", link |-> link, resolution |-> resolution]>>
                \o records]

Padded(data) == data \o [i \in 1 .. (-Len(data)) % 4 |-> 0]

(* The link types of the packets, each once, as they first appear.           *)
Interfaces(packets) ==
  FoldLeft(LAMBDA links, p : IF Contains(links, p.link) THEN links
                             ELSE Append(links, p.link),
           <<>>, packets)

_build_epb(links, p, ticks) ==
  [kind     |-> "EPB",
   iface    |-> (CHOOSE i \in DOMAIN links : links[i] = p.link) - 1,
   high     |-> (ticks \div Word) % Word,
   low      |-> ticks % Word,
   captured |-> Len(p.data),
   original |-> p.original,
   body     |-> Padded(p.data)]

PcapngFile(kind, resolution, packets) ==
  LET links == Interfaces(packets)
      ticks(t) == RoundHalfEven(t, PerSecond \div resolution)
  IN
  [format |-> "pcapng",
   blocks |-> <<[kind |-> "SHB"]>>
     \o [i \in DOMAIN links |->
           [kind |-> kind, link |-> links[i], resolution |-> resolution]]
     \o [i \in DOMAIN packets |->
           _build_epb(links, packets[i], ticks(packets[i].time))]]

----------------------------------------------------------------------------
Written(f) ==
  /\ writer' = "written"
  /\ file' = f
  /\ size' = FileSize(f.blocks)

Failed(error) ==
  /\ writer' = error
  /\ UNCHANGED <<file, size>>

(* Without link_type the first packet decides, and every packet must share   *)
(* it: a classic file has room for one.                                      *)
WritePcap(link_type) ==
  /\ file = NoFile
  /\ LET split == [i \in DOMAIN handed |-> _split_timestamp(handed[i].time)]
         link  == IF link_type # NoLink \/ handed = <<>> THEN link_type
                  ELSE handed[1].link
     IN  IF link = NoLink \/ \E i \in DOMAIN handed : handed[i].link # link
         THEN Failed("PcapWriteError")
         ELSE IF \E i \in DOMAIN split : ~FitsPcap(split[i])
         THEN Failed("struct.error")
         ELSE Written(PcapFile(MicroPerSecond, link,
                [i \in DOMAIN handed |->
                   Record(handed[i], split[i].sec, split[i].usec)]))
  /\ UNCHANGED <<handed, reader>>

(* The time is masked into its two fields, not refused; a link type that has *)
(* no 16-bit form is.                                                        *)
WritePcapng ==
  /\ file = NoFile
  /\ IF \E i \in DOMAIN handed : handed[i].link >= LinkWord
     THEN Failed("struct.error")
     ELSE Written(PcapngFile("IDB", MicroPerSecond, handed))
  /\ UNCHANGED <<handed, reader>>

(* The same capture as another tool records it, to the unit.                 *)
AnotherToolWrites ==
  /\ file = NoFile
  /\ \A i \in DOMAIN handed :
       handed[i].time \in 0 .. (Word * Word) - 1 /\ handed[i].link < LinkWord
  /\ \/ Written(PcapngFile("IDBRESOL", PerSecond, handed))
     \/ \E link \in {p.link : p \in Packet} :
          /\ \A i \in DOMAIN handed :
               /\ handed[i].link = link
               /\ handed[i].time \div PerSecond < Word
          /\ Written(PcapFile(PerSecond, link,
               [i \in DOMAIN handed |->
                  Record(handed[i], handed[i].time \div PerSecond,
                         handed[i].time % PerSecond)]))
  /\ UNCHANGED <<handed, reader>>

(* A capture that was interrupted, or that is still being copied.            *)
CutFile ==
  /\ writer = "written"
  /\ reader = Closed
  /\ \E n \in 0 .. size - 1 : size' = n
  /\ writer' = "cut"
  /\ UNCHANGED <<handed, file, reader>>

----------------------------------------------------------------------------
_is_pcapng == file.format = "pcapng" /\ size >= 4

Required == IF _is_pcapng THEN 12 ELSE 24

Open(mode) ==
  /\ file # NoFile
  /\ reader = Closed
  /\ reader' =
       [Closed EXCEPT !.mode = mode,
                      !.status = IF size < Required THEN "raised" ELSE "reading",
                      !.offset = IF file.format = "pcap" THEN 24 ELSE 0,
                      !.link = IF file.format = "pcap" THEN file.blocks[1].link
                               ELSE NoLink,
                      !.resolution = IF file.format = "pcap"
                                     THEN file.blocks[1].resolution ELSE 0]
  /\ UNCHANGED <<handed, file, size, writer>>

Reading == reader.status = "reading"

(* The block at the offset that the lengths before it led to.                *)
block ==
  file.blocks[CHOOSE i \in DOMAIN file.blocks :
                StartOf(file.blocks, i) = reader.offset]

Smallest == IF file.format = "pcap" THEN 16 ELSE 12

(* Enough bytes for a header, and for what the header declares.              *)
Available ==
  /\ reader.offset + Smallest =< size
  /\ reader.offset + Size(block) =< size

EndOfFile ==
  /\ Reading
  /\ reader.offset >= size
  /\ reader' = [reader EXCEPT !.status = "done"]
  /\ UNCHANGED <<handed, file, size, writer>>

(* Mutated form of Truncated: strict mode stops as lenient mode does.        *)
TruncatedStops ==
  /\ Reading
  /\ reader.offset < size
  /\ ~Available
  /\ reader' = [reader EXCEPT !.status = "done"]
  /\ UNCHANGED <<handed, file, size, writer>>

Truncated ==
  /\ Reading
  /\ reader.offset < size
  /\ ~Available
  /\ reader' = [reader EXCEPT !.status =
                  IF reader.mode = "strict" THEN "raised" ELSE "done"]
  /\ UNCHANGED <<handed, file, size, writer>>

Advance == reader.offset + Size(block)

BlockReady(format) ==
  /\ Reading
  /\ file.format = format
  /\ reader.offset < size
  /\ Available

ReadRecord ==
  /\ BlockReady("pcap")
  /\ LET packet ==
           [link     |-> reader.link,
            time     |-> (block.sec * PerSecond)
                           + (block.frac * (PerSecond \div reader.resolution)),
            data     |-> SubSeq(block.body, 1, block.captured),
            original |-> block.original]
     IN  reader' = [reader EXCEPT !.yielded = Append(@, packet),
                                  !.offset  = Advance]
  /\ UNCHANGED <<handed, file, size, writer>>

ReadSectionHeader ==
  /\ BlockReady("pcapng")
  /\ block.kind = "SHB"
  /\ reader' = [reader EXCEPT !.interfaces = <<>>, !.offset = Advance]
  /\ UNCHANGED <<handed, file, size, writer>>

ReadInterface ==
  /\ BlockReady("pcapng")
  /\ block.kind \in {"IDB", "IDBRESOL"}
  /\ LET interface == [link |-> block.link, resolution |-> block.resolution]
     IN  reader' = [reader EXCEPT !.interfaces = Append(@, interface),
                                  !.offset     = Advance]
  /\ UNCHANGED <<handed, file, size, writer>>

ReadEnhancedPacket ==
  /\ BlockReady("pcapng")
  /\ block.kind = "EPB"
  /\ LET interface == reader.interfaces[block.iface + 1]
         packet ==
           [link     |-> interface.link,
            time     |-> ((block.high * Word) + block.low)
                           * (PerSecond \div interface.resolution),
            data     |-> SubSeq(block.body, 1, block.captured),
            original |-> block.original]
     IN  reader' = [reader EXCEPT !.yielded = Append(@, packet),
                                  !.offset  = Advance]
  /\ UNCHANGED <<handed, file, size, writer>>

(* What was read, all of it or what is left, is handed to a writer again.    *)
CopyCapture ==
  /\ reader.status = "done"
  /\ handed' = reader.yielded
  /\ file' = NoFile
  /\ size' = 0
  /\ writer' = "idle"
  /\ reader' = Closed

Next ==
  \/ \E link \in {p.link : p \in Packet} \cup {NoLink} : WritePcap(link)
  \/ WritePcapng
  \/ AnotherToolWrites
  \/ CutFile
  \/ \E mode \in {"strict", "lenient"} : Open(mode)
  \/ EndOfFile
  \/ Truncated
  \/ ReadRecord
  \/ ReadSectionHeader
  \/ ReadInterface
  \/ ReadEnhancedPacket
  \/ CopyCapture

Spec == Init /\ [][Next]_vars
----------------------------------------------------------------------------
(* The microsecond nearest to a time, as the 64 bits of a file count it.     *)
Rounded(p) ==
  LET below == p.time \div PerMicro
      past  == p.time - (below * PerMicro)
      near  == CHOOSE n \in {below, below + 1} :
                 /\ n = below => 2 * past =< PerMicro
                 /\ n # below => 2 * past >= PerMicro
                 /\ 2 * past = PerMicro => n % 2 = 0
  IN  [p EXCEPT !.time = (near % (Word * Word)) * PerMicro]

(* A file of another tool counts units.                                      *)
Recorded(p) ==
  IF \E i \in DOMAIN file.blocks :
       /\ file.blocks[i].kind \in {"GLOBAL", "IDB", "IDBRESOL"}
       /\ file.blocks[i].resolution # MicroPerSecond
  THEN p ELSE Rounded(p)

(* The blocks that hold packets and lie in what is left of the file.         *)
WholePackets ==
  Cardinality({i \in DOMAIN file.blocks :
                 /\ file.blocks[i].kind \in {"RECORD", "EPB"}
                 /\ StartOf(file.blocks, i + 1) =< size})

(* A cut between two blocks.                                                 *)
AtBoundary ==
  \E i \in 1 .. Len(file.blocks) + 1 : size = StartOf(file.blocks, i)

(* "the inverse of pcap_reader.read_pcap", "the inverse of                   *)
(* pcapng_reader.read_pcapng": from either format, in either mode, the       *)
(* packets come back in order, with their bytes, their link types and their  *)
(* times to the microsecond; a cut file gives those it holds whole, and no   *)
(* reader that ends without an error has given fewer.                        *)
CaptureComesBack ==
  /\ reader.status # "closed" =>
       IsPrefix(reader.yielded, [i \in DOMAIN handed |-> Recorded(handed[i])])
  /\ reader.status = "done" => Len(reader.yielded) = WholePackets

(* A strict reader raises for every cut but one that falls between two       *)
(* blocks, when nothing in the file tells that there were more; a lenient    *)
(* one raises only where the first header itself is cut.                     *)
CutIsNoticed ==
  /\ reader.status = "done" /\ reader.mode = "strict" => AtBoundary
  /\ reader.status = "raised" =>
       /\ writer = "cut"
       /\ reader.mode = "strict" => ~AtBoundary \/ size = 0
       /\ reader.mode = "lenient" =>
            size < IF file.format = "pcap" THEN 24 ELSE 12
=============================================================================
