---------------------------- MODULE PcapngReader ----------------------------
(* _read_pcapng: a generator that walks the blocks of a capture file and     *)
(* yields packets as it meets them, in strict mode (read_pcapng) and in      *)
(* lenient mode (read_pcapng_lenient).  Two consumers iterate over the same  *)
(* file, one per mode, each at its own pace.                                 *)
(*                                                                           *)
(* A file is the sequence of blocks that the declared lengths cut it into.   *)
(* Of a block the model keeps what decides its handling: its type, whether   *)
(* its declared length can be honoured, whether its body can be parsed.  An  *)
(* interface (link type and timestamp resolution) is one value.              *)
EXTENDS Integers, SequencesExt

CONSTANTS
  Block,         \* the blocks a file may hold
  Link,          \* interface attributes
  NoLink,        \* those of a packet of no interface (link type 0)
  MaxBlocks      \* bound: blocks in a file

Mode == {"strict", "lenient"}

(* SHB, IDB, EPB and SPB are the types the reader knows; STUB stands for     *)
(* trailing bytes too few to be a block.                                     *)
BlockType == [kind: {"SHB", "IDB", "EPB", "SPB", "OTHER", "STUB"},
              length: {"fits", "short", "overruns"},
              valid: BOOLEAN,                \* byte-order magic, or body
              link: Link \cup {NoLink},      \* IDB: the interface declared
              iface: Nat]                    \* EPB: the interface referred to

ASSUME PcapngReaderAssumption ==
  /\ Block \subseteq BlockType
  /\ NoLink \notin Link
  /\ \A b \in Block : b.kind = "IDB" => b.link \in Link
  /\ MaxBlocks \in Nat

VARIABLES
  file,      \* the blocks; never changes
  reader     \* by mode, the state of the generator

vars == <<file, reader>>

(* Only the last block can be cut off by the end of the file.                *)
File ==
  {f \in UNION {[1 .. n -> Block] : n \in 0 .. MaxBlocks} :
     \A i \in DOMAIN f :
       f[i].kind = "STUB" \/ f[i].length = "overruns" => i = Len(f)}

Packet == [block: Nat, link: Link \cup {NoLink}]

Reader == [status: {"reading", "done", "raised"},
           offset: Nat \ {0},
           order: BOOLEAN,        \* a byte order is known
           interfaces: Seq(Link),
           yielded: Seq(Packet)]

Init ==
  /\ file \in File
  /\ reader = [m \in Mode |-> [status     |-> "reading",
                               offset     |-> 1,
                               order      |-> FALSE,
                               interfaces |-> <<>>,
                               yielded    |-> <<>>]]

AtBlock(m) ==
  /\ reader[m].status = "reading"
  /\ reader[m].offset =< Len(file)

block(m) == file[reader[m].offset]

Raise(m) == reader' = [reader EXCEPT ![m].status = "raised"]

(* Mutated form of Refuse: the modes are exchanged.                          *)
RefuseExchanged(m) ==
  reader' = [reader EXCEPT
               ![m].status = IF m = "strict" THEN "done" ELSE "raised"]

(* Strict mode raises where lenient mode stops.                              *)
Refuse(m) ==
  reader' = [reader EXCEPT
               ![m].status = IF m = "strict" THEN "raised" ELSE "done"]

(* Mutated form of Unavailable: a length of nothing is accepted.             *)
UnavailableBeyondEnd(b) == b.length = "overruns"

(* block_total_length < _MIN_BLOCK_SIZE or block_end > buf_len               *)
Unavailable(b) == b.length \in {"short", "overruns"}

(* Mutated form of Malformed: the last interface is taken for unknown.       *)
MalformedLastInterface(b, interfaces) ==
  \/ b.kind \in {"IDB", "EPB", "SPB"} /\ ~b.valid
  \/ b.kind = "EPB" /\ b.iface + 1 >= Len(interfaces)

Malformed(b, interfaces) ==
  \/ b.kind \in {"IDB", "EPB", "SPB"} /\ ~b.valid
  \/ b.kind = "EPB" /\ b.iface >= Len(interfaces)

LinkOf(b, interfaces) ==
  IF b.kind = "EPB" THEN interfaces[b.iface + 1]
  ELSE IF interfaces # <<>> THEN interfaces[1] ELSE NoLink

(* offset = block_end: a block that declares no length leads nowhere.        *)
BlockEnd(m) ==
  IF block(m).length = "short" THEN reader[m].offset ELSE reader[m].offset + 1

(* The blocks before this one have been consumed: while offset < buf_len.    *)
EndOfFile(m) ==
  /\ reader[m].status = "reading"
  /\ reader[m].offset > Len(file)
  /\ IF file = <<>> THEN Raise(m)
     ELSE reader' = [reader EXCEPT ![m].status = "done"]

(* Fewer bytes than a block header and trailer are left.  A file that has no *)
(* more than that is refused in either mode.                                 *)
ShortTail(m) ==
  /\ AtBlock(m)
  /\ block(m).kind = "STUB"
  /\ IF reader[m].offset = 1 THEN Raise(m) ELSE Refuse(m)

InvalidByteOrderMagic(m) ==
  /\ AtBlock(m)
  /\ block(m).kind = "SHB"
  /\ ~block(m).valid
  /\ Raise(m)

MissingSectionHeader(m) ==
  /\ AtBlock(m)
  /\ block(m).kind \notin {"STUB", "SHB"}
  /\ ~reader[m].order
  /\ Raise(m)

(* The next block can be read: a byte order is known, or announced by it.    *)
Readable(m) ==
  /\ AtBlock(m)
  /\ IF block(m).kind = "SHB" THEN block(m).valid
     ELSE block(m).kind # "STUB" /\ reader[m].order

BlockUnavailable(m) ==
  /\ Readable(m)
  /\ Unavailable(block(m))
  /\ Refuse(m)

(* Mutated form of SectionHeader: the interfaces of the last section stay.   *)
SectionHeaderKeepsInterfaces(m) ==
  /\ Readable(m)
  /\ ~Unavailable(block(m))
  /\ block(m).kind = "SHB"
  /\ reader' = [reader EXCEPT ![m].order = TRUE, ![m].offset = BlockEnd(m)]

SectionHeader(m) ==
  /\ Readable(m)
  /\ ~Unavailable(block(m))
  /\ block(m).kind = "SHB"
  /\ reader' = [reader EXCEPT ![m].order      = TRUE,
                              ![m].interfaces = <<>>,
                              ![m].offset     = BlockEnd(m)]

(* Mutated form of MalformedBlock: strict mode skips too.                    *)
MalformedBlockSkipped(m) ==
  /\ Readable(m)
  /\ ~Unavailable(block(m))
  /\ Malformed(block(m), reader[m].interfaces)
  /\ reader' = [reader EXCEPT ![m].offset = BlockEnd(m)]

(* Mutated form of MalformedBlock: a skipped interface leaves an entry that  *)
(* is no interface.                                                          *)
MalformedBlockEntered(m) ==
  /\ Readable(m)
  /\ ~Unavailable(block(m))
  /\ Malformed(block(m), reader[m].interfaces)
  /\ IF m = "strict" THEN Raise(m)
     ELSE reader' = [reader EXCEPT ![m].interfaces = Append(@, NoLink),
                                   ![m].offset     = BlockEnd(m)]

MalformedBlock(m) ==
  /\ Readable(m)
  /\ ~Unavailable(block(m))
  /\ Malformed(block(m), reader[m].interfaces)
  /\ IF m = "strict" THEN Raise(m)
     ELSE reader' = [reader EXCEPT ![m].offset = BlockEnd(m)]

(* Mutated form of InterfaceDescription: the generators share one table.     *)
InterfaceDescriptionShared(m) ==
  /\ Readable(m)
  /\ ~Unavailable(block(m))
  /\ block(m).kind = "IDB"
  /\ ~Malformed(block(m), reader[m].interfaces)
  /\ LET link == block(m).link IN
     reader' = [n \in Mode |->
       [reader[n] EXCEPT !.interfaces = Append(@, link),
                         !.offset     = IF n = m THEN BlockEnd(m) ELSE @]]

InterfaceDescription(m) ==
  /\ Readable(m)
  /\ ~Unavailable(block(m))
  /\ block(m).kind = "IDB"
  /\ ~Malformed(block(m), reader[m].interfaces)
  /\ reader' = [reader EXCEPT ![m].interfaces = Append(@, block(m).link),
                              ![m].offset     = BlockEnd(m)]

YieldPacket(m) ==
  /\ Readable(m)
  /\ ~Unavailable(block(m))
  /\ block(m).kind \in {"EPB", "SPB"}
  /\ ~Malformed(block(m), reader[m].interfaces)
  /\ LET packet == [block |-> reader[m].offset,
                    link  |-> LinkOf(block(m), reader[m].interfaces)]
     IN  reader' = [reader EXCEPT ![m].yielded = Append(@, packet),
                                  ![m].offset  = BlockEnd(m)]

UnknownBlock(m) ==
  /\ Readable(m)
  /\ ~Unavailable(block(m))
  /\ block(m).kind = "OTHER"
  /\ reader' = [reader EXCEPT ![m].offset = BlockEnd(m)]

ReadBlock(m) ==
  /\ \/ EndOfFile(m)
     \/ ShortTail(m)
     \/ InvalidByteOrderMagic(m)
     \/ MissingSectionHeader(m)
     \/ BlockUnavailable(m)
     \/ SectionHeader(m)
     \/ MalformedBlock(m)
     \/ InterfaceDescription(m)
     \/ YieldPacket(m)
     \/ UnknownBlock(m)
  /\ UNCHANGED file

Next == \E m \in Mode : ReadBlock(m)

(* Each consumer asks for the next packet until the generator ends.          *)
Fairness == \A m \in Mode : WF_vars(ReadBlock(m))

Spec == Init /\ [][Next]_vars /\ Fairness

----------------------------------------------------------------------------
TypeOK ==
  /\ file \in Seq(Block)
  /\ reader \in [Mode -> Reader]

Ended(m) == reader[m].status # "reading"

(* Blocks of the section that block i belongs to, up to i.                   *)
Section(i) ==
  {j \in 1 .. i : \A k \in j + 1 .. i : file[k].kind # "SHB"}

(* The interface number n of that section as the file declares it: the block *)
(* before which there are n others, readable or not.                         *)
Declares(j, n, i) ==
  LET descriptions == {k \in Section(i) : k < i /\ file[k].kind = "IDB"}
  IN  /\ j \in descriptions
      /\ Cardinality({k \in descriptions : k < j}) = n

(* "(for link type and timestamp resolution)": a packet is yielded with the  *)
(* interface its block refers to, the first of the section for a simple      *)
(* packet block (none if the section has none).                              *)
StrictAttribution ==
  \A i \in DOMAIN reader["strict"].yielded :
    LET packet == reader["strict"].yielded[i]
        number == IF file[packet.block].kind = "EPB"
                  THEN file[packet.block].iface ELSE 0
    IN  \/ \E j \in 1 .. packet.block :
             /\ Declares(j, number, packet.block)
             /\ packet.link = file[j].link
        \/ /\ file[packet.block].kind = "SPB"
           /\ packet.link = NoLink
           /\ \A j \in 1 .. packet.block : ~Declares(j, 0, packet.block)

(* The same of lenient mode, for the packets that name their interface.      *)
LenientAttribution ==
  \A i \in DOMAIN reader["lenient"].yielded :
    LET packet == reader["lenient"].yielded[i] IN
    file[packet.block].kind = "EPB" =>
      \E j \in 1 .. packet.block :
        /\ Declares(j, file[packet.block].iface, packet.block)
        /\ packet.link = file[j].link

(* The two modes never tell a different story: whichever reader is behind    *)
(* has yielded the beginning of what the other one has.                      *)
ModesAgree ==
  LET s == reader["strict"]
      l == reader["lenient"]
  IN  IF s.offset =< l.offset THEN IsPrefix(s.yielded, l.yielded)
      ELSE IsPrefix(l.yielded, s.yielded)

(* Lenient mode gives up nothing that strict mode accepts: where the strict  *)
(* reader gets through, so does the lenient one, with the same packets; and  *)
(* where the lenient one raises, so does the strict one.                     *)
LenientLosesNothing ==
  Ended("strict") /\ Ended("lenient") =>
    /\ reader["strict"].status = "done" =>
         /\ reader["lenient"].status = "done"
         /\ reader["lenient"].yielded = reader["strict"].yielded
    /\ reader["lenient"].status = "raised" => reader["strict"].status = "raised"

(* Lenient mode skips malformed blocks and nothing else: a packet block that *)
(* refers to an interface that was read is yielded once it has been passed.  *)
LenientSkipsOnlyMalformed ==
  LET l == reader["lenient"] IN
  \A i \in 1 .. Len(file) :
    /\ i < l.offset
    /\ file[i].kind \in {"EPB", "SPB"}
    /\ file[i].valid
    /\ file[i].kind = "EPB" =>
         Cardinality({j \in Section(i) : /\ j < i
                                         /\ file[j].kind = "IDB"
                                         /\ file[j].valid}) > file[i].iface
    => \E p \in DOMAIN l.yielded : l.yielded[p].block = i

(* Strict mode passes over nothing: every block before the offset was read.  *)
StrictSkipsNothing ==
  \A i \in 1 .. Len(file) :
    i < reader["strict"].offset =>
      /\ file[i].length = "fits"
      /\ file[i].kind \in {"SHB", "IDB", "EPB", "SPB"} => file[i].valid
      /\ file[i].kind \in {"EPB", "SPB"} =>
           \E p \in DOMAIN reader["strict"].yielded :
             reader["strict"].yielded[p].block = i

(* Every file is read to an end: no block, whatever it declares, holds the   *)
(* reader in place.                                                          *)
Terminates == \A m \in Mode : <>Ended(m)
=============================================================================
