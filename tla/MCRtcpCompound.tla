--------------------------- MODULE MCRtcpCompound ---------------------------
(* Packets for TLC: each type with none and one of what it counts, every     *)
(* limit of the builder just kept and just missed, and contents that could   *)
(* be taken for structure.                                                   *)
EXTENDS RtcpCompound

Word(byte) == <<byte, byte, byte, byte>>

Report(lost) ==
  [ssrc |-> Word(2), fraction_lost |-> 255, cumulative_lost |-> lost,
   rest |-> [i \in 1 .. 16 |-> 3]]

Receiver(blocks, padding) ==
  [type |-> RR, ssrc |-> Word(1), report_blocks |-> blocks, padding_size |-> padding]

Sender(blocks) ==
  [type |-> SR, ssrc |-> Word(1), sender_info |-> [i \in 1 .. 20 |-> 4],
   report_blocks |-> blocks, padding_size |-> 0]

Item(type, text) == [type |-> type, text |-> text]

Description(chunks) == [type |-> SDES, chunks |-> chunks, padding_size |-> 0]

Chunk(items) == [ssrc |-> Word(0), items |-> items]

Bye(sources, reason, padding) ==
  [type |-> BYE, sources |-> sources, reason |-> reason, padding_size |-> padding]

Application(subtype, name, data) ==
  [type |-> APP, subtype |-> subtype, ssrc |-> Word(1), name |-> name,
   data |-> data, padding_size |-> 0]

Times(n, x) == [i \in 1 .. n |-> x]

(* Small packets, to be put together and damaged.                            *)
SmallPackets ==
  {Receiver(<<>>, 4),
   Description(<<Chunk(<<Item(1, <<0, 7>>)>>), Chunk(<<>>)>>),
   Bye(<<>>, <<>>, 0),
   Bye(<<Word(9)>>, <<<<0>>>>, 4),
   Application(31, Word(65), <<1, 2, 0>>)}

(* Packets at the limits of their fields.                                    *)
LimitPackets ==
  {Sender(<<Report(-(2^23)), Report(2^23 - 1)>>),
   Sender(<<Report(-1)>>),
   Receiver(<<Report(2^23)>>, 0),
   Receiver(Times(2, Report(0)), 252),
   Receiver(<<>>, 3), Receiver(<<>>, 256),
   Description(<<Chunk(<<Item(255, <<1>>), Item(1, <<>>)>>)>>),
   Description(<<Chunk(<<Item(0, <<>>)>>)>>),
   Description(<<Chunk(<<Item(8, Times(255, 5))>>), Chunk(<<>>)>>),
   Description(<<Chunk(<<Item(8, Times(256, 5))>>)>>),
   Bye(Times(31, Word(9)), <<Times(255, 6)>>, 0),
   Bye(Times(32, Word(9)), <<>>, 0),
   Bye(<<>>, <<<<>>>>, 0),
   Bye(<<>>, <<Times(256, 6)>>, 0),
   Application(32, Word(65), <<>>),
   Application(0, <<65, 65, 65>>, <<>>)}

AllPackets == SmallPackets \cup LimitPackets
=============================================================================
