--------------------------- MODULE MCPcapngReader ---------------------------
(* Files for TLC: every sequence of at most MaxBlocks of these blocks.       *)
EXTENDS PcapngReader

CONSTANTS ethernet, raw    \* two interfaces

Plain(kind) == [kind |-> kind, length |-> "fits", valid |-> TRUE,
                link |-> NoLink, iface |-> 0]

Bad(kind) == [Plain(kind) EXCEPT !.valid = FALSE]

Interface(link) == [Plain("IDB") EXCEPT !.link = link]

PacketOf(iface) == [Plain("EPB") EXCEPT !.iface = iface]

BadInterface == [Interface(ethernet) EXCEPT !.valid = FALSE]

(* Sections and interfaces, which decide to whom a packet belongs.           *)
SectionBlocks ==
  {Plain("SHB"), Interface(ethernet), Interface(raw), BadInterface,
   PacketOf(0), PacketOf(1), Plain("SPB")}

(* Everything else that a block can be, and can be wrong with it.            *)
DamagedBlocks ==
  {Bad("SHB"), Bad("EPB"), Bad("SPB"), Plain("OTHER"), Plain("STUB"),
   [Plain("OTHER") EXCEPT !.length = "overruns"],
   [Plain("SHB") EXCEPT !.length = "short"]}

AllBlocks == SectionBlocks \cup DamagedBlocks
=============================================================================
