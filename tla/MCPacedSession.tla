--------------------------- MODULE MCPacedSession ---------------------------
(* Instances of the paced stream: a small clock, and every time at which one *)
(* of the packets may arrive.                                                *)
EXTENDS PacedSession

AllTimestamps == 0 .. TsSpace - 1

AllArrivals ==
  {(n * Spacing) + delay : n \in 0 .. MaxSent - 1, delay \in Delay}
=============================================================================
