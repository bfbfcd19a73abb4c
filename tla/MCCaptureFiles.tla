-------------------------- MODULE MCCaptureFiles ---------------------------
(* Captures for TLC.  A second has two microseconds of four units each and a *)
(* field of "32 bits" two: ties, carries and overflows are all a few units   *)
(* away from zero.                                                           *)
EXTENDS CaptureFiles

CapturePacket(link, time, data) ==
  [link |-> link, time |-> time, data |-> data, original |-> Len(data) + 1]

(* Rounded down at a tie; rounded up at a tie, into the next second; exact   *)
(* with padding to four bytes; rounded into a second that has no field; more *)
(* than a classic file holds; negative; a link type of more than 16 bits.    *)
Captures ==
  {CapturePacket(1, 2, <<>>),
   CapturePacket(1, 6, <<7>>),
   CapturePacket(101, 8, <<7, 0, 7, 7, 0>>),
   CapturePacket(1, 31, <<7, 7, 7, 7>>),
   CapturePacket(1, 36, <<7>>),
   CapturePacket(1, -4, <<7>>),
   CapturePacket(70000, 6, <<>>)}
=============================================================================
