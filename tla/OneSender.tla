----------------------------- MODULE OneSender ------------------------------
(* What the two sessions have in common: one of the sources is a sender that *)
(* numbers its packets in the order of sending.                              *)
EXTENDS StreamTracker

CONSTANT MaxSent    \* bound: packets sent

ASSUME OneSenderAssumption ==
  /\ MaxSent \in Nat
  /\ Ssrc # {}

sender == CHOOSE s \in Ssrc : TRUE

tracking == sender \in DOMAIN states

stream == states[sender]
=============================================================================
