-------------------------- MODULE MCStreamTracker --------------------------
(* Small instances of the tracker.  Nothing in it looks inside a payload, or *)
(* at an SSRC but to tell it from others: both are interchangeable.          *)
EXTENDS StreamTracker

Symmetry == Permutations(Ssrc) \cup Permutations(Payload)
=============================================================================
