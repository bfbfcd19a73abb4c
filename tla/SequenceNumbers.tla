-------------------------- MODULE SequenceNumbers --------------------------
(* Arithmetic on RTP sequence numbers, which live in 0..SeqSpace-1 and wrap. *)
(* The stream tracker unwraps them against the highest number seen so far    *)
(* (_StreamState._extend); the flow classifier takes the signed distance     *)
(* between two neighbours (_wrapped_delta).  The code fixes SeqSpace to 2^16;*)
(* here the modulus is a parameter so that TLC can reach the wrap-around and *)
(* the lemmas about it (StreamProofs) hold for the real one too.             *)
EXTENDS Integers

CONSTANT SeqModHalf    \* _SEQ_MOD_HALF: half the sequence space (32768)

ASSUME SeqModHalfAssumption == SeqModHalf \in Nat \ {0}

SeqSpace == 2 * SeqModHalf

SequenceNumber == 0 .. SeqSpace - 1

Magnitude(i) == IF i < 0 THEN -i ELSE i

(* Mutated form of Extend: the negative wrap is never undone.                *)
ExtendNoRollover(highest, seq) ==
  LET delta == seq - (highest % SeqSpace)
  IN  highest + (IF delta > SeqModHalf THEN delta - SeqSpace ELSE delta)

(* Mutated form of Extend: the cycle is dropped.                             *)
ExtendNoCycle(highest, seq) == seq

(* The extended number nearest to highest among those congruent to seq.  At  *)
(* exactly half the space away the raw order of the two numbers decides.     *)
Extend(highest, seq) ==
  LET prev_seq   == highest % SeqSpace
      prev_cycle == highest - prev_seq
      delta      == seq - prev_seq
      unwrapped  == IF delta > SeqModHalf THEN delta - SeqSpace
                    ELSE IF delta < -SeqModHalf THEN delta + SeqSpace
                    ELSE delta
  IN  prev_cycle + prev_seq + unwrapped

(* Signed distance from a to b, in -(SeqModHalf-1)..SeqModHalf.              *)
WrappedDelta(a, b) ==
  LET delta == (b - a) % SeqSpace
  IN  IF delta > SeqModHalf THEN delta - SeqSpace ELSE delta
=============================================================================
