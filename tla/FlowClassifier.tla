--------------------------- MODULE FlowClassifier ---------------------------
(* RtpFlowClassifier: evidence about one presumed flow is accumulated over   *)
(* UDP payloads in arrival order, and a verdict can be asked for at any      *)
(* time.  Flags are cleared as packets come in and never looked at again     *)
(* until classify(): nothing of the packets themselves is kept but the last  *)
(* sequence number and the set of distinct ones.                             *)
(*                                                                           *)
(* A payload is what strict parsing makes of it: a packet, of which the      *)
(* classifier reads three fields, or garbage, on which parse_rtp raises.     *)
EXTENDS SequenceNumbers, Sequences, FiniteSets

CONSTANTS
  Ssrc,                  \* the sources that may occur
  PayloadType,           \* the payload types that may occur
  RtcpCollisionRange,    \* those that collide with RTCP's packet types
  None,                  \* Python's None
  MinPackets,            \* min_packets
  SeqJumpThreshold,      \* seq_jump_threshold
  MaxObserved            \* bound: calls of observe()

ASSUME FlowClassifierAssumption ==
  /\ RtcpCollisionRange \subseteq PayloadType
  /\ None \notin Ssrc
  /\ None \notin Int
  /\ MinPackets \in Nat
  /\ SeqJumpThreshold \in Nat
  /\ MaxObserved \in Nat

Packet == [ssrc: Ssrc, payload_type: PayloadType, sequence_number: SequenceNumber]

VARIABLES
  packets_observed, packets_parsed, ssrc, ssrc_consistent,
  last_seq, sequence_plausible, distinct_seqs,
  evidence       \* history: the packets that counted, in arrival order

state == <<packets_observed, packets_parsed, ssrc, ssrc_consistent,
           last_seq, sequence_plausible, distinct_seqs>>

vars == <<state, evidence>>

Init ==
  /\ packets_observed = 0
  /\ packets_parsed = 0
  /\ ssrc = None
  /\ ssrc_consistent = TRUE
  /\ last_seq = None
  /\ sequence_plausible = TRUE
  /\ distinct_seqs = {}
  /\ evidence = <<>>

(* Mutated form of SequenceNear: the wrap is not undone.                     *)
SequenceNearRaw(seq) ==
  last_seq # None => Magnitude(seq - last_seq) =< SeqJumpThreshold

SsrcAgrees(packet) == ssrc = None \/ packet.ssrc = ssrc

SequenceNear(seq) ==
  last_seq # None => Magnitude(WrappedDelta(last_seq, seq)) =< SeqJumpThreshold

(* parse_rtp raises: the call is counted and nothing else.                   *)
ObserveGarbage ==
  /\ packets_observed < MaxObserved
  /\ packets_observed' = packets_observed + 1
  /\ UNCHANGED <<packets_parsed, ssrc, ssrc_consistent, last_seq,
                 sequence_plausible, distinct_seqs, evidence>>

(* A valid packet whose payload type may be RTCP: set aside.                 *)
ObserveCollision(packet) ==
  /\ packets_observed < MaxObserved
  /\ packet.payload_type \in RtcpCollisionRange
  /\ packets_observed' = packets_observed + 1
  /\ UNCHANGED <<packets_parsed, ssrc, ssrc_consistent, last_seq,
                 sequence_plausible, distinct_seqs, evidence>>

(* Mutated form of ObserveEvidence: the flags say what the last packet did.  *)
ObserveEvidenceUnlatched(packet) ==
  /\ packets_observed < MaxObserved
  /\ packet.payload_type \notin RtcpCollisionRange
  /\ packets_observed' = packets_observed + 1
  /\ packets_parsed' = packets_parsed + 1
  /\ ssrc' = IF ssrc = None THEN packet.ssrc ELSE ssrc
  /\ ssrc_consistent' = SsrcAgrees(packet)
  /\ sequence_plausible' = SequenceNear(packet.sequence_number)
  /\ last_seq' = packet.sequence_number
  /\ distinct_seqs' = distinct_seqs \cup {packet.sequence_number}
  /\ evidence' = Append(evidence, packet)

(* Mutated form of ObserveEvidence: the set of distinct numbers is fed from  *)
(* last_seq before that is brought up to date.                               *)
ObserveEvidenceStaleSeq(packet) ==
  /\ packets_observed < MaxObserved
  /\ packet.payload_type \notin RtcpCollisionRange
  /\ packets_observed' = packets_observed + 1
  /\ packets_parsed' = packets_parsed + 1
  /\ ssrc' = IF ssrc = None THEN packet.ssrc ELSE ssrc
  /\ ssrc_consistent' = (ssrc_consistent /\ SsrcAgrees(packet))
  /\ sequence_plausible' =
       (sequence_plausible /\ SequenceNear(packet.sequence_number))
  /\ last_seq' = packet.sequence_number
  /\ distinct_seqs' = distinct_seqs \cup {last_seq}
  /\ evidence' = Append(evidence, packet)

ObserveEvidence(packet) ==
  /\ packets_observed < MaxObserved
  /\ packet.payload_type \notin RtcpCollisionRange
  /\ packets_observed' = packets_observed + 1
  /\ packets_parsed' = packets_parsed + 1
  /\ ssrc' = IF ssrc = None THEN packet.ssrc ELSE ssrc
  /\ ssrc_consistent' = (ssrc_consistent /\ SsrcAgrees(packet))
  /\ sequence_plausible' =
       (sequence_plausible /\ SequenceNear(packet.sequence_number))
  /\ last_seq' = packet.sequence_number
  /\ distinct_seqs' = distinct_seqs \cup {packet.sequence_number}
  /\ evidence' = Append(evidence, packet)

(* observe()                                                                 *)
Next ==
  \/ ObserveGarbage
  \/ \E packet \in Packet : ObserveCollision(packet)
  \/ \E packet \in Packet : ObserveEvidence(packet)

Spec == Init /\ [][Next]_vars

(* classify()                                                                *)
SequenceProgressing == Cardinality(distinct_seqs) > 1

(* Mutated form of IsLikelyRtp: every payload counts towards the minimum.    *)
IsLikelyRtpByObserved ==
  /\ packets_observed >= MinPackets
  /\ ssrc_consistent
  /\ sequence_plausible
  /\ SequenceProgressing

IsLikelyRtp ==
  /\ packets_parsed >= MinPackets
  /\ ssrc_consistent
  /\ sequence_plausible
  /\ SequenceProgressing

----------------------------------------------------------------------------
TypeOK ==
  /\ packets_observed \in 0 .. MaxObserved
  /\ packets_parsed \in Nat
  /\ ssrc \in Ssrc \cup {None}
  /\ ssrc_consistent \in BOOLEAN
  /\ last_seq \in SequenceNumber \cup {None}
  /\ sequence_plausible \in BOOLEAN
  /\ distinct_seqs \subseteq SequenceNumber
  /\ evidence \in Seq(Packet)

(* Two numbers at most SeqJumpThreshold apart on the circle of sequence      *)
(* numbers.                                                                  *)
Near(a, b) ==
  \E d \in -SeqJumpThreshold .. SeqJumpThreshold : (a + d) % SeqSpace = b

(* The flow, judged from everything that was observed.                       *)
OneSource ==
  \A i, j \in DOMAIN evidence : evidence[i].ssrc = evidence[j].ssrc

NoJumps ==
  \A i \in DOMAIN evidence \ {1} :
    Near(evidence[i - 1].sequence_number, evidence[i].sequence_number)

Progress ==
  \E i, j \in DOMAIN evidence :
    evidence[i].sequence_number # evidence[j].sequence_number

(* The verdict reached packet by packet, from flags that forget the packets, *)
(* is the one a reader of the whole flow would reach; payloads that are not  *)
(* evidence have no part in it.                                              *)
VerdictOfEvidence ==
  IsLikelyRtp <=>
    /\ Len(evidence) >= MinPackets
    /\ OneSource
    /\ NoJumps
    /\ Progress

(* So is each of the signals it is made of.                                  *)
SignalsOfEvidence ==
  /\ packets_parsed = Len(evidence)
  /\ ssrc_consistent <=> OneSource
  /\ sequence_plausible <=> NoJumps
  /\ SequenceProgressing <=> Progress

(* A flow once refuted stays refuted, however well it behaves afterwards:    *)
(* classify() may turn from yes to no, and from no to yes only while neither *)
(* the source nor the sequence has contradicted RTP.                         *)
RefutationIsFinal ==
  [][~(ssrc_consistent /\ sequence_plausible) => ~IsLikelyRtp']_vars
=============================================================================
