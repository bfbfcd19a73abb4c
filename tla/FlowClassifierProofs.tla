------------------------ MODULE FlowClassifierProofs ------------------------
(* The classifier's running flags say of a flow what its packets say, for    *)
(* every sequence space, threshold and number of packets.                    *)
EXTENDS FlowClassifier, FiniteSetTheorems, SequenceTheorems, TLAPS

(* Euclidean division by the modulus, & 0xFFFF in the code.                  *)
LEMMA SeqSpaceDivision ==
  ASSUME NEW a \in Int
  PROVE  /\ a % SeqSpace \in 0 .. SeqSpace - 1
         /\ \E q \in Int : a = (q * SeqSpace) + (a % SeqSpace)
<1>1. SeqSpace \in Nat \ {0}
  BY SeqModHalfAssumption DEF SeqSpace
<1>2. PICK q \in Int : q = a \div SeqSpace
  BY <1>1
<1>3. a = (q * SeqSpace) + (a % SeqSpace)
  BY <1>1, <1>2
<1>4. a % SeqSpace \in 0 .. SeqSpace - 1
  BY <1>1
<1> QED
  BY <1>3, <1>4

(* The remainder is unique.                                                  *)
LEMMA SeqSpaceRemainder ==
  ASSUME NEW q \in Int, NEW r \in SequenceNumber
  PROVE  ((q * SeqSpace) + r) % SeqSpace = r
<1>1. SeqSpace \in Nat \ {0}
  BY SeqModHalfAssumption DEF SeqSpace
<1> QED
  BY <1>1 DEF SequenceNumber

(* What the state keeps of the evidence.                                     *)
Summary ==
  /\ packets_parsed = Len(evidence)
  /\ evidence = <<>> => ssrc = None /\ last_seq = None
  /\ evidence # <<>> =>
       /\ ssrc = evidence[1].ssrc
       /\ last_seq = evidence[Len(evidence)].sequence_number
  /\ ssrc_consistent <=> \A i \in 1 .. Len(evidence) : evidence[i].ssrc = ssrc
  /\ sequence_plausible <=>
       \A i \in 2 .. Len(evidence) :
         Magnitude(WrappedDelta(evidence[i - 1].sequence_number,
                                evidence[i].sequence_number)) =< SeqJumpThreshold
  /\ distinct_seqs = {evidence[i].sequence_number : i \in 1 .. Len(evidence)}

IInv == TypeOK /\ Summary

(* The distance the code computes is the distance on the circle: it is small *)
(* exactly when few steps lead from one number to the other.                 *)
LEMMA WrappedDeltaIsNear ==
  ASSUME NEW a \in SequenceNumber, NEW b \in SequenceNumber
  PROVE  Magnitude(WrappedDelta(a, b)) =< SeqJumpThreshold <=> Near(a, b)
<1> DEFINE w == (b - a) % SeqSpace
           D == WrappedDelta(a, b)
           T == SeqJumpThreshold
<1>1. /\ SeqSpace \in Nat \ {0} /\ SeqModHalf \in Nat
      /\ SeqSpace = SeqModHalf + SeqModHalf
      /\ T \in Nat
  BY SeqModHalfAssumption, FlowClassifierAssumption DEF SeqSpace
<1>2. a \in Int /\ b \in Int /\ b - a \in Int
  BY <1>1 DEF SequenceNumber
<1>3. w \in SequenceNumber
  BY <1>2, SeqSpaceDivision DEF SequenceNumber
<1>4. PICK q \in Int : b - a = (q * SeqSpace) + w
  BY <1>2, SeqSpaceDivision
<1>5. D = IF w > SeqModHalf THEN w - SeqSpace ELSE w
  BY DEF WrappedDelta
<1> HIDE DEF w, D, T
<1>6. D \in Int /\ D =< SeqModHalf /\ -D =< SeqModHalf
  BY <1>1, <1>3, <1>5 DEF SequenceNumber
<1>7. \E y \in Int : a + D = (y * SeqSpace) + b
  <2>1. CASE w > SeqModHalf
    <3>1. a + D = (((-q) - 1) * SeqSpace) + b
      BY <1>1, <1>2, <1>3, <1>4, <1>5, <2>1 DEF SequenceNumber
    <3> QED
      BY <3>1
  <2>2. CASE ~(w > SeqModHalf)
    <3>1. a + D = ((-q) * SeqSpace) + b
      BY <1>1, <1>2, <1>3, <1>4, <1>5, <2>2 DEF SequenceNumber
    <3> QED
      BY <3>1
  <2> QED
    BY <2>1, <2>2
<1>8. PICK y \in Int : a + D = (y * SeqSpace) + b
  BY <1>7
<1>9. ASSUME Magnitude(D) =< T
      PROVE  Near(a, b)
  <2>1. D \in -T .. T
    BY <1>1, <1>6, <1>9 DEF Magnitude
  <2>2. (a + D) % SeqSpace = b
    BY <1>8, SeqSpaceRemainder
  <2> QED
    BY <2>1, <2>2 DEF Near, T
<1>10. ASSUME Near(a, b)
       PROVE  Magnitude(D) =< T
  <2>1. PICK d \in -T .. T : (a + d) % SeqSpace = b
    BY <1>10 DEF Near, T
  <2>2. PICK x \in Int : a + d = (x * SeqSpace) + b
    <3>1. a + d \in Int
      BY <1>1, <1>2
    <3> QED
      BY <2>1, <3>1, SeqSpaceDivision
  <2>3. d - D = (x - y) * SeqSpace
    BY <1>1, <1>2, <1>6, <1>8, <2>1, <2>2
  <2>4. \/ x - y = 0
        \/ x - y >= 1
        \/ x - y =< -1
    OBVIOUS
  <2>5. CASE x - y = 0
    BY <1>1, <1>6, <2>1, <2>3, <2>5 DEF Magnitude
  <2>6. CASE x - y >= 1
    <3>1. d - D >= SeqSpace
      BY <1>1, <1>6, <2>3, <2>6
    <3> QED
      BY <1>1, <1>6, <2>1, <3>1 DEF Magnitude
  <2>7. CASE x - y =< -1
    <3>1. D - d >= SeqSpace
      BY <1>1, <1>6, <2>3, <2>7
    <3> QED
      BY <1>1, <1>6, <2>1, <3>1 DEF Magnitude
  <2> QED
    BY <2>4, <2>5, <2>6, <2>7
<1> QED
  BY <1>9, <1>10 DEF D, T

LEMMA SummaryInit == Init => IInv
<1> SUFFICES ASSUME Init
             PROVE  IInv
  OBVIOUS
<1>1. TypeOK
  BY FlowClassifierAssumption DEF Init, TypeOK
<1>2. Summary
  BY DEF Init, Summary
<1> QED
  BY <1>1, <1>2 DEF IInv

(* A packet that counts as evidence.                                         *)
LEMMA EvidenceStep ==
  ASSUME IInv, NEW packet \in Packet, ObserveEvidence(packet)
  PROVE  IInv'
<1> DEFINE n   == Len(evidence)
           seq == packet.sequence_number
<1>1. /\ packet.ssrc \in Ssrc /\ packet.ssrc # None
      /\ seq \in SequenceNumber /\ seq # None
  <2>1. packet.ssrc \in Ssrc /\ seq \in SequenceNumber
    BY DEF Packet
  <2>2. seq \in Int
    BY <2>1 DEF SequenceNumber
  <2> QED
    BY <2>1, <2>2, FlowClassifierAssumption
<1>2. /\ evidence \in Seq(Packet) /\ n \in Nat
      /\ evidence' = Append(evidence, packet)
      /\ evidence' \in Seq(Packet) /\ evidence' # <<>>
      /\ Len(evidence') = n + 1
      /\ \A i \in 1 .. n : evidence'[i] = evidence[i]
      /\ evidence'[n + 1] = packet
  <2>1. evidence \in Seq(Packet) /\ evidence' = Append(evidence, packet)
    BY DEF IInv, TypeOK, ObserveEvidence
  <2> QED
    BY <2>1, AppendProperties, LenProperties
<1> HIDE DEF n, seq
<1>3. TypeOK'
  <2>1. TypeOK
    BY DEF IInv
  <2>2. packets_observed' \in 0 .. MaxObserved /\ packets_parsed' \in Nat
    BY <2>1, FlowClassifierAssumption DEF TypeOK, ObserveEvidence
  <2>3. ssrc' \in Ssrc \cup {None}
    BY <1>1, <2>1 DEF TypeOK, ObserveEvidence
  <2>4. ssrc_consistent' \in BOOLEAN /\ sequence_plausible' \in BOOLEAN
    BY Zenon DEF ObserveEvidence
  <2>5. last_seq' \in SequenceNumber \cup {None} /\ distinct_seqs' \subseteq SequenceNumber
    BY <1>1, <2>1 DEF TypeOK, ObserveEvidence, seq
  <2>6. evidence' \in Seq(Packet)
    BY <1>2, <2>1 DEF TypeOK, ObserveEvidence
  <2> QED
    BY <2>2, <2>3, <2>4, <2>5, <2>6 DEF TypeOK
<1>4. packets_parsed' = Len(evidence')
  BY <1>2 DEF IInv, Summary, ObserveEvidence, n
<1>5. last_seq' = evidence'[Len(evidence')].sequence_number
  BY <1>2 DEF ObserveEvidence, seq
<1>6. CASE evidence = <<>>
  <2>1. n = 0 /\ ssrc = None /\ last_seq = None
    BY <1>6 DEF IInv, Summary, n
  <2>2. /\ ssrc_consistent /\ sequence_plausible /\ distinct_seqs = {}
    BY <2>1 DEF IInv, Summary, n
  <2>3. /\ ssrc' = packet.ssrc
        /\ ssrc_consistent' = TRUE
        /\ sequence_plausible' = TRUE
        /\ distinct_seqs' = {seq}
    BY <2>1, <2>2 DEF ObserveEvidence, SsrcAgrees, SequenceNear, seq
  <2>4. /\ Len(evidence') = 1
        /\ evidence'[1] = packet
        /\ 1 .. Len(evidence') = {1} /\ 2 .. Len(evidence') = {}
    BY <1>2, <2>1
  <2>5. Summary'
    BY <1>2, <1>4, <1>5, <2>3, <2>4 DEF Summary, seq
  <2> QED
    BY <1>3, <2>5 DEF IInv
<1>7. CASE evidence # <<>>
  <2>1. /\ n >= 1 /\ n \in 1 .. n /\ 1 \in 1 .. n
        /\ ssrc = evidence[1].ssrc
        /\ last_seq = evidence[n].sequence_number
    <3>1. n # 0
      BY <1>2, <1>7, EmptySeq DEF n
    <3> QED
      BY <1>2, <1>7, <3>1 DEF IInv, Summary, n
  <2>2. ssrc # None /\ last_seq # None
    <3>1. evidence[1] \in Packet /\ evidence[n] \in Packet
      BY <1>2, <2>1, ElementOfSeq DEF n
    <3>2. ssrc \in Ssrc /\ last_seq \in SequenceNumber
      BY <2>1, <3>1 DEF Packet
    <3>3. last_seq \in Int
      BY <3>2 DEF SequenceNumber
    <3> QED
      BY <3>2, <3>3, FlowClassifierAssumption
  <2>3. ssrc' = ssrc /\ evidence'[1] = evidence[1]
    BY <1>2, <2>1, <2>2 DEF ObserveEvidence
  <2>4. ssrc_consistent' <=>
          \A i \in 1 .. Len(evidence') : evidence'[i].ssrc = ssrc'
    <3>1. ssrc_consistent' <=> ssrc_consistent /\ packet.ssrc = ssrc
      BY <2>2 DEF ObserveEvidence, SsrcAgrees
    <3>2. ssrc_consistent <=> \A i \in 1 .. n : evidence[i].ssrc = ssrc
      BY DEF IInv, Summary, n
    <3>3. 1 .. Len(evidence') = (1 .. n) \cup {n + 1}
      BY <1>2
    <3> QED
      BY <1>2, <2>3, <3>1, <3>2, <3>3
  <2>5. sequence_plausible' <=>
          \A i \in 2 .. Len(evidence') :
            Magnitude(WrappedDelta(evidence'[i - 1].sequence_number,
                                   evidence'[i].sequence_number)) =< SeqJumpThreshold
    <3> DEFINE Small(a, b) == Magnitude(WrappedDelta(a, b)) =< SeqJumpThreshold
    <3>1. sequence_plausible' <=> sequence_plausible /\ Small(last_seq, seq)
      BY <2>2 DEF ObserveEvidence, SequenceNear, seq
    <3>2. sequence_plausible <=>
            \A i \in 2 .. n : Small(evidence[i - 1].sequence_number,
                                    evidence[i].sequence_number)
      BY DEF IInv, Summary, n
    <3>3. Small(last_seq, seq) <=>
            Small(evidence'[(n + 1) - 1].sequence_number,
                  evidence'[n + 1].sequence_number)
      BY <1>2, <2>1 DEF seq
    <3> HIDE DEF Small
    <3>4. 2 .. Len(evidence') = (2 .. n) \cup {n + 1}
      BY <1>2, <2>1
    <3>5. \A i \in 2 .. n : /\ evidence'[i] = evidence[i]
                            /\ evidence'[i - 1] = evidence[i - 1]
      BY <1>2
    <3>6. sequence_plausible' <=>
            \A i \in 2 .. Len(evidence') : Small(evidence'[i - 1].sequence_number,
                                                 evidence'[i].sequence_number)
      BY <3>1, <3>2, <3>3, <3>4, <3>5
    <3> QED
      BY <3>6 DEF Small
  <2>6. distinct_seqs' =
          {evidence'[i].sequence_number : i \in 1 .. Len(evidence')}
    <3>1. distinct_seqs' = distinct_seqs \cup {seq}
      BY DEF ObserveEvidence, seq
    <3>2. distinct_seqs = {evidence[i].sequence_number : i \in 1 .. n}
      BY DEF IInv, Summary, n
    <3>3. 1 .. Len(evidence') = (1 .. n) \cup {n + 1}
      BY <1>2
    <3> QED
      BY <1>2, <3>1, <3>2, <3>3 DEF seq
  <2>7. Summary'
    BY <1>2, <1>4, <1>5, <2>1, <2>3, <2>4, <2>5, <2>6 DEF Summary
  <2> QED
    BY <1>3, <2>7 DEF IInv
<1> QED
  BY <1>6, <1>7

LEMMA SummaryStep == IInv /\ [Next]_vars => IInv'
<1> SUFFICES ASSUME IInv, [Next]_vars
             PROVE  IInv'
  OBVIOUS
<1>1. CASE ObserveGarbage
  BY <1>1, FlowClassifierAssumption DEF ObserveGarbage, IInv, TypeOK, Summary
<1>2. ASSUME NEW packet \in Packet, ObserveCollision(packet)
      PROVE  IInv'
  BY <1>2, FlowClassifierAssumption DEF ObserveCollision, IInv, TypeOK, Summary
<1>3. ASSUME NEW packet \in Packet, ObserveEvidence(packet)
      PROVE  IInv'
  BY <1>3, EvidenceStep
<1>4. CASE UNCHANGED vars
  BY <1>4 DEF vars, state, IInv, TypeOK, Summary
<1> QED
  BY <1>1, <1>2, <1>3, <1>4 DEF Next

THEOREM SummaryHolds == Spec => []IInv
  BY SummaryInit, SummaryStep, PTL DEF Spec

(* The state of the classifier is well typed.                                *)
THEOREM TypeCorrect == Spec => []TypeOK
<1>1. IInv => TypeOK
  BY DEF IInv
<1> QED
  BY <1>1, SummaryHolds, PTL

----------------------------------------------------------------------------
(* The signals and the verdict                                               *)

(* A finite set has more than one element exactly when two of its elements   *)
(* differ.                                                                   *)
LEMMA MoreThanOne ==
  ASSUME NEW S, IsFiniteSet(S)
  PROVE  Cardinality(S) > 1 <=> \E x, y \in S : x # y
<1>1. CASE S = {}
  <2>1. Cardinality(S) = 0
    BY <1>1, FS_EmptySet
  <2> QED
    BY <1>1, <2>1
<1>2. CASE S # {}
  <2>1. PICK x \in S : TRUE
    BY <1>2
  <2> DEFINE R == S \ {x}
  <2>2. IsFiniteSet(R) /\ Cardinality(R) = Cardinality(S) - 1
    BY <2>1, FS_RemoveElement
  <2>3. Cardinality(R) \in Nat /\ Cardinality(S) \in Nat
    BY <2>2, FS_CardinalityType
  <2>4. Cardinality(R) = 0 <=> R = {}
    BY <2>2, FS_EmptySet
  <2>5. R = {} <=> \A y, z \in S : y = z
    BY <2>1
  <2> HIDE DEF R
  <2>6. Cardinality(S) > 1 <=> Cardinality(R) # 0
    BY <2>2, <2>3
  <2> QED
    BY <2>4, <2>5, <2>6
<1> QED
  BY <1>1, <1>2

LEMMA SignalsFromSummary == IInv => SignalsOfEvidence
<1> SUFFICES ASSUME IInv
             PROVE  SignalsOfEvidence
  OBVIOUS
<1> DEFINE n == Len(evidence)
<1>1. /\ evidence \in Seq(Packet) /\ n \in Nat
      /\ DOMAIN evidence = 1 .. n
      /\ \A i \in 1 .. n : evidence[i] \in Packet
  <2>1. evidence \in Seq(Packet)
    BY DEF IInv, TypeOK
  <2> QED
    BY <2>1, LenProperties, ElementOfSeq
<1> HIDE DEF n
<1>2. ssrc_consistent <=> OneSource
  <2>1. ssrc_consistent <=> \A i \in 1 .. n : evidence[i].ssrc = ssrc
    BY DEF IInv, Summary, n
  <2>2. n # 0 => 1 \in 1 .. n /\ ssrc = evidence[1].ssrc
    <3>1. n # 0 => evidence # <<>>
      BY DEF n
    <3> QED
      BY <1>1, <3>1 DEF IInv, Summary
  <2>3. CASE n = 0
    BY <1>1, <2>1, <2>3 DEF OneSource
  <2>4. CASE n # 0
    BY <1>1, <2>1, <2>2, <2>4 DEF OneSource
  <2> QED
    BY <2>3, <2>4
<1>3. sequence_plausible <=> NoJumps
  <2>1. DOMAIN evidence \ {1} = 2 .. n
    BY <1>1
  <2>2. ASSUME NEW i \in 2 .. n
        PROVE  Magnitude(WrappedDelta(evidence[i - 1].sequence_number,
                                      evidence[i].sequence_number)) =< SeqJumpThreshold
               <=> Near(evidence[i - 1].sequence_number, evidence[i].sequence_number)
    <3>1. i \in 1 .. n /\ i - 1 \in 1 .. n
      BY <1>1
    <3>2. /\ evidence[i - 1].sequence_number \in SequenceNumber
          /\ evidence[i].sequence_number \in SequenceNumber
      BY <1>1, <3>1 DEF Packet
    <3> QED
      BY <3>2, WrappedDeltaIsNear
  <2>3. sequence_plausible <=>
          \A i \in 2 .. n :
            Magnitude(WrappedDelta(evidence[i - 1].sequence_number,
                                   evidence[i].sequence_number)) =< SeqJumpThreshold
    BY DEF IInv, Summary, n
  <2> QED
    BY <2>1, <2>2, <2>3 DEF NoJumps
<1>4. SequenceProgressing <=> Progress
  <2>1. IsFiniteSet(distinct_seqs)
    <3>1. SeqSpace - 1 \in Int
      BY SeqModHalfAssumption DEF SeqSpace
    <3>2. IsFiniteSet(SequenceNumber)
      BY <3>1, FS_Interval DEF SequenceNumber
    <3> QED
      BY <3>2, FS_Subset DEF IInv, TypeOK
  <2>2. distinct_seqs = {evidence[i].sequence_number : i \in 1 .. n}
    BY DEF IInv, Summary, n
  <2>3. SequenceProgressing <=> \E x, y \in distinct_seqs : x # y
    BY <2>1, MoreThanOne DEF SequenceProgressing
  <2> QED
    BY <1>1, <2>2, <2>3 DEF Progress
<1>5. packets_parsed = Len(evidence)
  BY DEF IInv, Summary
<1> QED
  BY <1>2, <1>3, <1>4, <1>5 DEF SignalsOfEvidence

(* Each signal says of the flow what its packets say.                        *)
THEOREM SignalsOfEvidenceHolds == Spec => []SignalsOfEvidence
  BY SignalsFromSummary, SummaryHolds, PTL

(* The verdict is that of a reader of the whole flow.                        *)
THEOREM VerdictOfEvidenceHolds == Spec => []VerdictOfEvidence
<1>1. SignalsOfEvidence => VerdictOfEvidence
  BY DEF SignalsOfEvidence, VerdictOfEvidence, IsLikelyRtp
<1> QED
  BY <1>1, SignalsOfEvidenceHolds, PTL

(* A flow once refuted is never accepted again.                              *)
THEOREM RefutationIsFinalHolds == Spec => RefutationIsFinal
<1>1. [Next]_vars =>
        [~(ssrc_consistent /\ sequence_plausible) => ~IsLikelyRtp']_vars
  <2> SUFFICES ASSUME Next, ~(ssrc_consistent /\ sequence_plausible)
               PROVE  ~IsLikelyRtp'
    OBVIOUS
  <2>1. ~(ssrc_consistent' /\ sequence_plausible')
    BY Zenon DEF Next, ObserveGarbage, ObserveCollision, ObserveEvidence
  <2> QED
    BY <2>1 DEF IsLikelyRtp
<1> QED
  BY <1>1, PTL DEF Spec, RefutationIsFinal
=============================================================================
