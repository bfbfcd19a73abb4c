---------------------------- MODULE StreamProofs ----------------------------
(* The invariants of StreamTracker hold for every sequence space, set of     *)
(* sources, timestamps and arrival times, and any number of packets; so do   *)
(* those of the two sessions, in which a tracker is at the far end of a      *)
(* network, for every start of the numbering.  (Nothing that is proved of    *)
(* the tracker uses what a session assumes, and nothing that is proved of    *)
(* one session what the other one does.)                                     *)
EXTENDS RtpSession, PacedSession, FiniteSetTheorems, FunctionTheorems, TLAPS

----------------------------------------------------------------------------
(* Sequence numbers.                                                         *)

(* Euclidean division by the modulus: the masks & 0xFFFF and & ~0xFFFF of    *)
(* the code split an extended sequence number into these two parts.          *)
LEMMA SeqSpaceDivision ==
  ASSUME NEW a \in Int
  PROVE  /\ a % SeqSpace \in 0 .. SeqSpace - 1
         /\ \E q \in Int : a = (q * SeqSpace) + (a % SeqSpace)
<1>1. SeqSpace \in Nat \ {0}
  BY SeqModHalfAssumption DEF SeqSpace
<1>2. PICK q \in Int : q = a \div SeqSpace
  BY <1>1
<1>3. a = (q * SeqSpace) + (a % SeqSpace)
  BY <1>1, <1>2
<1>4. a % SeqSpace \in 0 .. SeqSpace - 1
  BY <1>1
<1> QED
  BY <1>3, <1>4

(* The remainder is unique: whatever multiple of the modulus is added to a   *)
(* sequence number, the same number is found on the wire.                    *)
LEMMA SeqSpaceRemainder ==
  ASSUME NEW q \in Int, NEW r \in SequenceNumber
  PROVE  ((q * SeqSpace) + r) % SeqSpace = r
<1>1. SeqSpace \in Nat \ {0}
  BY SeqModHalfAssumption DEF SeqSpace
<1> QED
  BY <1>1 DEF SequenceNumber

(* Extend (_StreamState._extend) never invents a sequence number: what it    *)
(* returns is congruent to the number on the wire, and it lies within half   *)
(* the sequence space of the highest number seen.                            *)
THEOREM ExtendIsNearAndCongruent ==
  ASSUME NEW h \in Int, NEW s \in SequenceNumber
  PROVE  /\ Extend(h, s) \in Int
         /\ Extend(h, s) % SeqSpace = s
         /\ Extend(h, s) >= h - SeqModHalf
         /\ Extend(h, s) =< h + SeqModHalf
<1> DEFINE p == h % SeqSpace
<1>1. SeqSpace \in Nat \ {0} /\ SeqModHalf \in Nat /\ SeqSpace = SeqModHalf + SeqModHalf
  BY SeqModHalfAssumption DEF SeqSpace
<1>2. p \in SequenceNumber
  BY SeqSpaceDivision DEF SequenceNumber
<1>3. PICK q \in Int : h = (q * SeqSpace) + p
  BY SeqSpaceDivision
<1> HIDE DEF p
<1>4. \E k \in -1 .. 1 :
         /\ Extend(h, s) = h + (s - p) + (k * SeqSpace)
         /\ Extend(h, s) >= h - SeqModHalf
         /\ Extend(h, s) =< h + SeqModHalf
  <2>1. CASE s - p > SeqModHalf
    <3>1. Extend(h, s) = h + (s - p) + ((-1) * SeqSpace)
      BY <1>1, <1>2, <2>1 DEF Extend, p, SequenceNumber
    <3> QED
      BY <3>1, <1>1, <1>2, <2>1 DEF SequenceNumber
  <2>2. CASE s - p < -SeqModHalf
    <3>1. Extend(h, s) = h + (s - p) + (1 * SeqSpace)
      BY <1>1, <1>2, <2>2 DEF Extend, p, SequenceNumber
    <3> QED
      BY <3>1, <1>1, <1>2, <2>2 DEF SequenceNumber
  <2>3. CASE ~(s - p > SeqModHalf) /\ ~(s - p < -SeqModHalf)
    <3>1. Extend(h, s) = h + (s - p) + (0 * SeqSpace)
      BY <1>1, <1>2, <2>3 DEF Extend, p, SequenceNumber
    <3> QED
      BY <3>1, <1>1, <1>2, <2>3 DEF SequenceNumber
  <2> QED
    BY <2>1, <2>2, <2>3
<1>5. PICK k \in -1 .. 1 : Extend(h, s) = h + (s - p) + (k * SeqSpace)
  BY <1>4
<1>6. Extend(h, s) = ((q + k) * SeqSpace) + s
  BY <1>1, <1>2, <1>3, <1>5 DEF SequenceNumber
<1>7. Extend(h, s) % SeqSpace = s
  BY <1>6, SeqSpaceRemainder
<1>8. Extend(h, s) \in Int
  BY <1>1, <1>6 DEF SequenceNumber
<1> QED
  BY <1>4, <1>7, <1>8

(* Unwrapping is exact inside the window the tracker documents: a number     *)
(* less than half the space away from the highest one is recovered from its  *)
(* last SeqSpace bits, however often the counter has wrapped.                  *)
THEOREM ExtendIsExact ==
  ASSUME NEW h \in Int, NEW t \in Int,
         t - h < SeqModHalf, h - t < SeqModHalf
  PROVE  Extend(h, t % SeqSpace) = t
<1> DEFINE p == h % SeqSpace
           s == t % SeqSpace
<1>1. SeqSpace \in Nat \ {0} /\ SeqModHalf \in Nat /\ SeqSpace = SeqModHalf + SeqModHalf
  BY SeqModHalfAssumption DEF SeqSpace
<1>2. p \in SequenceNumber /\ s \in SequenceNumber
  BY SeqSpaceDivision DEF SequenceNumber
<1>3. PICK q \in Int : h = (q * SeqSpace) + p
  BY SeqSpaceDivision
<1>4. PICK j \in Int : t = (j * SeqSpace) + s
  BY SeqSpaceDivision
<1>5. Extend(h, s) = IF s - p > SeqModHalf THEN h + ((s - p) - SeqSpace)
                     ELSE IF s - p < -SeqModHalf THEN h + ((s - p) + SeqSpace)
                     ELSE h + (s - p)
  BY <1>1, <1>2 DEF Extend, SequenceNumber
<1> HIDE DEF p, s
<1>6. t - h = ((j - q) * SeqSpace) + (s - p)
  BY <1>1, <1>2, <1>3, <1>4 DEF SequenceNumber
<1>7. j - q \in -1 .. 1
  BY <1>1, <1>2, <1>6 DEF SequenceNumber
<1>8. CASE j - q = -1
  BY <1>1, <1>2, <1>5, <1>6, <1>8 DEF SequenceNumber, s
<1>9. CASE j - q = 0
  <2>1. t - h = (0 * SeqSpace) + (s - p)
    BY <1>6, <1>9
  <2>2. t - h = s - p
    BY <2>1, <1>1, <1>2 DEF SequenceNumber
  <2>3. Extend(h, s) = h + (s - p)
    BY <2>2, <1>1, <1>2, <1>5 DEF SequenceNumber
  <2> QED
    BY <2>2, <2>3 DEF s
<1>10. CASE j - q = 1
  BY <1>1, <1>2, <1>5, <1>6, <1>10 DEF SequenceNumber, s
<1> QED
  BY <1>7, <1>8, <1>9, <1>10

----------------------------------------------------------------------------
(* The tracker.                                                              *)

(* The inductive invariant of one source.                                    *)
StreamInv(s, st) ==
  /\ StreamTypeOK(st)
  /\ Accounted(st)
  /\ KeysOK(s, st)
  /\ BurstBounded(st)
  /\ OutOfOrderBounded(st)

IInv ==
  /\ DOMAIN states \subseteq Ssrc
  /\ \A s \in DOMAIN states : StreamInv(s, states[s])

(* The inputs of observe().                                                  *)
LEMMA PacketType ==
  ASSUME NEW packet \in Packet, NEW arrival \in Arrival
  PROVE  /\ packet.sequence_number \in SequenceNumber
         /\ packet.sequence_number \in Nat
         /\ packet.payload_type \in PayloadType
         /\ packet.timestamp \in Nat
         /\ arrival \in Int
         /\ arrival - packet.timestamp \in Int
<1>1. /\ packet.sequence_number \in SequenceNumber
      /\ packet.payload_type \in PayloadType
      /\ packet.timestamp \in Timestamp
  BY DEF Packet
<1>2. packet.timestamp \in Nat
  BY <1>1, StreamTrackerAssumption
<1>3. arrival \in Int
  BY StreamTrackerAssumption
<1>4. packet.sequence_number \in Nat
  BY <1>1, SeqModHalfAssumption DEF SequenceNumber, SeqSpace
<1> QED
  BY <1>1, <1>2, <1>3, <1>4

(* The jitter stays a non-negative fraction.                                 *)
LEMMA JitterType ==
  ASSUME NEW st, NEW transit \in Int,
         st.jitter \in [num: Nat, den: Nat \ {0}],
         st.prev_transit \in Int \cup {None}
  PROVE  UpdateJitter(st, transit) \in [num: Nat, den: Nat \ {0}]
<1>1. CASE st.prev_transit = None
  BY <1>1 DEF UpdateJitter
<1>2. CASE st.prev_transit # None
  <2>1. st.prev_transit \in Int
    BY <1>2
  <2> DEFINE m == Magnitude(transit - st.prev_transit)
             num == st.jitter.num
             den == st.jitter.den
  <2>2. m \in Nat
    BY <2>1 DEF Magnitude
  <2>3. num \in Nat /\ den \in Nat \ {0}
    OBVIOUS
  <2>4. UpdateJitter(st, transit) = [num |-> (15 * num) + (m * den), den |-> 16 * den]
    BY <1>2 DEF UpdateJitter
  <2> HIDE DEF m, num, den
  <2>5. m * den \in Nat
    BY <2>2, <2>3
  <2> QED
    BY <2>3, <2>4, <2>5
<1> QED
  BY <1>1, <1>2

(* The first packet of a source: the state created for it is complete.       *)
LEMMA FirstObservation ==
  ASSUME NEW packet \in Packet, NEW arrival \in Arrival
  PROVE  StreamInv(packet.ssrc, ObserveState(NewState(packet), packet, arrival))
<1> DEFINE new == NewState(packet)
           st  == ObserveState(new, packet, arrival)
           e   == packet.sequence_number
<1>1. /\ e \in SequenceNumber /\ e \in Nat
      /\ arrival - packet.timestamp \in Int
      /\ packet.payload_type \in PayloadType
  BY PacketType
<1>2. ExtSeq(new, packet.sequence_number) = e
  BY DEF ExtSeq, NewState
<1>3. /\ ~IsDuplicate(new, e) /\ ~IsOutOfOrder(new, e)
      /\ FirstExtSeq(new, e) = e /\ HighestExtSeq(new, e) = e
  BY DEF IsDuplicate, IsOutOfOrder, FirstExtSeq, HighestExtSeq, NewState
<1>4. Retain(new, e, packet) = [k \in {e} |-> packet]
  BY <1>3 DEF Retain, NewState
<1>5. UpdateJitter(new, arrival - packet.timestamp) \in [num: Nat, den: Nat \ {0}]
  BY <1>1, JitterType DEF NewState
<1>6. st = [payload_type       |-> packet.payload_type,
            packet_count       |-> 1,
            duplicate_count    |-> 0,
            out_of_order_count |-> 0,
            first_ext_seq      |-> e,
            highest_ext_seq    |-> e,
            jitter             |-> UpdateJitter(new, arrival - packet.timestamp),
            prev_transit       |-> arrival - packet.timestamp,
            seen_ext_seqs      |-> {e},
            packets            |-> [k \in {e} |-> packet]]
  <2>1. /\ new.packet_count = 0 /\ new.duplicate_count = 0
        /\ new.out_of_order_count = 0 /\ new.seen_ext_seqs = {}
    BY DEF NewState
  <2>2. new.packet_count + 1 = 1 /\ new.seen_ext_seqs \cup {e} = {e}
    BY <2>1
  <2> HIDE DEF new
  <2> QED
    BY <1>2, <1>3, <1>4, <2>1, <2>2 DEF ObserveState
<1> HIDE DEF st
<1>7. StreamTypeOK(st)
  <2>1. IsFiniteSet({e})
    BY FS_Singleton
  <2> QED
    BY <1>1, <1>5, <1>6, <2>1 DEF StreamTypeOK
<1>8. Cardinality({e}) = 1
  BY FS_Singleton
<1>9. Accounted(st)
  BY <1>6, <1>8 DEF Accounted
<1>10. KeysOK(packet.ssrc, st)
  <2>1. e % SeqSpace = e
    BY <1>1, SeqModHalfAssumption DEF SequenceNumber, SeqSpace
  <2> QED
    BY <1>1, <1>6, <2>1 DEF KeysOK
<1>11. BurstBounded(st)
  BY <1>6 DEF BurstBounded
<1>12. OutOfOrderBounded(st)
  <2>1. Early(st) = {}
    BY <1>1, <1>6 DEF Early
  <2>2. Cardinality(Early(st)) = 0
    BY <2>1, FS_EmptySet
  <2> QED
    BY <1>6, <1>8, <2>2 DEF OutOfOrderBounded
<1> QED
  BY <1>7, <1>9, <1>10, <1>11, <1>12 DEF StreamInv, st, new

(* A further packet of the source.                                           *)
LEMMA NextObservation ==
  ASSUME NEW s \in Ssrc, NEW st, StreamInv(s, st),
         NEW packet \in Packet, packet.ssrc = s, NEW arrival \in Arrival
  PROVE  StreamInv(s, ObserveState(st, packet, arrival))
<1> DEFINE seq     == packet.sequence_number
           e       == Extend(st.highest_ext_seq, seq)
           transit == arrival - packet.timestamp
           nst     == ObserveState(st, packet, arrival)
<1>1. /\ seq \in SequenceNumber
      /\ transit \in Int
      /\ packet.payload_type \in PayloadType
  BY PacketType
<1>2. /\ StreamTypeOK(st) /\ Accounted(st) /\ KeysOK(s, st)
      /\ BurstBounded(st) /\ OutOfOrderBounded(st)
  BY DEF StreamInv
<1>3. /\ st.first_ext_seq \in Int /\ st.first_ext_seq # None
      /\ st.highest_ext_seq \in Int /\ st.highest_ext_seq # None
      /\ \A k \in st.seen_ext_seqs : k \in Int
      /\ IsFiniteSet(st.seen_ext_seqs)
      /\ Cardinality(st.seen_ext_seqs) \in Nat
  BY <1>2, StreamTrackerAssumption, FS_CardinalityType DEF StreamTypeOK
<1>4. /\ e \in Int
      /\ e % SeqSpace = seq
      /\ e >= st.highest_ext_seq - SeqModHalf
      /\ e =< st.highest_ext_seq + SeqModHalf
  BY <1>1, <1>3, ExtendIsNearAndCongruent
<1>5. ExtSeq(st, seq) = e
  BY <1>3 DEF ExtSeq
<1>6. FirstExtSeq(st, e) = st.first_ext_seq
  BY <1>3 DEF FirstExtSeq
<1> HIDE DEF e, seq, transit
<1>7. nst = [payload_type       |-> packet.payload_type,
             packet_count       |-> st.packet_count + 1,
             duplicate_count    |-> IF IsDuplicate(st, e)
                                    THEN st.duplicate_count + 1
                                    ELSE st.duplicate_count,
             out_of_order_count |-> IF IsOutOfOrder(st, e)
                                    THEN st.out_of_order_count + 1
                                    ELSE st.out_of_order_count,
             first_ext_seq      |-> st.first_ext_seq,
             highest_ext_seq    |-> HighestExtSeq(st, e),
             jitter             |-> UpdateJitter(st, transit),
             prev_transit       |-> transit,
             seen_ext_seqs      |-> st.seen_ext_seqs \cup {e},
             packets            |-> Retain(st, e, packet)]
  BY <1>5, <1>6 DEF ObserveState, seq, transit
<1> HIDE DEF nst
<1>8. /\ HighestExtSeq(st, e) \in {st.highest_ext_seq, e}
      /\ HighestExtSeq(st, e) >= st.highest_ext_seq
      /\ HighestExtSeq(st, e) >= e
  BY <1>3, <1>4 DEF HighestExtSeq
<1>9. /\ DOMAIN Retain(st, e, packet) = st.seen_ext_seqs \cup {e}
      /\ Retain(st, e, packet) \in [st.seen_ext_seqs \cup {e} -> Packet]
      /\ \A k \in st.seen_ext_seqs :
           Retain(st, e, packet)[k] = st.packets[k]
      /\ e \notin st.seen_ext_seqs => Retain(st, e, packet)[e] = packet
  <2>1. st.packets \in [st.seen_ext_seqs -> Packet]
    BY <1>2 DEF StreamTypeOK
  <2>2. CASE e \in st.seen_ext_seqs
    <3>1. st.seen_ext_seqs \cup {e} = st.seen_ext_seqs
      BY <2>2
    <3>2. Retain(st, e, packet) = st.packets
      BY <2>2 DEF Retain, IsDuplicate
    <3> QED
      BY <2>1, <2>2, <3>1, <3>2
  <2>3. CASE e \notin st.seen_ext_seqs
    <3>1. Retain(st, e, packet) =
            [k \in st.seen_ext_seqs \cup {e} |->
               IF k = e THEN packet ELSE st.packets[k]]
      BY <2>1, <2>3 DEF Retain, IsDuplicate
    <3> QED
      BY <2>1, <2>3, <3>1
  <2> QED
    BY <2>2, <2>3
<1>10. /\ IsFiniteSet(st.seen_ext_seqs \cup {e})
       /\ Cardinality(st.seen_ext_seqs \cup {e}) =
            IF e \in st.seen_ext_seqs THEN Cardinality(st.seen_ext_seqs)
            ELSE Cardinality(st.seen_ext_seqs) + 1
  BY <1>3, FS_AddElement
<1>11. StreamTypeOK(nst)
  <2>1. UpdateJitter(st, transit) \in [num: Nat, den: Nat \ {0}]
    BY <1>1, <1>2, JitterType DEF StreamTypeOK, transit
  <2>2. HighestExtSeq(st, e) \in Int
    BY <1>3, <1>4, <1>8
  <2>3. \A k \in st.seen_ext_seqs \cup {e} : k \in Int
    BY <1>3, <1>4
  <2>4. /\ st.packet_count \in Nat \ {0} /\ st.duplicate_count \in Nat
        /\ st.out_of_order_count \in Nat
    BY <1>2 DEF StreamTypeOK
  <2>5. nst = [payload_type       |-> nst.payload_type,
               packet_count       |-> nst.packet_count,
               duplicate_count    |-> nst.duplicate_count,
               out_of_order_count |-> nst.out_of_order_count,
               first_ext_seq      |-> nst.first_ext_seq,
               highest_ext_seq    |-> nst.highest_ext_seq,
               jitter             |-> nst.jitter,
               prev_transit       |-> nst.prev_transit,
               seen_ext_seqs      |-> nst.seen_ext_seqs,
               packets            |-> nst.packets]
    BY <1>7
  <2>6. /\ nst.payload_type \in PayloadType
        /\ nst.packet_count \in Nat \ {0}
        /\ nst.duplicate_count \in Nat
        /\ nst.out_of_order_count \in Nat
        /\ nst.first_ext_seq \in Int
        /\ nst.highest_ext_seq \in Int
    BY <1>1, <1>3, <1>7, <2>2, <2>4
  <2>7. /\ nst.jitter \in [num: Nat, den: Nat \ {0}]
        /\ nst.prev_transit \in Int
        /\ \A k \in nst.seen_ext_seqs : k \in Int
        /\ IsFiniteSet(nst.seen_ext_seqs)
        /\ nst.packets \in [nst.seen_ext_seqs -> Packet]
    BY <1>1, <1>7, <1>9, <1>10, <2>1, <2>3
  <2> QED
    BY <2>5, <2>6, <2>7 DEF StreamTypeOK
<1>12. Accounted(nst)
  BY <1>2, <1>3, <1>7, <1>10 DEF Accounted, StreamTypeOK, IsDuplicate
<1>13. KeysOK(s, nst)
  <2>1. ASSUME NEW k \in st.seen_ext_seqs \cup {e}
        PROVE  /\ Retain(st, e, packet)[k].ssrc = s
               /\ Retain(st, e, packet)[k].sequence_number = k % SeqSpace
               /\ k =< HighestExtSeq(st, e)
    <3>1. CASE k \in st.seen_ext_seqs
      BY <1>2, <1>3, <1>8, <1>9, <3>1, <1>4 DEF KeysOK
    <3>2. CASE k \notin st.seen_ext_seqs
      <4>1. k = e
        BY <2>1, <3>2
      <4> QED
        BY <1>4, <1>8, <1>9, <3>2, <4>1 DEF seq
    <3> QED
      BY <3>1, <3>2
  <2>2. st.first_ext_seq \in st.seen_ext_seqs \cup {e}
    BY <1>2 DEF KeysOK
  <2>3. HighestExtSeq(st, e) \in st.seen_ext_seqs \cup {e}
    BY <1>2, <1>8 DEF KeysOK
  <2> QED
    BY <1>7, <2>1, <2>2, <2>3 DEF KeysOK
<1>14. BurstBounded(nst)
  <2> SUFFICES ASSUME NEW k \in (st.seen_ext_seqs \cup {e}) \ {HighestExtSeq(st, e)}
               PROVE  \E j \in st.seen_ext_seqs \cup {e} : k < j /\ j =< k + SeqModHalf
    BY <1>7 DEF BurstBounded
  <2>1. st.highest_ext_seq \in st.seen_ext_seqs
    BY <1>2 DEF KeysOK
  <2>2. SeqModHalf \in Nat
    BY SeqModHalfAssumption
  <2>3. CASE k = st.highest_ext_seq
    <3>1. k < e /\ e =< k + SeqModHalf
      BY <1>3, <1>4, <1>8, <2>3
    <3> QED
      BY <3>1
  <2>4. CASE k \in st.seen_ext_seqs \ {st.highest_ext_seq}
    BY <1>2, <2>4 DEF BurstBounded
  <2>5. CASE k \notin st.seen_ext_seqs
    <3>1. k = e
      BY <2>5
    <3>2. k < st.highest_ext_seq /\ st.highest_ext_seq =< k + SeqModHalf
      BY <1>3, <1>4, <1>8, <2>2, <3>1 DEF HighestExtSeq
    <3> QED
      BY <2>1, <3>2
  <2> QED
    BY <2>3, <2>4, <2>5
<1>15. OutOfOrderBounded(nst)
  <2>1. IsFiniteSet(Early(st)) /\ Cardinality(Early(st)) \in Nat
    BY <1>3, FS_Subset, FS_CardinalityType DEF Early
  <2>2. /\ st.first_ext_seq =< st.highest_ext_seq
        /\ st.out_of_order_count \in Nat
    BY <1>2 DEF KeysOK, StreamTypeOK
  <2>3. CASE e \in st.seen_ext_seqs
    <3>1. Early(nst) = Early(st)
      BY <1>7, <2>3 DEF Early
    <3>2. nst.out_of_order_count = st.out_of_order_count
      BY <1>7, <2>3 DEF IsOutOfOrder, IsDuplicate
    <3> QED
      BY <1>2, <1>7, <1>10, <2>3, <3>1, <3>2 DEF OutOfOrderBounded
  <2>4. CASE e \notin st.seen_ext_seqs /\ e < st.first_ext_seq
    <3>1. Early(nst) = Early(st) \cup {e} /\ e \notin Early(st)
      BY <1>7, <2>4 DEF Early
    <3>2. Cardinality(Early(nst)) = Cardinality(Early(st)) + 1
      BY <2>1, <3>1, FS_AddElement
    <3>3. nst.out_of_order_count = st.out_of_order_count + 1
      <4>1. IsOutOfOrder(st, e)
        BY <1>3, <1>4, <2>2, <2>4 DEF IsOutOfOrder, IsDuplicate
      <4> QED
        BY <1>7, <4>1
    <3>4. nst.seen_ext_seqs = st.seen_ext_seqs \cup {e}
      BY <1>7
    <3> QED
      BY <1>2, <1>3, <1>10, <2>1, <2>2, <2>4, <3>2, <3>3, <3>4 DEF OutOfOrderBounded
  <2>5. CASE e \notin st.seen_ext_seqs /\ ~(e < st.first_ext_seq)
    <3>1. Early(nst) = Early(st)
      BY <1>7, <2>5 DEF Early
    <3>2. /\ nst.out_of_order_count \in {st.out_of_order_count, st.out_of_order_count + 1}
          /\ nst.seen_ext_seqs = st.seen_ext_seqs \cup {e}
      BY <1>7
    <3> QED
      BY <1>2, <1>3, <1>10, <2>1, <2>2, <2>5, <3>1, <3>2 DEF OutOfOrderBounded
  <2> QED
    BY <2>3, <2>4, <2>5
<1> QED
  BY <1>11, <1>12, <1>13, <1>14, <1>15 DEF StreamInv, nst

----------------------------------------------------------------------------
(* One call of RtpStreamTracker.observe()                                    *)

LEMMA InductiveInit == Init => IInv
  BY DEF Init, IInv

(* Whatever observe() does to the table, it does to one source, and the      *)
(* state it leaves there satisfies the invariant of a source.                *)
LEMMA ObserveStep ==
  ASSUME IInv, NEW packet \in Packet, NEW arrival \in Arrival,
         Observe(packet, arrival)
  PROVE  IInv'
<1> DEFINE p == packet.ssrc
<1>1. p \in Ssrc
  BY DEF Packet
<1>2. states' = [s \in DOMAIN states \cup {p} |->
                   IF s = p THEN ObserveState(StateOf(packet), packet, arrival)
                   ELSE states[s]]
  BY DEF Observe
<1>3. StreamInv(p, ObserveState(StateOf(packet), packet, arrival))
  <2>1. CASE p \in DOMAIN states
    <3>1. StateOf(packet) = states[p] /\ StreamInv(p, states[p])
      BY <2>1 DEF StateOf, IInv
    <3> QED
      BY <1>1, <3>1, NextObservation
  <2>2. CASE p \notin DOMAIN states
    <3>1. StateOf(packet) = NewState(packet)
      BY <2>2 DEF StateOf
    <3> QED
      BY <3>1, FirstObservation
  <2> QED
    BY <2>1, <2>2
<1> HIDE DEF p
<1>4. DOMAIN states' = DOMAIN states \cup {p}
  BY <1>2
<1>5. ASSUME NEW s \in DOMAIN states'
      PROVE  StreamInv(s, states'[s])
  <2>1. CASE s = p
    BY <1>2, <1>3, <1>4, <2>1
  <2>2. CASE s # p
    <3>1. s \in DOMAIN states /\ states'[s] = states[s]
      BY <1>2, <1>4, <1>5, <2>2
    <3> QED
      BY <3>1 DEF IInv
  <2> QED
    BY <2>1, <2>2
<1>6. DOMAIN states' \subseteq Ssrc
  BY <1>1, <1>4 DEF IInv
<1> QED
  BY <1>5, <1>6 DEF IInv

LEMMA InductiveStep == IInv /\ [Next]_states => IInv'
<1> SUFFICES ASSUME IInv, [Next]_states
             PROVE  IInv'
  OBVIOUS
<1>1. CASE Next
  BY <1>1, ObserveStep DEF Next
<1>2. CASE UNCHANGED states
  BY <1>2 DEF IInv
<1> QED
  BY <1>1, <1>2

THEOREM Inductive == Spec => []IInv
  BY InductiveInit, InductiveStep, PTL DEF Spec

(* Every state the tracker holds is complete and well typed.                 *)
THEOREM TypeCorrect == Spec => []TypeOK
<1>1. IInv => TypeOK
  BY DEF IInv, StreamInv, TypeOK
<1> QED
  BY <1>1, Inductive, PTL

(* Every packet is retained or counted as a duplicate, never both.           *)
THEOREM AccountingHolds == Spec => []Accounting
<1>1. IInv => Accounting
  BY DEF IInv, StreamInv, Accounting
<1> QED
  BY <1>1, Inductive, PTL

(* Packets are filed under numbers congruent to the ones on the wire, with   *)
(* their own source, and never above the highest number.                     *)
THEOREM KeysMatchWireHolds == Spec => []KeysMatchWire
<1>1. IInv => KeysMatchWire
  BY DEF IInv, StreamInv, KeysMatchWire
<1> QED
  BY <1>1, Inductive, PTL

(* No burst of loss the tracker reports reaches half the sequence space.     *)
THEOREM LossBurstBoundedHolds == Spec => []LossBurstBounded
<1>1. IInv => LossBurstBounded
  BY DEF IInv, StreamInv, LossBurstBounded
<1> QED
  BY <1>1, Inductive, PTL

(* The out-of-order count lies between the packets that belong before the    *)
(* first and all packets but one.                                            *)
THEOREM OutOfOrderBoundsHold == Spec => []OutOfOrderBounds
<1>1. IInv => OutOfOrderBounds
  BY DEF IInv, StreamInv, OutOfOrderBounds
<1> QED
  BY <1>1, Inductive, PTL

----------------------------------------------------------------------------
(* Loss                                                                      *)

(* The numbers from first to highest are those that arrived and those        *)
(* missing; the numbers that arrived are those and the early ones.           *)
LEMMA StreamLoss ==
  ASSUME NEW s, NEW st, StreamInv(s, st)
  PROVE  LossReported(st)
<1> DEFINE range == st.first_ext_seq .. st.highest_ext_seq
           seen  == st.seen_ext_seqs
           in    == range \cap seen
<1>1. /\ StreamTypeOK(st) /\ Accounted(st) /\ KeysOK(s, st)
  BY DEF StreamInv
<1>2. /\ st.first_ext_seq \in Int /\ st.highest_ext_seq \in Int
      /\ st.first_ext_seq =< st.highest_ext_seq
      /\ IsFiniteSet(seen)
      /\ \A k \in seen : k \in Int /\ k =< st.highest_ext_seq
      /\ st.packet_count = st.duplicate_count + Cardinality(seen)
      /\ st.packet_count \in Nat /\ st.duplicate_count \in Nat
  BY <1>1 DEF StreamTypeOK, Accounted, KeysOK
<1>3. /\ IsFiniteSet(range)
      /\ Cardinality(range) = st.highest_ext_seq - st.first_ext_seq + 1
  <2>1. /\ IsFiniteSet(range)
        /\ Cardinality(range) =
             IF st.first_ext_seq > st.highest_ext_seq THEN 0
             ELSE st.highest_ext_seq - st.first_ext_seq + 1
    BY <1>2, FS_Interval
  <2> HIDE DEF range
  <2> QED
    BY <1>2, <2>1
<1>4. /\ Missing(st) = range \ seen
      /\ Early(st) = seen \ range
      /\ seen \cap range = in
  <2>1. seen \ range = {k \in seen : k < st.first_ext_seq}
    BY <1>2
  <2> QED
    BY <2>1 DEF Missing, Early
<1> HIDE DEF range, seen
<1>5. /\ Cardinality(range \ seen) = Cardinality(range) - Cardinality(in)
      /\ Cardinality(seen \ range) = Cardinality(seen) - Cardinality(in)
  <2>1. IsFiniteSet(range) /\ IsFiniteSet(seen) /\ range \cap seen = in
        /\ seen \cap range = in
    BY <1>2, <1>3, <1>4
  <2> HIDE DEF in
  <2>2. ASSUME NEW S, NEW T, NEW U, IsFiniteSet(S), S \cap T = U
        PROVE  Cardinality(S \ T) = Cardinality(S) - Cardinality(U)
    BY <2>2, FS_Difference, Zenon
  <2>3. Cardinality(range \ seen) = Cardinality(range) - Cardinality(in)
    BY <2>1, <2>2, Zenon
  <2>4. Cardinality(seen \ range) = Cardinality(seen) - Cardinality(in)
    BY <2>1, <2>2, Zenon
  <2> QED
    BY <2>3, <2>4
<1>6. /\ Cardinality(in) \in Nat /\ Cardinality(seen) \in Nat
      /\ Cardinality(range) \in Nat
  BY <1>2, <1>3, FS_CardinalityType, FS_Subset
<1>7. ExpectedCount(st) - (st.packet_count - st.duplicate_count)
        = Cardinality(Missing(st)) - Cardinality(Early(st))
  BY <1>2, <1>3, <1>4, <1>5, <1>6 DEF ExpectedCount
<1> QED
  BY <1>7 DEF LossReported, LostCount

(* What lost_count reports is the number of packets missing from the range,  *)
(* less one for each packet that arrived from before it.                     *)
THEOREM LossReportHolds == Spec => []LossReport
<1>1. IInv => LossReport
  BY StreamLoss DEF IInv, LossReport
<1> QED
  BY <1>1, Inductive, PTL

----------------------------------------------------------------------------
(* History                                                                   *)

(* What one call leaves as it was in the state of its source.                *)
LEMMA StreamHistory ==
  ASSUME NEW s, NEW st, StreamInv(s, st), NEW packet \in Packet,
         NEW arrival \in Arrival
  PROVE  LET nst == ObserveState(st, packet, arrival) IN
         /\ \A k \in DOMAIN st.packets :
              /\ k \in DOMAIN nst.packets
              /\ nst.packets[k] = st.packets[k]
         /\ nst.first_ext_seq = st.first_ext_seq
         /\ nst.highest_ext_seq >= st.highest_ext_seq
         /\ nst.duplicate_count >= st.duplicate_count
         /\ nst.out_of_order_count >= st.out_of_order_count
<1> DEFINE e   == ExtSeq(st, packet.sequence_number)
           nst == ObserveState(st, packet, arrival)
<1>1. /\ st.first_ext_seq \in Int /\ st.first_ext_seq # None
      /\ st.highest_ext_seq \in Int /\ st.highest_ext_seq # None
      /\ st.duplicate_count \in Nat /\ st.out_of_order_count \in Nat
      /\ st.packets \in [st.seen_ext_seqs -> Packet]
  BY StreamTrackerAssumption DEF StreamInv, StreamTypeOK
<1>2. e \in Int
  BY <1>1, PacketType, ExtendIsNearAndCongruent DEF ExtSeq
<1>3. /\ nst.packets = Retain(st, e, packet)
      /\ nst.first_ext_seq = FirstExtSeq(st, e)
      /\ nst.highest_ext_seq = HighestExtSeq(st, e)
      /\ nst.duplicate_count \in {st.duplicate_count, st.duplicate_count + 1}
      /\ nst.out_of_order_count
           \in {st.out_of_order_count, st.out_of_order_count + 1}
  BY DEF ObserveState
<1> HIDE DEF e, nst
<1>4. \A k \in DOMAIN st.packets :
        /\ k \in DOMAIN nst.packets
        /\ nst.packets[k] = st.packets[k]
  <2>1. CASE e \in st.seen_ext_seqs
    BY <1>3, <2>1 DEF Retain, IsDuplicate
  <2>2. CASE e \notin st.seen_ext_seqs
    BY <1>1, <1>3, <2>2 DEF Retain, IsDuplicate
  <2> QED
    BY <2>1, <2>2
<1>5. nst.first_ext_seq = st.first_ext_seq
  BY <1>1, <1>3 DEF FirstExtSeq
<1>6. nst.highest_ext_seq >= st.highest_ext_seq
  BY <1>1, <1>2, <1>3 DEF HighestExtSeq
<1>7. /\ nst.duplicate_count >= st.duplicate_count
      /\ nst.out_of_order_count >= st.out_of_order_count
  BY <1>1, <1>3
<1> QED
  BY <1>4, <1>5, <1>6, <1>7 DEF nst

(* observe() rewrites no history: the first copy of a packet is kept, the    *)
(* first number stays, the highest one and the counters never fall.          *)
THEOREM HistoryStableHolds == Spec => HistoryStable
<1> DEFINE Kept(s) ==
      /\ s \in DOMAIN states'
      /\ \A k \in DOMAIN states[s].packets :
           /\ k \in DOMAIN states'[s].packets
           /\ states'[s].packets[k] = states[s].packets[k]
      /\ states'[s].first_ext_seq = states[s].first_ext_seq
      /\ states'[s].highest_ext_seq >= states[s].highest_ext_seq
      /\ states'[s].duplicate_count >= states[s].duplicate_count
      /\ states'[s].out_of_order_count >= states[s].out_of_order_count
<1>1. IInv /\ [Next]_states => [\A s \in DOMAIN states : Kept(s)]_states
  <2> SUFFICES ASSUME IInv, NEW packet \in Packet, NEW arrival \in Arrival,
                      Observe(packet, arrival), NEW s \in DOMAIN states
               PROVE  Kept(s)
    BY DEF Next
  <2>1. states' = [r \in DOMAIN states \cup {packet.ssrc} |->
                     IF r = packet.ssrc
                     THEN ObserveState(StateOf(packet), packet, arrival)
                     ELSE states[r]]
    BY DEF Observe
  <2>2. s \in DOMAIN states' /\ StreamInv(s, states[s])
    BY <2>1 DEF IInv
  <2>3. CASE s = packet.ssrc
    <3>1. states'[s] = ObserveState(states[s], packet, arrival)
      BY <2>1, <2>3 DEF StateOf
    <3> QED
      BY <2>2, <3>1, StreamHistory
  <2>4. CASE s # packet.ssrc
    <3>1. states'[s] = states[s]
      BY <2>1, <2>4
    <3>2. /\ states[s].highest_ext_seq \in Int
          /\ states[s].duplicate_count \in Int
          /\ states[s].out_of_order_count \in Int
      BY <2>2 DEF StreamInv, StreamTypeOK
    <3> QED
      BY <2>2, <3>1, <3>2
  <2> QED
    BY <2>3, <2>4
<1>2. Spec => [][\A s \in DOMAIN states : Kept(s)]_states
  BY <1>1, Inductive, PTL DEF Spec
<1> QED
  BY <1>2 DEF HistoryStable

(* A packet changes the state of its own source only.                        *)
THEOREM SourcesIndependentHolds == Spec => SourcesIndependent
<1> DEFINE Alone(s) ==
      states'[s] # states[s] =>
        /\ DOMAIN states' = DOMAIN states
        /\ \A r \in DOMAIN states \ {s} : states'[r] = states[r]
<1>1. [Next]_states => [\A s \in DOMAIN states : Alone(s)]_states
  <2> SUFFICES ASSUME NEW packet \in Packet, NEW arrival \in Arrival,
                      Observe(packet, arrival), NEW s \in DOMAIN states,
                      states'[s] # states[s]
               PROVE  /\ DOMAIN states' = DOMAIN states
                      /\ \A r \in DOMAIN states \ {s} : states'[r] = states[r]
    BY DEF Next
  <2>1. states' = [r \in DOMAIN states \cup {packet.ssrc} |->
                     IF r = packet.ssrc
                     THEN ObserveState(StateOf(packet), packet, arrival)
                     ELSE states[r]]
    BY DEF Observe
  <2>2. s = packet.ssrc
    BY <2>1
  <2> QED
    BY <2>1, <2>2
<1>2. Spec => [][\A s \in DOMAIN states : Alone(s)]_states
  BY <1>1, PTL DEF Spec
<1> QED
  BY <1>2 DEF SourcesIndependent

----------------------------------------------------------------------------
(* As long as the network keeps within half the sequence space, the tracker  *)
(* implements the ideal receiver, whatever the number of wrap-arounds.       *)
WithinHalf == MaxAhead < SeqModHalf /\ MaxBehind < SeqModHalf

SessionInv ==
  /\ IInv
  /\ base \in SequenceNumber
  /\ sent \in 0 .. MaxSent
  /\ DOMAIN states \subseteq {sender}
  /\ UnwrapFaithful

(* Congruent numbers stay congruent when both are shifted.                   *)
LEMMA CongruentShift ==
  ASSUME NEW a \in Int, NEW b \in Int, NEW d \in Int,
         a % SeqSpace = b % SeqSpace
  PROVE  (a + d) % SeqSpace = (b + d) % SeqSpace
<1>1. SeqSpace \in Nat \ {0}
  BY SeqModHalfAssumption DEF SeqSpace
<1> DEFINE r == b % SeqSpace
           y == (a + d) % SeqSpace
<1>2. r \in SequenceNumber /\ y \in SequenceNumber
  BY SeqSpaceDivision DEF SequenceNumber
<1>3. PICK q \in Int : a = (q * SeqSpace) + r
  BY SeqSpaceDivision
<1>4. PICK p \in Int : b = (p * SeqSpace) + r
  BY SeqSpaceDivision
<1>5. PICK x \in Int : a + d = (x * SeqSpace) + y
  BY SeqSpaceDivision
<1> HIDE DEF r, y
<1>6. r \in Int /\ y \in Int /\ SeqSpace \in Int
  BY <1>1, <1>2 DEF SequenceNumber
<1>7. b + d = (((x + p) - q) * SeqSpace) + y
  BY <1>3, <1>4, <1>5, <1>6
<1>8. ((((x + p) - q) * SeqSpace) + y) % SeqSpace = y
  BY <1>2, SeqSpaceRemainder
<1> QED
  BY <1>7, <1>8 DEF y

LEMMA SenderType == sender \in Ssrc
  BY OneSenderAssumption DEF sender

(* The packet the tracker is handed.                                         *)
WirePacket(id, payload_type, timestamp) ==
  [ssrc            |-> sender,
   payload_type    |-> payload_type,
   sequence_number |-> (base + id) % SeqSpace,
   timestamp       |-> timestamp,
   payload         |-> id]

LEMMA WirePacketType ==
  ASSUME SessionInv, NEW id \in Payload, NEW payload_type \in PayloadType,
         NEW timestamp \in Timestamp
  PROVE  WirePacket(id, payload_type, timestamp) \in Packet
<1>1. base + id \in Int
  BY RtpSessionAssumption, OneSenderAssumption, SeqModHalfAssumption DEF SessionInv, SequenceNumber, SeqSpace
<1>2. (base + id) % SeqSpace \in SequenceNumber
  BY <1>1, SeqSpaceDivision DEF SequenceNumber
<1> QED
  BY <1>2, SenderType DEF WirePacket, Packet

(* The number under which the ideal receiver would file packet id.           *)
Target(id) == stream.highest_ext_seq + (id - Place(stream.highest_ext_seq))

(* A packet of a stream already tracked is filed where it belongs.           *)
LEMMA DeliverFiles ==
  ASSUME WithinHalf, SessionInv, tracking,
         NEW id \in Payload, NEW payload_type \in PayloadType,
         NEW timestamp \in Timestamp, NEW arrival \in Arrival,
         Deliver(id, payload_type, timestamp, arrival)
  PROVE  LET packet == WirePacket(id, payload_type, timestamp)
             t      == Target(id) IN
         /\ tracking' /\ DOMAIN states' = DOMAIN states
         /\ stream' = ObserveState(stream, packet, arrival)
         /\ ExtSeq(stream, packet.sequence_number) = t
         /\ t \in Int
         /\ id \in Int
         /\ \A k \in stream.seen_ext_seqs : k = t <=> Place(k) = id
         /\ \A k \in stream.seen_ext_seqs :
              /\ k \in Int /\ Place(k) \in Int
              /\ k - t = Place(k) - id
<1> DEFINE packet == WirePacket(id, payload_type, timestamp)
           t      == Target(id)
           h      == stream.highest_ext_seq
           f      == stream.first_ext_seq
<1>1. StreamInv(sender, stream)
  BY DEF SessionInv, IInv, tracking, stream
<1>2. /\ h \in Int /\ f \in Int /\ h # None
      /\ h \in stream.seen_ext_seqs /\ f \in stream.seen_ext_seqs
      /\ \A k \in stream.seen_ext_seqs : k \in Int
  BY <1>1, StreamTrackerAssumption DEF StreamInv, StreamTypeOK, KeysOK
<1>3. /\ id \in Int /\ base \in Int
  BY RtpSessionAssumption, OneSenderAssumption, SeqModHalfAssumption DEF SessionInv, SequenceNumber, SeqSpace
<1>4. \A k \in stream.seen_ext_seqs :
        /\ Place(k) \in Int
        /\ (base + Place(k)) % SeqSpace = k % SeqSpace
        /\ k - f = Place(k) - Place(f)
  BY DEF SessionInv, UnwrapFaithful
<1>5. /\ id - Place(h) =< MaxAhead /\ Place(h) - id =< MaxBehind
      /\ Observe(packet, arrival)
  BY DEF Deliver, WirePacket
<1>6. /\ tracking' /\ DOMAIN states' = DOMAIN states
      /\ stream' = ObserveState(stream, packet, arrival)
  <2>1. packet.ssrc = sender
    BY DEF WirePacket
  <2>2. StateOf(packet) = stream
    BY <2>1 DEF StateOf, tracking, stream
  <2>3. states' = [s \in DOMAIN states \cup {sender} |->
                     IF s = sender THEN ObserveState(stream, packet, arrival)
                     ELSE states[s]]
    BY <1>5, <2>1, <2>2 DEF Observe
  <2> HIDE DEF packet
  <2> QED
    BY <2>3 DEF tracking, stream
<1>7. packet.sequence_number = (base + id) % SeqSpace
  BY DEF WirePacket
<1> HIDE DEF packet
<1>8. t \in Int /\ t = h + (id - Place(h))
  BY <1>2, <1>3, <1>4 DEF Target
<1>9. (base + id) % SeqSpace = t % SeqSpace
  <2> DEFINE b == base + Place(h)
             d == id - Place(h)
  <2>1. b \in Int /\ d \in Int /\ b + d = base + id /\ t = h + d
    BY <1>2, <1>3, <1>4, <1>8
  <2>2. b % SeqSpace = h % SeqSpace
    BY <1>2, <1>4
  <2> HIDE DEF b, d
  <2>3. (b + d) % SeqSpace = (h + d) % SeqSpace
    BY <1>2, <2>1, <2>2, CongruentShift
  <2> QED
    BY <2>1, <2>3
<1>10. t - h < SeqModHalf /\ h - t < SeqModHalf
  <2> DEFINE d == id - Place(h)
  <2>1. d \in Int /\ -d = Place(h) - id /\ t = h + d
    BY <1>2, <1>3, <1>4, <1>8
  <2>2. d =< MaxAhead /\ -d =< MaxBehind
    BY <1>5, <2>1
  <2>3. MaxAhead \in Int /\ MaxBehind \in Int /\ SeqModHalf \in Int
    BY RtpSessionAssumption, OneSenderAssumption, SeqModHalfAssumption
  <2> HIDE DEF d
  <2> QED
    BY <1>2, <2>1, <2>2, <2>3 DEF WithinHalf
<1>11. ExtSeq(stream, packet.sequence_number) = t
  BY <1>2, <1>7, <1>8, <1>9, <1>10, ExtendIsExact DEF ExtSeq
<1>12. \A k \in stream.seen_ext_seqs : k - t = Place(k) - id
  BY <1>2, <1>3, <1>4, <1>8
<1>13. \A k \in stream.seen_ext_seqs : k = t <=> Place(k) = id
  BY <1>2, <1>3, <1>4, <1>8, <1>12
<1> QED
  BY <1>2, <1>3, <1>4, <1>6, <1>8, <1>11, <1>12, <1>13 DEF packet

(* What that does to the state of the stream.                                *)
LEMMA DeliverEffect ==
  ASSUME WithinHalf, SessionInv, tracking,
         NEW id \in Payload, NEW payload_type \in PayloadType,
         NEW timestamp \in Timestamp, NEW arrival \in Arrival,
         Deliver(id, payload_type, timestamp, arrival)
  PROVE  LET t == Target(id) IN
         /\ stream'.seen_ext_seqs = stream.seen_ext_seqs \cup {t}
         /\ \A k \in stream.seen_ext_seqs :
              stream'.packets[k].payload = stream.packets[k].payload
         /\ stream'.packets[t].payload = id
         /\ stream'.first_ext_seq = stream.first_ext_seq
         /\ stream'.highest_ext_seq =
              IF t > stream.highest_ext_seq THEN t ELSE stream.highest_ext_seq
         /\ stream'.packet_count = stream.packet_count + 1
         /\ stream'.duplicate_count =
              IF t \in stream.seen_ext_seqs THEN stream.duplicate_count + 1
              ELSE stream.duplicate_count
         /\ stream'.out_of_order_count =
              IF t \notin stream.seen_ext_seqs /\ t < stream.highest_ext_seq
              THEN stream.out_of_order_count + 1
              ELSE stream.out_of_order_count
<1> DEFINE packet == WirePacket(id, payload_type, timestamp)
           t      == Target(id)
<1>1. /\ stream' = ObserveState(stream, packet, arrival)
      /\ ExtSeq(stream, packet.sequence_number) = t
      /\ \A k \in stream.seen_ext_seqs : k = t <=> Place(k) = id
  BY DeliverFiles
<1>2. packet.payload = id
  BY DEF WirePacket
<1>3. /\ stream.highest_ext_seq # None /\ stream.first_ext_seq # None
      /\ stream.packets \in [stream.seen_ext_seqs -> Packet]
  BY StreamTrackerAssumption
  DEF SessionInv, IInv, tracking, stream, StreamInv, StreamTypeOK
<1> HIDE DEF packet, t
<1>4. /\ stream'.packets = Retain(stream, t, packet)
      /\ stream'.first_ext_seq = FirstExtSeq(stream, t)
      /\ stream'.highest_ext_seq = HighestExtSeq(stream, t)
      /\ stream'.seen_ext_seqs = stream.seen_ext_seqs \cup {t}
      /\ stream'.packet_count = stream.packet_count + 1
      /\ stream'.duplicate_count =
           IF IsDuplicate(stream, t) THEN stream.duplicate_count + 1
           ELSE stream.duplicate_count
      /\ stream'.out_of_order_count =
           IF IsOutOfOrder(stream, t) THEN stream.out_of_order_count + 1
           ELSE stream.out_of_order_count
  BY <1>1 DEF ObserveState
<1>5. CASE t \in stream.seen_ext_seqs
  <2>1. stream'.packets = stream.packets /\ Place(t) = id
    BY <1>1, <1>4, <1>5 DEF Retain, IsDuplicate
  <2>2. stream.packets[t].payload = id
    BY <2>1 DEF Place
  <2> QED
    BY <1>3, <1>4, <1>5, <2>1, <2>2
    DEF FirstExtSeq, HighestExtSeq, IsDuplicate, IsOutOfOrder, t
<1>6. CASE t \notin stream.seen_ext_seqs
  <2>1. stream'.packets = [k \in stream.seen_ext_seqs \cup {t} |->
                             IF k = t THEN packet ELSE stream.packets[k]]
    BY <1>3, <1>4, <1>6 DEF Retain, IsDuplicate
  <2>2. /\ stream'.packets[t] = packet
        /\ \A k \in stream.seen_ext_seqs : stream'.packets[k] = stream.packets[k]
    BY <1>6, <2>1
  <2> QED
    BY <1>2, <1>3, <1>4, <1>6, <2>2
    DEF FirstExtSeq, HighestExtSeq, IsDuplicate, IsOutOfOrder, t
<1> QED
  BY <1>5, <1>6

(* The first packet to arrive fixes where the numbering starts.              *)
LEMMA FirstDeliverEffect ==
  ASSUME SessionInv, ~tracking,
         NEW id \in Payload, NEW payload_type \in PayloadType,
         NEW timestamp \in Timestamp, NEW arrival \in Arrival,
         Deliver(id, payload_type, timestamp, arrival)
  PROVE  LET e == (base + id) % SeqSpace IN
         /\ tracking' /\ DOMAIN states' = {sender}
         /\ e \in Nat /\ e % SeqSpace = e
         /\ stream'.seen_ext_seqs = {e}
         /\ stream'.packets[e].payload = id
         /\ stream'.first_ext_seq = e
         /\ stream'.highest_ext_seq = e
         /\ stream'.packet_count = 1
         /\ stream'.duplicate_count = 0
         /\ stream'.out_of_order_count = 0
<1> DEFINE packet == WirePacket(id, payload_type, timestamp)
           e      == (base + id) % SeqSpace
           new    == NewState(packet)
<1>1. packet.ssrc = sender /\ packet.payload = id /\ packet.sequence_number = e
  BY DEF WirePacket
<1>2. DOMAIN states = {}
  BY DEF SessionInv, tracking
<1>3. e \in SequenceNumber /\ e \in Nat
  <2>1. base + id \in Int
    BY RtpSessionAssumption, OneSenderAssumption, SeqModHalfAssumption DEF SessionInv, SequenceNumber, SeqSpace
  <2>2. e \in SequenceNumber
    BY <2>1, SeqSpaceDivision DEF SequenceNumber
  <2> QED
    BY <2>2, SeqModHalfAssumption DEF SequenceNumber, SeqSpace
<1>4. Observe(packet, arrival)
  BY DEF Deliver, WirePacket
<1> HIDE DEF packet, e
<1>5. StateOf(packet) = new
  BY <1>1, <1>2 DEF StateOf
<1>6. states' = [s \in {sender} |-> ObserveState(new, packet, arrival)]
  BY <1>1, <1>2, <1>4, <1>5 DEF Observe
<1>7. /\ new.packet_count = 0 /\ new.duplicate_count = 0
      /\ new.out_of_order_count = 0 /\ new.seen_ext_seqs = {}
      /\ new.first_ext_seq = None /\ new.highest_ext_seq = None
      /\ DOMAIN new.packets = {}
  BY DEF NewState
<1> HIDE DEF new
<1>8. ExtSeq(new, packet.sequence_number) = e
  BY <1>1, <1>7 DEF ExtSeq
<1>9. /\ ~IsDuplicate(new, e) /\ ~IsOutOfOrder(new, e)
      /\ FirstExtSeq(new, e) = e /\ HighestExtSeq(new, e) = e
      /\ Retain(new, e, packet)[e] = packet
  BY <1>7 DEF IsDuplicate, IsOutOfOrder, FirstExtSeq, HighestExtSeq, Retain
<1>10. stream' = ObserveState(new, packet, arrival)
  BY <1>6 DEF stream
<1>11. /\ stream'.seen_ext_seqs = {e}
       /\ stream'.packets[e] = packet
       /\ stream'.first_ext_seq = e
       /\ stream'.highest_ext_seq = e
       /\ stream'.packet_count = 1
       /\ stream'.duplicate_count = 0
       /\ stream'.out_of_order_count = 0
  BY <1>7, <1>8, <1>9, <1>10 DEF ObserveState
<1>12. e % SeqSpace = e
  BY <1>3, SeqModHalfAssumption DEF SequenceNumber, SeqSpace
<1> QED
  BY <1>1, <1>3, <1>6, <1>11, <1>12 DEF tracking, e

LEMMA SessionInvInit == SessionInit => SessionInv
<1> SUFFICES ASSUME SessionInit
             PROVE  SessionInv
  OBVIOUS
<1>1. IInv /\ DOMAIN states = {}
  BY InductiveInit DEF SessionInit, Init
<1> QED
  BY <1>1, RtpSessionAssumption, OneSenderAssumption DEF SessionInit, SessionInv, UnwrapFaithful, tracking

LEMMA SessionInvStep ==
  ASSUME WithinHalf, SessionInv, [SessionNext]_session
  PROVE  SessionInv'
<1>1. CASE Send
  <2>1. UNCHANGED <<states, base>> /\ sent < MaxSent /\ sent' = sent + 1
    BY <1>1 DEF Send
  <2>2. IInv'
    BY <2>1 DEF SessionInv, IInv
  <2>3. sent' \in 0 .. MaxSent /\ sent \in Int
    BY <2>1, RtpSessionAssumption, OneSenderAssumption DEF SessionInv
  <2>4. tracking' = tracking /\ stream' = stream
    BY <2>1 DEF tracking, stream
  <2>5. UnwrapFaithful'
    <3> SUFFICES ASSUME tracking, NEW k \in stream.seen_ext_seqs
                 PROVE  /\ Place(k) \in 0 .. sent'- 1
                        /\ (base + Place(k)) % SeqSpace = k % SeqSpace
                        /\ k - stream.first_ext_seq =
                             Place(k) - Place(stream.first_ext_seq)
      BY <2>1, <2>4 DEF UnwrapFaithful, Place
    <3>1. /\ Place(k) \in 0 .. sent - 1
          /\ (base + Place(k)) % SeqSpace = k % SeqSpace
          /\ k - stream.first_ext_seq =
               Place(k) - Place(stream.first_ext_seq)
      BY DEF SessionInv, UnwrapFaithful
    <3> QED
      BY <2>1, <2>3, <3>1
  <2> QED
    BY <2>1, <2>2, <2>3, <2>5 DEF SessionInv
<1>2. ASSUME NEW id \in Payload, NEW payload_type \in PayloadType,
             NEW timestamp \in Timestamp, NEW arrival \in Arrival,
             Deliver(id, payload_type, timestamp, arrival)
      PROVE  SessionInv'
  <2>1. UNCHANGED <<base, sent>> /\ id < sent /\ id \in Nat /\ sent \in Nat
    BY <1>2, RtpSessionAssumption, OneSenderAssumption DEF Deliver, SessionInv
  <2>2. IInv'
    <3>1. Observe(WirePacket(id, payload_type, timestamp), arrival)
      BY <1>2 DEF Deliver, WirePacket
    <3> QED
      BY <3>1, WirePacketType, ObserveStep DEF SessionInv
  <2>3. DOMAIN states' \subseteq {sender}
    <3>1. CASE tracking
      BY <1>2, <3>1, DeliverFiles DEF SessionInv
    <3>2. CASE ~tracking
      BY <1>2, <3>2, FirstDeliverEffect
    <3> QED
      BY <3>1, <3>2
  <2>4. UnwrapFaithful'
    <3>1. CASE ~tracking
      <4> DEFINE e == (base + id) % SeqSpace
      <4>1. /\ e \in Nat /\ e % SeqSpace = e
            /\ stream'.seen_ext_seqs = {e}
            /\ stream'.packets[e].payload = id
            /\ stream'.first_ext_seq = e
        BY <1>2, <3>1, FirstDeliverEffect
      <4> QED
        BY <2>1, <4>1 DEF UnwrapFaithful, Place
    <3>2. CASE tracking
      <4> DEFINE t         == Target(id)
                 f         == stream.first_ext_seq
                 seen      == stream.seen_ext_seqs
                 Was(k)    == stream.packets[k].payload
                 IsNow(k)  == stream'.packets[k].payload
      <4>1. /\ t \in Int
            /\ \A k \in seen :
                 /\ k \in Int /\ Was(k) \in Int
                 /\ k - t = Was(k) - id
        BY <1>2, <3>2, DeliverFiles DEF Place
      <4>2. /\ stream'.seen_ext_seqs = seen \cup {t}
            /\ \A k \in seen : IsNow(k) = Was(k)
            /\ IsNow(t) = id
            /\ stream'.first_ext_seq = f
        BY <1>2, <3>2, DeliverEffect
      <4>3. f \in seen
        BY <3>2 DEF SessionInv, IInv, StreamInv, KeysOK, tracking, stream
      <4>4. \A k \in seen :
              /\ Was(k) \in 0 .. sent - 1
              /\ (base + Was(k)) % SeqSpace = k % SeqSpace
              /\ k - f = Was(k) - Was(f)
        BY <3>2 DEF SessionInv, UnwrapFaithful, Place
      <4>5. base \in Int
        BY SeqModHalfAssumption DEF SessionInv, SequenceNumber, SeqSpace
      <4> HIDE DEF t, f, seen, Was, IsNow
      <4>6. (base + id) % SeqSpace = t % SeqSpace
        <5> DEFINE w == Was(f)
                   b == base + w
                   d == id - w
        <5>1. /\ b \in Int /\ d \in Int /\ f \in Int
              /\ b + d = base + id /\ t = f + d
          <6>1. f \in Int /\ w \in Int /\ f - t = w - id
            BY <4>1, <4>3
          <6>2. t \in Int /\ id \in Int
            BY <2>1, <4>1
          <6> HIDE DEF w
          <6>3. b \in Int /\ d \in Int
            BY <4>5, <6>1, <6>2
          <6>4. b + d = base + id
            BY <4>5, <6>1, <6>2
          <6>5. t = f + d
            BY <6>1, <6>2
          <6> QED
            BY <6>1, <6>3, <6>4, <6>5
        <5>2. b % SeqSpace = f % SeqSpace
          BY <4>3, <4>4
        <5> HIDE DEF b, d
        <5>3. (b + d) % SeqSpace = (f + d) % SeqSpace
          BY <5>1, <5>2, CongruentShift
        <5> QED
          BY <5>1, <5>3
      <4>7. ASSUME NEW k \in seen \cup {t}
            PROVE  /\ IsNow(k) \in 0 .. sent - 1
                   /\ (base + IsNow(k)) % SeqSpace = k % SeqSpace
                   /\ k - f = IsNow(k) - IsNow(f)
        <5>1. CASE k \in seen
          BY <4>2, <4>3, <4>4, <5>1
        <5>2. CASE k = t
          <6>1. IsNow(k) = id /\ IsNow(f) = Was(f)
            BY <4>2, <4>3, <5>2
          <6>2. k - f = id - Was(f)
            BY <2>1, <4>1, <4>3, <5>2
          <6> QED
            BY <2>1, <4>6, <5>2, <6>1, <6>2
        <5> QED
          BY <5>1, <5>2
      <4> QED
        BY <2>1, <4>2, <4>7 DEF UnwrapFaithful, Place, IsNow
    <3> QED
      BY <3>1, <3>2
  <2> QED
    BY <2>1, <2>2, <2>3, <2>4 DEF SessionInv
<1>3. CASE UNCHANGED session
  <2>1. UNCHANGED <<states, base, sent>>
    BY <1>3 DEF session
  <2> QED
    BY <2>1 DEF SessionInv, IInv, UnwrapFaithful, tracking, stream, Place
<1> QED
  BY <1>1, <1>2, <1>3 DEF SessionNext

(* The session keeps within its bounds and types.                            *)
LEMMA SessionInductive ==
  ASSUME WithinHalf
  PROVE  SessionSpec => []SessionInv
<1>1. SessionInv /\ [SessionNext]_session => SessionInv'
  BY SessionInvStep
<1> QED
  BY <1>1, SessionInvInit, PTL DEF SessionSpec

(* However often the counter wraps, packets are filed as far apart as they   *)
(* were sent.                                                                *)
THEOREM UnwrapFaithfulHolds ==
  ASSUME WithinHalf
  PROVE  SessionSpec => []UnwrapFaithful
<1>1. SessionInv => UnwrapFaithful
  BY DEF SessionInv
<1> QED
  BY <1>1, SessionInductive, PTL

(* The packets received are as many as the numbers seen, and they lie in the *)
(* sender's order between the first one and the furthest.                    *)
LEMMA StreamLossTrue == SessionInv => LossTrue
<1> SUFFICES ASSUME SessionInv, tracking,
                    \A id \in Received : id >= Place(stream.first_ext_seq)
             PROVE  LostCount(stream) =
                      Cardinality((Place(stream.first_ext_seq)
                        .. Place(stream.highest_ext_seq)) \ Received)
  BY DEF LossTrue
<1> DEFINE first   == Place(stream.first_ext_seq)
           top     == Place(stream.highest_ext_seq)
           seen    == stream.seen_ext_seqs
           places  == [k \in seen |-> Place(k)]
<1>1. /\ stream.first_ext_seq \in seen /\ stream.highest_ext_seq \in seen
      /\ \A k \in seen : k \in Int /\ k =< stream.highest_ext_seq
      /\ IsFiniteSet(seen)
      /\ stream.packet_count = stream.duplicate_count + Cardinality(seen)
      /\ stream.packet_count \in Nat /\ stream.duplicate_count \in Nat
  BY DEF SessionInv, IInv, tracking, stream, StreamInv, StreamTypeOK, Accounted, KeysOK
<1>2. \A k \in seen :
        /\ Place(k) \in Int
        /\ k - stream.first_ext_seq = Place(k) - first
  BY DEF SessionInv, UnwrapFaithful
<1>3. Received = {Place(k) : k \in seen}
  BY DEF Received
<1> HIDE DEF seen
<1>4. /\ first \in Int /\ top \in Int /\ first =< top
      /\ stream.first_ext_seq \in Int /\ stream.highest_ext_seq \in Int
      /\ stream.highest_ext_seq - stream.first_ext_seq = top - first
  BY <1>1, <1>2, <1>3
<1>5. Received \subseteq first .. top
  <2>1. ASSUME NEW k \in seen
        PROVE  Place(k) \in first .. top
    <3>1. Place(k) >= first /\ Place(k) \in Int
      BY <1>2, <1>3
    <3>2. /\ k - stream.first_ext_seq = Place(k) - first
          /\ k \in Int /\ k =< stream.highest_ext_seq
      BY <1>1, <1>2
    <3> HIDE DEF first, top
    <3> QED
      BY <1>4, <3>1, <3>2
  <2> QED
    BY <1>3, <2>1
<1>6. IsFiniteSet(Received) /\ Cardinality(Received) = Cardinality(seen)
  <2>1. places \in [seen -> Received]
    BY <1>3
  <2>2. \A j, k \in seen : places[j] = places[k] => j = k
    <3> SUFFICES ASSUME NEW j \in seen, NEW k \in seen, Place(j) = Place(k)
                 PROVE  j = k
      OBVIOUS
    <3>1. j - stream.first_ext_seq = k - stream.first_ext_seq
      BY <1>2
    <3> QED
      BY <1>1, <1>4, <3>1
  <2>3. \A id \in Received : \E k \in seen : places[k] = id
    BY <1>3
  <2>4. places \in Bijection(seen, Received)
    BY <2>1, <2>2, <2>3, Fun_IsBij
  <2> QED
    BY <1>1, <2>4, FS_Bijection DEF ExistsBijection
<1> HIDE DEF first, top
<1>7. /\ IsFiniteSet(first .. top)
      /\ Cardinality(first .. top) = top - first + 1
  <2>1. /\ IsFiniteSet(first .. top)
        /\ Cardinality(first .. top) = IF first > top THEN 0 ELSE top - first + 1
    BY <1>4, FS_Interval
  <2> QED
    BY <1>4, <2>1
<1>8. Cardinality((first .. top) \ Received)
        = Cardinality(first .. top) - Cardinality(Received)
  <2> DEFINE range == first .. top
  <2>1. range \cap Received = Received /\ IsFiniteSet(range)
    BY <1>5, <1>7
  <2> HIDE DEF range
  <2>2. Cardinality(range \ Received) = Cardinality(range) - Cardinality(range \cap Received)
    BY <2>1, FS_Difference
  <2> QED
    BY <2>1, <2>2 DEF range
<1>9. /\ Cardinality((first .. top) \ Received) \in Nat
      /\ Cardinality(seen) \in Nat
  BY <1>1, <1>7, FS_Difference, FS_CardinalityType
<1>10. ExpectedCount(stream) - (stream.packet_count - stream.duplicate_count)
         = Cardinality((first .. top) \ Received)
  <2> DEFINE lost == Cardinality((first .. top) \ Received)
             n    == Cardinality(seen)
  <2>1. lost \in Nat /\ n \in Nat /\ lost = (top - first + 1) - n
    BY <1>6, <1>7, <1>8, <1>9
  <2> HIDE DEF lost
  <2>2. ExpectedCount(stream) = top - first + 1
    BY <1>4 DEF ExpectedCount
  <2>3. stream.packet_count - stream.duplicate_count = n
    BY <1>1, <2>1
  <2> QED
    BY <2>1, <2>2, <2>3 DEF lost
<1> QED
  BY <1>9, <1>10 DEF LostCount, first, top

(* The number of packets lost since the first one arrived is reported as it  *)
(* is, wraps, copies and reordering notwithstanding.                         *)
THEOREM LossTrueHolds ==
  ASSUME WithinHalf
  PROVE  SessionSpec => []LossTrue
  BY StreamLossTrue, SessionInductive, PTL

----------------------------------------------------------------------------
(* The order of the packets                                                  *)

(* Every place of a sorted list is taken by one key, greater keys at later   *)
(* places.                                                                   *)
LEMMA Ranks ==
  ASSUME NEW K, IsFiniteSet(K), K \subseteq Int
  PROVE  /\ Cardinality(K) \in Nat
         /\ \A k \in K : Rank(K, k) \in 1 .. Cardinality(K)
         /\ \A j, k \in K : j < k => Rank(K, j) < Rank(K, k)
         /\ \A i \in 1 .. Cardinality(K) : \E k \in K : Rank(K, k) = i
<1> DEFINE Upto(k) == {j \in K : j =< k}
           n       == Cardinality(K)
           rank    == [k \in K |-> Rank(K, k)]
<1>1. n \in Nat
  BY FS_CardinalityType
<1>2. ASSUME NEW k \in K
      PROVE  /\ IsFiniteSet(Upto(k)) /\ Rank(K, k) \in Nat
             /\ Rank(K, k) =< n /\ Rank(K, k) # 0
  <2>1. Upto(k) \in SUBSET K
    OBVIOUS
  <2>2. IsFiniteSet(Upto(k)) /\ Cardinality(Upto(k)) =< n
    BY <2>1, FS_Subset
  <2>3. Cardinality(Upto(k)) \in Nat
    BY <2>2, FS_CardinalityType
  <2>4. k \in Upto(k)
    OBVIOUS
  <2>5. Cardinality(Upto(k)) # 0
    BY <2>2, <2>4, FS_EmptySet
  <2> QED
    BY <2>2, <2>3, <2>5 DEF Rank
<1>3. ASSUME NEW j \in K, NEW k \in K, j < k
      PROVE  Rank(K, j) < Rank(K, k)
  <2>1. Upto(j) \in SUBSET Upto(k)
    <3> SUFFICES ASSUME NEW i \in K, i =< j
                 PROVE  i =< k
      OBVIOUS
    <3>1. i \in Int /\ j \in Int /\ k \in Int
      OBVIOUS
    <3> QED
      BY <1>3, <3>1
  <2>2. k \in Upto(k) /\ k \notin Upto(j)
    BY <1>3
  <2>3. /\ Cardinality(Upto(j)) =< Cardinality(Upto(k))
        /\ Cardinality(Upto(j)) # Cardinality(Upto(k))
    <3> HIDE DEF Upto
    <3> QED
      BY <1>2, <2>1, <2>2, FS_Subset
  <2>4. /\ Rank(K, j) = Cardinality(Upto(j)) /\ Rank(K, k) = Cardinality(Upto(k))
    BY DEF Rank
  <2> HIDE DEF Upto
  <2>5. Rank(K, j) \in Nat /\ Rank(K, k) \in Nat
    BY <1>2
  <2> QED
    BY <2>3, <2>4, <2>5
<1>4. \A k \in K : Rank(K, k) \in 1 .. n
  <2> SUFFICES ASSUME NEW k \in K
               PROVE  Rank(K, k) \in 1 .. n
    OBVIOUS
  <2> DEFINE r == Rank(K, k)
  <2>1. r \in Nat /\ r =< n /\ r # 0
    BY <1>2
  <2> HIDE DEF n, r
  <2>2. r \in 1 .. n
    BY <1>1, <2>1
  <2> QED
    BY <2>2 DEF r
<1>5. rank \in Surjection(K, 1 .. n)
  <2>1. rank \in [K -> 1 .. n]
    <3> HIDE DEF n
    <3> QED
      BY <1>4
  <2>2. \A j, k \in K : rank[j] = rank[k] => j = k
    <3> SUFFICES ASSUME NEW j \in K, NEW k \in K, Rank(K, j) = Rank(K, k), j # k
                 PROVE  FALSE
      OBVIOUS
    <3>1. j < k \/ k < j
      OBVIOUS
    <3>2. Rank(K, j) \in Nat
      BY <1>2
    <3> QED
      BY <1>3, <3>1, <3>2
  <2>3. rank \in Injection(K, 1 .. n)
    BY <2>1, <2>2, Fun_IsInj
  <2>4. IsFiniteSet(1 .. n) /\ Cardinality(1 .. n) = n
    <3> HIDE DEF n
    <3>1. /\ IsFiniteSet(1 .. n)
          /\ Cardinality(1 .. n) = IF 1 > n THEN 0 ELSE n - 1 + 1
      BY <1>1, FS_Interval
    <3> QED
      BY <1>1, <3>1
  <2> QED
    BY <2>3, <2>4, FS_Injection
<1>6. \A i \in 1 .. n : \E k \in K : Rank(K, k) = i
  <2>1. \A i \in 1 .. n : \E k \in K : rank[k] = i
    BY <1>5 DEF Surjection
  <2> QED
    BY <2>1
<1> HIDE DEF rank, Upto
<1> QED
  BY <1>1, <1>3, <1>4, <1>6

(* Sorted by the extended number, the packets come out as they were sent.    *)
LEMMA StreamOrdered == SessionInv => OrderedAsSent
<1> SUFFICES ASSUME SessionInv, tracking
             PROVE  /\ \A i, j \in DOMAIN OrderedPackets(stream) :
                         i < j => OrderedPackets(stream)[i].payload
                                    < OrderedPackets(stream)[j].payload
                    /\ {OrderedPackets(stream)[i].payload :
                           i \in DOMAIN OrderedPackets(stream)} = Received
  BY DEF OrderedAsSent
<1> DEFINE keys   == stream.seen_ext_seqs
           n      == Cardinality(keys)
           nth(i) == CHOOSE k \in keys : Rank(keys, k) = i
<1>1. /\ DOMAIN stream.packets = keys
      /\ IsFiniteSet(keys) /\ keys \subseteq Int
      /\ stream.first_ext_seq \in keys
  BY DEF SessionInv, IInv, tracking, stream, StreamInv, StreamTypeOK, KeysOK
<1>2. OrderedPackets(stream) = [i \in 1 .. n |-> stream.packets[nth(i)]]
  BY <1>1 DEF OrderedPackets
<1>3. \A k \in keys :
        /\ Place(k) \in Int
        /\ k - stream.first_ext_seq = Place(k) - Place(stream.first_ext_seq)
  BY DEF SessionInv, UnwrapFaithful
<1>4. \A j, k \in keys : j < k => Place(j) < Place(k)
  <2> SUFFICES ASSUME NEW j \in keys, NEW k \in keys, j < k
               PROVE  Place(j) < Place(k)
    OBVIOUS
  <2> DEFINE f == stream.first_ext_seq
  <2>1. /\ Place(j) \in Int /\ Place(k) \in Int /\ Place(f) \in Int
        /\ j \in Int /\ k \in Int /\ f \in Int
        /\ j - f = Place(j) - Place(f) /\ k - f = Place(k) - Place(f)
    BY <1>1, <1>3
  <2> HIDE DEF f
  <2> QED
    BY <2>1
<1>5. /\ n \in Nat
      /\ \A k \in keys : Rank(keys, k) \in 1 .. n
      /\ \A j, k \in keys : j < k => Rank(keys, j) < Rank(keys, k)
      /\ \A i \in 1 .. n : \E k \in keys : Rank(keys, k) = i
  BY <1>1, Ranks
<1>6. \A i \in 1 .. n : nth(i) \in keys /\ Rank(keys, nth(i)) = i
  BY <1>5
<1>7. \A k \in keys : nth(Rank(keys, k)) = k
  <2> SUFFICES ASSUME NEW k \in keys, nth(Rank(keys, k)) # k
               PROVE  FALSE
    OBVIOUS
  <2> DEFINE j == nth(Rank(keys, k))
  <2>1. Rank(keys, k) \in 1 .. n
    BY <1>5
  <2>2. j \in keys /\ Rank(keys, j) = Rank(keys, k)
    BY <1>6, <2>1
  <2> HIDE DEF j, nth
  <2>3. j < k \/ k < j
    BY <1>1, <2>2 DEF j
  <2> HIDE DEF keys, n
  <2>4. Rank(keys, k) \in Int
    BY <2>1, <1>5
  <2> QED
    BY <1>5, <2>2, <2>3, <2>4
<1>8. \A i, j \in 1 .. n : i < j => Place(nth(i)) < Place(nth(j))
  <2> SUFFICES ASSUME NEW i \in 1 .. n, NEW j \in 1 .. n, i < j
               PROVE  nth(i) < nth(j)
    BY <1>4, <1>6
  <2> HIDE DEF nth
  <2>1. /\ nth(i) \in keys /\ Rank(keys, nth(i)) = i
        /\ nth(j) \in keys /\ Rank(keys, nth(j)) = j
    BY <1>6
  <2>2. nth(i) < nth(j) \/ nth(i) = nth(j) \/ nth(j) < nth(i)
    BY <1>1, <2>1
  <2> HIDE DEF keys, n
  <2> QED
    BY <1>5, <2>1, <2>2
<1>9. \A i \in 1 .. n : OrderedPackets(stream)[i].payload = Place(nth(i))
  BY <1>2 DEF Place
<1>10. {Place(nth(i)) : i \in 1 .. n} = Received
  <2>1. Received = {Place(k) : k \in keys}
    BY DEF Received
  <2> HIDE DEF nth, n, keys
  <2> QED
    BY <1>5, <1>6, <1>7, <2>1
<1>11. DOMAIN OrderedPackets(stream) = 1 .. n
  BY <1>2
<1> HIDE DEF nth, n
<1> QED
  BY <1>8, <1>9, <1>10, <1>11

(* Packets are handed back in the order they were sent, each one once,       *)
(* however they arrived and however often the counter wrapped.               *)
THEOREM OrderedAsSentHolds ==
  ASSUME WithinHalf
  PROVE  SessionSpec => []OrderedAsSent
  BY StreamOrdered, SessionInductive, PTL

----------------------------------------------------------------------------
(* Refinement of the ideal receiver                                          *)

LEMMA IdealInit == SessionInit => Ideal!Init
<1> SUFFICES ASSUME SessionInit
             PROVE  Ideal!Init
  OBVIOUS
<1>1. ~tracking
  BY DEF SessionInit, Init, tracking
<1> QED
  BY <1>1 DEF Ideal!Init

(* The first packet to arrive is the first the ideal receiver gets.          *)
LEMMA IdealFirst ==
  ASSUME SessionInv, ~tracking,
         NEW id \in Payload, NEW payload_type \in PayloadType,
         NEW timestamp \in Timestamp, NEW arrival \in Arrival,
         Deliver(id, payload_type, timestamp, arrival)
  PROVE  Ideal!ReceiveFirst(id)
<1> DEFINE e == (base + id) % SeqSpace
<1>1. /\ tracking'
      /\ stream'.seen_ext_seqs = {e}
      /\ stream'.packets[e].payload = id
      /\ stream'.first_ext_seq = e
      /\ stream'.highest_ext_seq = e
      /\ stream'.packet_count = 1
      /\ stream'.duplicate_count = 0
      /\ stream'.out_of_order_count = 0
  BY FirstDeliverEffect
<1> HIDE DEF e
<1>2. Received' = {id}
  BY <1>1 DEF Received, Place
<1>3. Place(stream.first_ext_seq)' = id /\ Place(stream.highest_ext_seq)' = id
  BY <1>1 DEF Place
<1> QED
  BY <1>1, <1>2, <1>3 DEF Ideal!ReceiveFirst

(* A later packet is newer, late or a copy for the tracker exactly when it   *)
(* is for the ideal receiver.                                                *)
LEMMA IdealNext ==
  ASSUME WithinHalf, SessionInv, tracking,
         NEW id \in Payload, NEW payload_type \in PayloadType,
         NEW timestamp \in Timestamp, NEW arrival \in Arrival,
         Deliver(id, payload_type, timestamp, arrival)
  PROVE  Ideal!ReceiveNewer(id) \/ Ideal!ReceiveLate(id) \/ Ideal!ReceiveCopy(id)
<1> DEFINE t         == Target(id)
           f         == stream.first_ext_seq
           h         == stream.highest_ext_seq
           seen      == stream.seen_ext_seqs
           Was(k)    == stream.packets[k].payload
           IsNow(k)  == stream'.packets[k].payload
<1>1. /\ tracking' /\ t \in Int /\ id \in Int
      /\ \A k \in seen : k = t <=> Was(k) = id
      /\ \A k \in seen : k \in Int /\ Was(k) \in Int /\ k - t = Was(k) - id
  BY DeliverFiles DEF Place
<1>2. /\ stream'.seen_ext_seqs = seen \cup {t}
      /\ \A k \in seen : IsNow(k) = Was(k)
      /\ IsNow(t) = id
      /\ stream'.first_ext_seq = f
      /\ stream'.highest_ext_seq = IF t > h THEN t ELSE h
      /\ stream'.packet_count = stream.packet_count + 1
      /\ stream'.duplicate_count =
           IF t \in seen THEN stream.duplicate_count + 1
           ELSE stream.duplicate_count
      /\ stream'.out_of_order_count =
           IF t \notin seen /\ t < h THEN stream.out_of_order_count + 1
           ELSE stream.out_of_order_count
  BY DeliverEffect
<1>3. /\ f \in seen /\ h \in seen
      /\ \A k \in seen : k =< h
  BY DEF SessionInv, IInv, StreamInv, KeysOK, tracking, stream
<1>4. /\ Received = {Was(k) : k \in seen}
      /\ Place(stream.first_ext_seq) = Was(f)
      /\ Place(stream.highest_ext_seq) = Was(h)
  BY DEF Received, Place
<1>5. /\ Received' = {IsNow(k) : k \in seen \cup {t}}
      /\ Place(stream.first_ext_seq)' = IsNow(f)
      /\ Place(stream.highest_ext_seq)' = IsNow(IF t > h THEN t ELSE h)
  BY <1>2 DEF Received, Place
<1> HIDE DEF t, f, h, seen, Was, IsNow
<1>6. /\ Received # {}
      /\ Received' = Received \cup {id}
      /\ id \in Received <=> t \in seen
      /\ IsNow(f) = Was(f)
  BY <1>1, <1>2, <1>3, <1>4, <1>5
<1>7. /\ h \in Int /\ Was(h) \in Int
      /\ t > h <=> id > Was(h)
      /\ t < h <=> id < Was(h)
  <2>1. h \in Int /\ Was(h) \in Int /\ h - t = Was(h) - id
    BY <1>1, <1>3
  <2> QED
    BY <1>1, <2>1
<1>8. CASE t > h
  <2>1. t \notin seen /\ ~(t < h)
    BY <1>1, <1>3, <1>7, <1>8
  <2>2. Place(stream.highest_ext_seq)' = id
    BY <1>2, <1>5, <1>8
  <2>3. Ideal!ReceiveNewer(id)
    BY <1>1, <1>2, <1>4, <1>5, <1>6, <1>7, <1>8, <2>1, <2>2
    DEF Ideal!ReceiveNewer
  <2> QED
    BY <2>3
<1>9. CASE ~(t > h)
  <2>1. Place(stream.highest_ext_seq)' = Was(h)
    BY <1>2, <1>3, <1>5, <1>9
  <2>2. CASE t \in seen
    <3>1. Received' = Received /\ id \in Received
      BY <1>6, <2>2
    <3>2. Ideal!ReceiveCopy(id)
      BY <1>1, <1>2, <1>4, <1>5, <1>6, <2>1, <2>2, <3>1
      DEF Ideal!ReceiveCopy
    <3> QED
      BY <3>2
  <2>3. CASE t \notin seen
    <3>1. t < h
      BY <1>1, <1>3, <1>7, <1>9, <2>3
    <3>2. Ideal!ReceiveLate(id)
      BY <1>1, <1>2, <1>4, <1>5, <1>6, <1>7, <2>1, <2>3, <3>1
      DEF Ideal!ReceiveLate
    <3> QED
      BY <3>2
  <2> QED
    BY <2>2, <2>3
<1> QED
  BY <1>8, <1>9

(* The tracker implements the ideal receiver: it tells new packets, late     *)
(* packets and copies apart from their 16-bit numbers as one would that knew *)
(* the packets.                                                              *)
THEOREM Refinement ==
  ASSUME WithinHalf
  PROVE  SessionSpec => ImplementsIdealReceiver
<1>1. SessionInv /\ [SessionNext]_session => [Ideal!Next]_(Ideal!vars)
  <2> SUFFICES ASSUME SessionInv, [SessionNext]_session
               PROVE  Ideal!Next \/ UNCHANGED Ideal!vars
    OBVIOUS
  <2>1. CASE UNCHANGED states
    <3>1. tracking' = tracking /\ stream' = stream
      BY <2>1 DEF tracking, stream
    <3>2. Received' = Received
      BY <3>1 DEF Received, Place
    <3>3. /\ Place(stream.first_ext_seq)' = Place(stream.first_ext_seq)
          /\ Place(stream.highest_ext_seq)' = Place(stream.highest_ext_seq)
      BY <3>1 DEF Place
    <3> QED
      BY <3>1, <3>2, <3>3 DEF Ideal!vars
  <2>2. ASSUME NEW id \in Payload, NEW payload_type \in PayloadType,
               NEW timestamp \in Timestamp, NEW arrival \in Arrival,
               Deliver(id, payload_type, timestamp, arrival)
        PROVE  Ideal!Next
    <3>1. CASE tracking
      BY <2>2, <3>1, IdealNext DEF Ideal!Next
    <3>2. CASE ~tracking
      BY <2>2, <3>2, IdealFirst DEF Ideal!Next
    <3> QED
      BY <3>1, <3>2
  <2> QED
    BY <2>1, <2>2 DEF SessionNext, Send, session
<1> QED
  BY <1>1, IdealInit, SessionInductive, PTL
  DEF SessionSpec, ImplementsIdealReceiver, Ideal!Spec

----------------------------------------------------------------------------
(* The jitter of a paced stream, for any spacing and any transit times, as   *)
(* long as the timestamps do not wrap.  (When they do, neither property      *)
(* holds: the other run.)                                                    *)
Unwrapped ==
  \A b \in TsBase, n \in 0 .. MaxSent - 1 : b + (n * Spacing) < TsSpace

(* The tracker's transit is the true one less the sender's unknown start.    *)
TransitKnown ==
  /\ last_delay \in Delay
  /\ stream.jitter \in [num: Nat, den: Nat \ {0}]
  /\ stream.prev_transit = last_delay - ts_base

PacedInv ==
  /\ ts_base \in TsBase
  /\ DOMAIN states \subseteq {sender}
  /\ tracking => TransitKnown
  /\ JitterBounded

LEMMA DelayType ==
  ASSUME NEW d \in Delay
  PROVE  d \in Nat
BY PacedSessionAssumption

LEMMA TimestampKept ==
  ASSUME Unwrapped, NEW b \in TsBase, NEW n \in 0 .. MaxSent - 1
  PROVE  /\ b \in Nat /\ n * Spacing \in Nat
         /\ (b + (n * Spacing)) % TsSpace = b + (n * Spacing)
<1> DEFINE k == n * Spacing
<1>1. n \in Nat /\ Spacing \in Nat /\ TsSpace \in Nat \ {0} /\ b \in Nat
  BY PacedSessionAssumption
<1>2. k \in Nat
  BY <1>1
<1>3. b + k < TsSpace
  BY DEF Unwrapped
<1> HIDE DEF k
<1>4. \A x \in Nat, m \in Nat \ {0} : x < m => x % m = x
  OBVIOUS
<1>5. b + k \in Nat
  BY <1>1, <1>2
<1>6. (b + k) % TsSpace = b + k
  BY Zenon, <1>1, <1>3, <1>4, <1>5
<1> QED BY <1>1, <1>2, <1>6 DEF k

(* What an arrival does to the estimate.                                     *)
LEMMA ArrivalEffect ==
  ASSUME PacedInv, Unwrapped, NEW n \in 0 .. MaxSent - 1, NEW delay \in Delay,
         NEW payload_type, NEW payload, Arrive(n, delay, payload_type, payload)
  PROVE  /\ ts_base' = ts_base /\ last_delay' = delay
         /\ DOMAIN states' = {sender}
         /\ stream'.prev_transit = delay - ts_base
         /\ ~tracking => stream'.jitter = [num |-> 0, den |-> 1]
         /\ tracking =>
              stream'.jitter =
                [num |-> (15 * stream.jitter.num)
                           + (Magnitude(delay - last_delay) * stream.jitter.den),
                 den |-> 16 * stream.jitter.den]
<1> DEFINE packet == [ssrc            |-> sender,
                      payload_type    |-> payload_type,
                      sequence_number |-> n % SeqSpace,
                      timestamp       |-> (ts_base + (n * Spacing)) % TsSpace,
                      payload         |-> payload]
           transit == now' - packet.timestamp
           old == StateOf(packet)
<1>1. /\ ts_base' = ts_base /\ last_delay' = delay
      /\ now' = (n * Spacing) + delay
      /\ Observe(packet, now')
  BY DEF Arrive
<1>2. /\ DOMAIN states' = DOMAIN states \cup {sender}
      /\ states'[sender] = ObserveState(old, packet, now')
  BY <1>1 DEF Observe
<1>3. DOMAIN states' = {sender}
  BY <1>2 DEF PacedInv
<1>4. transit = delay - ts_base
  <2> DEFINE k == n * Spacing
  <2>1. ts_base \in Nat /\ k \in Nat /\ packet.timestamp = ts_base + k
    BY TimestampKept DEF PacedInv
  <2>2. delay \in Nat /\ now' = k + delay
    BY <1>1, DelayType
  <2> HIDE DEF k, packet
  <2> QED BY <2>1, <2>2
<1>5. /\ stream'.prev_transit = transit
      /\ stream'.jitter = UpdateJitter(old, transit)
  BY <1>2 DEF ObserveState, stream
<1>6. ASSUME ~tracking
      PROVE  stream'.jitter = [num |-> 0, den |-> 1]
  <2>1. old = NewState(packet)
    BY <1>6 DEF StateOf, tracking
  <2> QED BY <1>5, <2>1 DEF NewState, UpdateJitter
<1>7. ASSUME tracking
      PROVE  stream'.jitter =
               [num |-> (15 * stream.jitter.num)
                          + (Magnitude(delay - last_delay) * stream.jitter.den),
                den |-> 16 * stream.jitter.den]
  <2>1. old = stream
    BY <1>7 DEF StateOf, tracking, stream
  <2>2. stream.prev_transit = last_delay - ts_base /\ last_delay \in Delay
    BY <1>7 DEF PacedInv, TransitKnown
  <2>3. ts_base \in Nat /\ last_delay \in Nat /\ delay \in Nat
    BY <2>2, DelayType, PacedSessionAssumption DEF PacedInv
  <2>4. /\ stream.prev_transit \in Int
        /\ transit - stream.prev_transit = delay - last_delay
    BY <1>4, <2>2, <2>3
  <2>5. stream.prev_transit # None
    BY <2>4, StreamTrackerAssumption
  <2> HIDE DEF transit, old
  <2> QED BY <1>5, <2>1, <2>4, <2>5 DEF UpdateJitter
<1> QED BY <1>1, <1>3, <1>4, <1>5, <1>6, <1>7

(* A sixteenth of the way from a number to another does not leave what       *)
(* bounds them both.                                                         *)
LEMMA SixteenthBounded ==
  ASSUME NEW num \in Nat, NEW den \in Nat \ {0}, NEW bound \in Int, NEW change \in Int,
         num =< bound * den, change =< bound
  PROVE  (15 * num) + (change * den) =< bound * (16 * den)
<1>1. change * den =< bound * den
  <2> DEFINE gap == bound - change
  <2>1. gap \in Nat /\ bound = change + gap
    OBVIOUS
  <2> HIDE DEF gap
  <2>2. bound * den = (change * den) + (gap * den) /\ gap * den \in Nat
        /\ change * den \in Int
    BY <2>1
  <2> QED BY <2>2
<1> DEFINE x == bound * den
           y == change * den
<1>2. x \in Int /\ y \in Int /\ bound * (16 * den) = 16 * x
  OBVIOUS
<1>3. num =< x /\ y =< x
  BY <1>1
<1> HIDE DEF x, y
<1>4. (15 * num) + y =< 16 * x
  BY <1>2, <1>3
<1> QED BY <1>2, <1>4 DEF y

LEMMA PacedInvInit == PacedInit => PacedInv
BY DEF PacedInit, Init, PacedInv, tracking, JitterBounded

LEMMA PacedInvStep == Unwrapped /\ PacedInv /\ [PacedNext]_paced => PacedInv'
<1> SUFFICES ASSUME Unwrapped, PacedInv, [PacedNext]_paced
             PROVE  PacedInv'
  OBVIOUS
<1>1. CASE UNCHANGED paced
  BY <1>1 DEF paced, PacedInv, tracking, stream, TransitKnown, JitterBounded
<1>2. ASSUME NEW n \in 0 .. MaxSent - 1, NEW delay \in Delay,
             NEW payload_type, NEW payload, Arrive(n, delay, payload_type, payload)
      PROVE  PacedInv'
  <2>1. /\ ts_base' = ts_base /\ last_delay' = delay
        /\ DOMAIN states' = {sender}
        /\ stream'.prev_transit = delay - ts_base
    BY <1>2, ArrivalEffect
  <2>2. /\ stream'.jitter \in [num: Nat, den: Nat \ {0}]
        /\ \E long, short \in Delay :
             stream'.jitter.num =< (long - short) * stream'.jitter.den
    <3>1. CASE ~tracking
      <4>1. stream'.jitter = [num |-> 0, den |-> 1]
        BY <1>2, <3>1, ArrivalEffect
      <4>2. delay \in Nat /\ (delay - delay) * 1 = 0
        BY DelayType
      <4> QED BY <4>1, <4>2
    <3>2. CASE tracking
      <4> DEFINE num == stream.jitter.num
                 den == stream.jitter.den
                 change == Magnitude(delay - last_delay)
      <4>1. /\ num \in Nat /\ den \in Nat \ {0} /\ last_delay \in Delay
            /\ \E long, short \in Delay : num =< (long - short) * den
        BY <3>2 DEF PacedInv, TransitKnown, JitterBounded
      <4>2. PICK long \in Delay, short \in Delay : num =< (long - short) * den
        BY <4>1
      <4>3. delay \in Nat /\ last_delay \in Nat /\ long \in Nat /\ short \in Nat
        BY <4>1, DelayType
      <4>4. /\ change \in Nat
            /\ change = delay - last_delay \/ change = last_delay - delay
        BY <4>3 DEF Magnitude
      <4>5. stream'.jitter = [num |-> (15 * num) + (change * den), den |-> 16 * den]
        BY <1>2, <3>2, ArrivalEffect
      <4> HIDE DEF num, den, change
      <4>6. change * den \in Nat
        BY <4>1, <4>4
      <4>7. stream'.jitter \in [num: Nat, den: Nat \ {0}]
        BY <4>1, <4>5, <4>6
      <4>8. PICK far \in Delay, near \in Delay :
              num =< (far - near) * den /\ change =< far - near
        <5>1. CASE change =< long - short
          BY <4>2, <5>1
        <5>2. CASE ~(change =< long - short)
          <6>1. num =< change * den
            <7> DEFINE bound == long - short
                       gap == change - bound
            <7>1. bound \in Int /\ gap \in Nat /\ change = bound + gap
              BY <4>3, <4>4, <5>2
            <7>2. num =< bound * den
              BY <4>2
            <7> HIDE DEF bound, gap
            <7>3. /\ change * den = (bound * den) + (gap * den)
                  /\ gap * den \in Nat /\ bound * den \in Int
              BY <4>1, <7>1
            <7> QED BY <4>1, <7>2, <7>3
          <6>2. change =< change
            BY <4>4
          <6> QED BY <4>1, <4>4, <6>1, <6>2
        <5> QED BY <5>1, <5>2
      <4>9. (15 * num) + (change * den) =< (far - near) * (16 * den)
        <5>1. far - near \in Int /\ change \in Int
          BY <4>4, DelayType
        <5> QED BY <4>1, <4>8, <5>1, SixteenthBounded
      <4> QED BY <4>5, <4>7, <4>9
    <3> QED BY <3>1, <3>2
  <2>3. JitterBounded'
    BY <2>2 DEF JitterBounded
  <2> QED BY <2>1, <2>2, <2>3 DEF PacedInv, TransitKnown
<1> QED BY <1>1, <1>2 DEF PacedNext

(* What the tracker takes for the transit time is off by the same unknown    *)
(* start for every packet.                                                   *)
THEOREM TransitInvariant ==
  ASSUME Unwrapped
  PROVE  PacedSpec => []PacedInv
<1>1. PacedInit => PacedInv
  BY PacedInvInit
<1>2. PacedInv /\ [PacedNext]_paced => PacedInv'
  BY PacedInvStep
<1> QED BY <1>1, <1>2, PTL DEF PacedSpec

(* The estimate stays within the spread of the transit times: loss,          *)
(* duplicates and reordering cannot drive it out.                            *)
THEOREM JitterStaysBounded ==
  ASSUME Unwrapped
  PROVE  PacedSpec => []JitterBounded
<1>1. PacedInv => JitterBounded
  BY DEF PacedInv
<1> QED BY <1>1, TransitInvariant, PTL

(* RFC 3550's estimate, exactly: an arrival moves the jitter a sixteenth of  *)
(* the way to the change in transit time, though the code knows no transit   *)
(* times.                                                                    *)
THEOREM JitterIsRfc3550 ==
  ASSUME Unwrapped
  PROVE  PacedSpec => JitterFollowsDelay
<1> DEFINE Follows ==
      16 * stream'.jitter.num * stream.jitter.den =
        stream'.jitter.den *
          ((15 * stream.jitter.num)
             + (Magnitude(last_delay' - last_delay) * stream.jitter.den))
<1>1. ASSUME PacedInv, PacedNext, tracking
      PROVE  Follows
  <2>1. PICK n \in 0 .. MaxSent - 1, delay \in Delay, payload_type \in PayloadType,
             payload \in Payload : Arrive(n, delay, payload_type, payload)
    BY <1>1 DEF PacedNext
  <2> DEFINE num == stream.jitter.num
             den == stream.jitter.den
             change == Magnitude(delay - last_delay)
  <2>2. /\ last_delay' = delay
        /\ stream'.jitter = [num |-> (15 * num) + (change * den), den |-> 16 * den]
    BY <1>1, <2>1, ArrivalEffect
  <2>3. num \in Nat /\ den \in Nat /\ last_delay \in Nat /\ delay \in Nat
    BY <1>1, DelayType DEF PacedInv, TransitKnown
  <2>4. change \in Nat
    BY <2>3 DEF Magnitude
  <2>5. 16 * ((15 * num) + (change * den)) * den = (16 * den) * ((15 * num) + (change * den))
    <3> DEFINE sum == (15 * num) + (change * den)
    <3> HIDE DEF num, den, change
    <3>1. sum \in Int
      BY <2>3, <2>4
    <3> HIDE DEF sum
    <3>2. 16 * sum * den = (16 * den) * sum
      BY <2>3, <3>1
    <3> QED BY <3>2 DEF sum
  <2> HIDE DEF num, den, change
  <2>6. /\ stream'.jitter.num = (15 * num) + (change * den)
        /\ stream'.jitter.den = 16 * den
    BY <2>2
  <2>7. 16 * stream'.jitter.num * den = stream'.jitter.den * ((15 * num) + (change * den))
    BY Zenon, <2>5, <2>6
  <2> QED BY <2>2, <2>7 DEF num, den, change
<1>2. PacedInv /\ [PacedNext]_paced => [tracking => Follows]_paced
  BY <1>1
<1> QED BY <1>2, TransitInvariant, PTL DEF PacedSpec, JitterFollowsDelay
=============================================================================
