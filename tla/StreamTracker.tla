--------------------------- MODULE StreamTracker ---------------------------
(* RtpStreamTracker: packets already parsed are folded, in arrival order,    *)
(* into the state of their synchronisation source (SSRC); statistics and the *)
(* packets in sequence order are read back at any time.                      *)
(*                                                                           *)
(* Abstractions.  A payload is a value that tells copies of a packet apart.  *)
(* Arrival times are in RTP timestamp units (arrival_time * clock_rate).     *)
(* The jitter, a float in the code, is the fraction num / den: exact, where  *)
(* the code rounds.                                                          *)
EXTENDS SequenceNumbers, SequencesExt

CONSTANTS
  Ssrc,          \* the sources that may occur
  PayloadType,   \* the payload types that may occur
  Timestamp,     \* the RTP timestamps that may occur
  Arrival,       \* the arrival times that may occur
  Payload,       \* payloads
  None,          \* Python's None
  MaxPackets     \* bound: packets observed

ASSUME StreamTrackerAssumption ==
  /\ Timestamp \subseteq Nat
  /\ Arrival \subseteq Int
  /\ None \notin Int
  /\ MaxPackets \in Nat

Packet == [ssrc: Ssrc, payload_type: PayloadType,
           sequence_number: SequenceNumber, timestamp: Timestamp,
           payload: Payload]

VARIABLE states    \* RtpStreamTracker._states, by the SSRCs observed so far

----------------------------------------------------------------------------
(* _StreamState                                                              *)

NewState(packet) ==
  [payload_type       |-> packet.payload_type,
   packet_count       |-> 0,
   duplicate_count    |-> 0,
   out_of_order_count |-> 0,
   first_ext_seq      |-> None,
   highest_ext_seq    |-> None,
   jitter             |-> [num |-> 0, den |-> 1],
   prev_transit       |-> None,
   seen_ext_seqs      |-> {},
   packets            |-> [k \in {} |-> packet]]

ExtSeq(st, seq) ==
  IF st.highest_ext_seq = None THEN seq ELSE Extend(st.highest_ext_seq, seq)

FirstExtSeq(st, e) ==
  IF st.first_ext_seq = None THEN e ELSE st.first_ext_seq

IsDuplicate(st, e) == e \in st.seen_ext_seqs

(* Mutated form of IsOutOfOrder: late duplicates are counted again.          *)
IsOutOfOrderOrRepeated(st, e) ==
  st.highest_ext_seq # None /\ e < st.highest_ext_seq

(* Mutated form of IsOutOfOrder: measured against the first packet.          *)
IsBeforeFirst(st, e) ==
  ~IsDuplicate(st, e) /\ st.first_ext_seq # None /\ e < st.first_ext_seq

IsOutOfOrder(st, e) ==
  /\ ~IsDuplicate(st, e)
  /\ st.highest_ext_seq # None
  /\ e < st.highest_ext_seq

(* Mutated form of Retain: the latest copy replaces the first.               *)
RetainLatest(st, e, packet) ==
  [k \in DOMAIN st.packets \cup {e} |->
     IF k = e THEN packet ELSE st.packets[k]]

(* Mutated form of Retain: a late packet is seen but not kept.               *)
RetainInOrder(st, e, packet) ==
  IF st.highest_ext_seq # None /\ e =< st.highest_ext_seq THEN st.packets
  ELSE [k \in DOMAIN st.packets \cup {e} |->
          IF k = e THEN packet ELSE st.packets[k]]

Retain(st, e, packet) ==
  IF IsDuplicate(st, e) THEN st.packets
  ELSE [k \in DOMAIN st.packets \cup {e} |->
          IF k = e THEN packet ELSE st.packets[k]]

(* Mutated form of HighestExtSeq: the mark follows the latest packet.        *)
LatestExtSeq(st, e) == e

HighestExtSeq(st, e) ==
  IF st.highest_ext_seq = None \/ e > st.highest_ext_seq
  THEN e ELSE st.highest_ext_seq

(* Mutated form of UpdateJitter: early and late arrivals cancel out.         *)
UpdateJitterSigned(st, transit) ==
  IF st.prev_transit = None THEN st.jitter
  ELSE [num |-> (15 * st.jitter.num)
                  + ((transit - st.prev_transit) * st.jitter.den),
        den |-> 16 * st.jitter.den]

(* Mutated form of UpdateJitter: only the old estimate is divided.           *)
UpdateJitterPrecedence(st, transit) ==
  IF st.prev_transit = None THEN st.jitter
  ELSE [num |-> (15 * st.jitter.num)
                  + (16 * Magnitude(transit - st.prev_transit) * st.jitter.den),
        den |-> 16 * st.jitter.den]

(* jitter += (abs(transit - prev) - jitter) / 16                             *)
UpdateJitter(st, transit) ==
  IF st.prev_transit = None THEN st.jitter
  ELSE [num |-> (15 * st.jitter.num)
                  + (Magnitude(transit - st.prev_transit) * st.jitter.den),
        den |-> 16 * st.jitter.den]

ObserveState(st, packet, arrival) ==
  LET e       == ExtSeq(st, packet.sequence_number)
      transit == arrival - packet.timestamp
  IN  [payload_type       |-> packet.payload_type,
       packet_count       |-> st.packet_count + 1,
       duplicate_count    |-> IF IsDuplicate(st, e)
                              THEN st.duplicate_count + 1
                              ELSE st.duplicate_count,
       out_of_order_count |-> IF IsOutOfOrder(st, e)
                              THEN st.out_of_order_count + 1
                              ELSE st.out_of_order_count,
       first_ext_seq      |-> FirstExtSeq(st, e),
       highest_ext_seq    |-> HighestExtSeq(st, e),
       jitter             |-> UpdateJitter(st, transit),
       prev_transit       |-> transit,
       seen_ext_seqs      |-> st.seen_ext_seqs \cup {e},
       packets            |-> Retain(st, e, packet)]

(* Mutated form of ExpectedCount: the last packet of the range is left out.  *)
ExpectedCountExclusive(st) == st.highest_ext_seq - st.first_ext_seq

(* The fields of snapshot() that are computed, not copied.                   *)
ExpectedCount(st) == st.highest_ext_seq - st.first_ext_seq + 1

(* Mutated form of LostCount: duplicates stand in for lost packets.          *)
LostCountWithDuplicates(st) ==
  LET missing == ExpectedCount(st) - st.packet_count
  IN  IF missing < 0 THEN 0 ELSE missing

LostCount(st) ==
  LET received == st.packet_count - st.duplicate_count
      missing  == ExpectedCount(st) - received
  IN  IF missing < 0 THEN 0 ELSE missing

(* Mutated form of OrderedPackets: sorted by the number on the wire.         *)
PacketsInWireOrder(st) ==
  SetToSortSeq({st.packets[k] : k \in DOMAIN st.packets},
               LAMBDA p, q : p.sequence_number < q.sequence_number)

(* sorted(): the place of a key is the number of keys up to it.              *)
Rank(keys, k) == Cardinality({j \in keys : j =< k})

OrderedPackets(st) ==
  LET keys   == DOMAIN st.packets
      nth(i) == CHOOSE k \in keys : Rank(keys, k) = i
  IN  [i \in 1 .. Cardinality(keys) |-> st.packets[nth(i)]]

----------------------------------------------------------------------------
(* RtpStreamTracker                                                          *)

Init == states = [s \in {} |-> None]

StateOf(packet) ==
  IF packet.ssrc \in DOMAIN states THEN states[packet.ssrc]
  ELSE NewState(packet)

(* Packets observed, of every source.                                        *)
Observed == MapThenSumSet(LAMBDA s : states[s].packet_count, DOMAIN states)

(* Mutated form of Observe: the sources share one state.                     *)
ObserveShared(packet, arrival) ==
  /\ Observed < MaxPackets
  /\ states' = [s \in DOMAIN states \cup {packet.ssrc} |->
                  ObserveState(StateOf(packet), packet, arrival)]

Observe(packet, arrival) ==
  /\ Observed < MaxPackets
  /\ states' = [s \in DOMAIN states \cup {packet.ssrc} |->
                  IF s = packet.ssrc
                  THEN ObserveState(StateOf(packet), packet, arrival)
                  ELSE states[s]]

Next == \E packet \in Packet, arrival \in Arrival : Observe(packet, arrival)

Spec == Init /\ [][Next]_states

----------------------------------------------------------------------------
(* Properties of the state of one source                                     *)

StreamTypeOK(st) ==
  /\ st = [payload_type       |-> st.payload_type,
           packet_count       |-> st.packet_count,
           duplicate_count    |-> st.duplicate_count,
           out_of_order_count |-> st.out_of_order_count,
           first_ext_seq      |-> st.first_ext_seq,
           highest_ext_seq    |-> st.highest_ext_seq,
           jitter             |-> st.jitter,
           prev_transit       |-> st.prev_transit,
           seen_ext_seqs      |-> st.seen_ext_seqs,
           packets            |-> st.packets]
  /\ st.payload_type \in PayloadType
  /\ st.packet_count \in Nat \ {0}
  /\ st.duplicate_count \in Nat
  /\ st.out_of_order_count \in Nat
  /\ st.first_ext_seq \in Int
  /\ st.highest_ext_seq \in Int
  /\ st.jitter \in [num: Nat, den: Nat \ {0}]
  /\ st.prev_transit \in Int
  /\ \A k \in st.seen_ext_seqs : k \in Int
  /\ IsFiniteSet(st.seen_ext_seqs)
  /\ st.packets \in [st.seen_ext_seqs -> Packet]

Accounted(st) ==
  st.packet_count = st.duplicate_count + Cardinality(st.seen_ext_seqs)

KeysOK(s, st) ==
  /\ \A k \in st.seen_ext_seqs :
       /\ st.packets[k].ssrc = s
       /\ st.packets[k].sequence_number = k % SeqSpace
       /\ k =< st.highest_ext_seq
  /\ st.first_ext_seq \in st.seen_ext_seqs
  /\ st.highest_ext_seq \in st.seen_ext_seqs

BurstBounded(st) ==
  \A k \in st.seen_ext_seqs \ {st.highest_ext_seq} :
    \E j \in st.seen_ext_seqs : k < j /\ j =< k + SeqModHalf

(* Numbers of the range first..highest that never arrived.                   *)
Missing(st) == (st.first_ext_seq .. st.highest_ext_seq) \ st.seen_ext_seqs

(* Packets that belong before the first one to arrive.                       *)
Early(st) == {k \in st.seen_ext_seqs : k < st.first_ext_seq}

OutOfOrderBounded(st) ==
  /\ Cardinality(Early(st)) =< st.out_of_order_count
  /\ st.out_of_order_count < Cardinality(st.seen_ext_seqs)

LossReported(st) ==
  LET hidden == Cardinality(Missing(st)) - Cardinality(Early(st))
  IN  LostCount(st) = IF hidden < 0 THEN 0 ELSE hidden

----------------------------------------------------------------------------
(* Properties of the tracker                                                 *)

(* Every state the tracker holds is complete: once observe() returns no      *)
(* field is None, and the packets retained are those of the numbers seen.    *)
TypeOK ==
  /\ DOMAIN states \subseteq Ssrc
  /\ \A s \in DOMAIN states : StreamTypeOK(states[s])

(* Every packet is accounted for once: what observe() counted is what it     *)
(* retained plus what it called a duplicate.                                 *)
Accounting == \A s \in DOMAIN states : Accounted(states[s])

(* _extend never files a packet under a number it could not have had, nor    *)
(* with another source: the key is congruent to the number on the wire, the  *)
(* first and the highest number are those of retained packets, and none lies *)
(* above the highest.                                                        *)
KeysMatchWire == \A s \in DOMAIN states : KeysOK(s, states[s])

(* A burst of loss never reaches half the sequence space: above every packet *)
(* but the highest there is another one within SeqModHalf.  (A longer        *)
(* silence is what the docstring says will be misread.)                      *)
LossBurstBounded == \A s \in DOMAIN states : BurstBounded(states[s])

(* The out-of-order count covers every packet that belongs before the first, *)
(* and never all of the packets: one of them was the first to arrive.        *)
OutOfOrderBounds == \A s \in DOMAIN states : OutOfOrderBounded(states[s])

(* What lost_count reports, exactly: the numbers missing from the range that *)
(* snapshot() computes, each packet that arrived from before the range       *)
(* hiding one of them.                                                       *)
LossReport == \A s \in DOMAIN states : LossReported(states[s])

(* Observing a packet rewrites no history: what was retained stays as it     *)
(* was, the first number stays, and the highest one and the counters never   *)
(* fall.                                                                     *)
HistoryStable ==
  [][\A s \in DOMAIN states :
       /\ s \in DOMAIN states'
       /\ \A k \in DOMAIN states[s].packets :
            /\ k \in DOMAIN states'[s].packets
            /\ states'[s].packets[k] = states[s].packets[k]
       /\ states'[s].first_ext_seq = states[s].first_ext_seq
       /\ states'[s].highest_ext_seq >= states[s].highest_ext_seq
       /\ states'[s].duplicate_count >= states[s].duplicate_count
       /\ states'[s].out_of_order_count >= states[s].out_of_order_count]_states

(* Sources do not disturb each other: a packet of a source that is already   *)
(* tracked changes that source only, and a new source changes none.          *)
SourcesIndependent ==
  [][\A s \in DOMAIN states :
       states'[s] # states[s] =>
         /\ DOMAIN states' = DOMAIN states
         /\ \A r \in DOMAIN states \ {s} : states'[r] = states[r]]_states
=============================================================================
