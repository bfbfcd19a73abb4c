----------------------------- MODULE RtpSession -----------------------------
(* The tracker at the far end of a network: one sender numbers its packets   *)
(* consecutively from an arbitrary start (RFC 3550), the network loses,      *)
(* repeats and reorders them, and each arrival is observed by the tracker.   *)
(* Payloads are the packets' places in the sender's order, which the tracker *)
(* does not look at: they say what its arithmetic should have found.         *)
EXTENDS OneSender

CONSTANTS
  MaxAhead,   \* a packet delivered is at most this far ahead of the
              \* furthest one delivered before (loss and silence)
  MaxBehind   \* and at most this far behind it (reordering, late copies)

ASSUME RtpSessionAssumption ==
  /\ Payload = 0 .. MaxSent - 1
  /\ MaxAhead \in Nat
  /\ MaxBehind \in Nat

VARIABLES
  base,    \* sequence number of packet 0
  sent     \* packets sent so far; the network holds all of them

session == <<states, base, sent>>

(* Place, in the sender's order, of the packet filed under k.                *)
Place(k) == stream.packets[k].payload

Received == {Place(k) : k \in stream.seen_ext_seqs}

SessionInit ==
  /\ Init
  /\ base \in SequenceNumber
  /\ sent = 0

Send ==
  /\ sent < MaxSent
  /\ sent' = sent + 1
  /\ UNCHANGED <<states, base>>

(* A packet sent before arrives, for the first time or again; one that never *)
(* does is lost.                                                             *)
Deliver(id, payload_type, timestamp, arrival) ==
  /\ id < sent
  /\ tracking =>
       /\ id - Place(stream.highest_ext_seq) =< MaxAhead
       /\ Place(stream.highest_ext_seq) - id =< MaxBehind
  /\ Observe([ssrc            |-> sender,
              payload_type    |-> payload_type,
              sequence_number |-> (base + id) % SeqSpace,
              timestamp       |-> timestamp,
              payload         |-> id], arrival)
  /\ UNCHANGED <<base, sent>>

SessionNext ==
  \/ Send
  \/ \E id \in Payload, payload_type \in PayloadType,
        timestamp \in Timestamp, arrival \in Arrival :
       Deliver(id, payload_type, timestamp, arrival)

SessionSpec == SessionInit /\ [][SessionNext]_session

----------------------------------------------------------------------------
(* Within the window, however often the counter wraps, _extend keeps the     *)
(* distances of the sender's order: two packets filed d apart were sent d    *)
(* apart.                                                                    *)
UnwrapFaithful ==
  tracking =>
    /\ \A k \in stream.seen_ext_seqs :
         /\ Place(k) \in 0 .. sent - 1
         /\ (base + Place(k)) % SeqSpace = k % SeqSpace
         /\ k - stream.first_ext_seq =
              Place(k) - Place(stream.first_ext_seq)

(* ordered_packets() returns the packets in the order they were sent, each   *)
(* one once.                                                                 *)
OrderedAsSent ==
  tracking =>
    LET packets == OrderedPackets(stream) IN
    /\ \A i, j \in DOMAIN packets :
         i < j => packets[i].payload < packets[j].payload
    /\ {packets[i].payload : i \in DOMAIN packets} = Received

(* lost_count is the true number of packets lost since the first one         *)
(* arrived, as long as no packet sent before that one turns up.              *)
LossTrue ==
  tracking /\ (\A id \in Received : id >= Place(stream.first_ext_seq)) =>
    LostCount(stream) =
      Cardinality((Place(stream.first_ext_seq)
                     .. Place(stream.highest_ext_seq)) \ Received)

(* The session implements the ideal receiver: duplicates, late packets and   *)
(* the furthest packet are recognised from 16-bit numbers as they would be   *)
(* from the packets' identity.                                               *)
Ideal == INSTANCE IdealReceiver WITH
  Id         <- Payload,
  got        <- IF tracking THEN Received ELSE {},
  first      <- IF tracking THEN Place(stream.first_ext_seq) ELSE None,
  top        <- IF tracking THEN Place(stream.highest_ext_seq) ELSE None,
  total      <- IF tracking THEN stream.packet_count ELSE 0,
  duplicates <- IF tracking THEN stream.duplicate_count ELSE 0,
  late       <- IF tracking THEN stream.out_of_order_count ELSE 0

ImplementsIdealReceiver == Ideal!Spec
=============================================================================
