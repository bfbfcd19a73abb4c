---------------------------- MODULE PacedSession ----------------------------
(* The jitter of a paced stream: packet n is stamped and sent at time        *)
(* n * Spacing (in timestamp units), takes one of the delays in Delay, and   *)
(* is observed when it arrives.  Some packets are lost, some come twice, and *)
(* some overtake others.  RTP timestamps start anywhere and are kept to 32   *)
(* bits (TsSpace).                                                           *)
EXTENDS OneSender

CONSTANTS
  TsSpace,     \* number of RTP timestamps (2^32)
  TsBase,      \* the timestamps a sender may start from
  Spacing,     \* timestamp units between packets
  Delay        \* transit times

ASSUME PacedSessionAssumption ==
  /\ TsSpace \in Nat \ {0}
  /\ TsBase \subseteq 0 .. TsSpace - 1
  /\ Spacing \in Nat
  /\ Delay \subseteq Nat
  /\ Timestamp = 0 .. TsSpace - 1

VARIABLES
  ts_base,       \* timestamp of packet 0
  now,           \* time of the last arrival
  last_delay     \* delay of the packet that arrived last, or None

paced == <<states, ts_base, now, last_delay>>

PacedInit ==
  /\ Init
  /\ ts_base \in TsBase
  /\ now = 0
  /\ last_delay = None

(* Packet n arrives; a capture holds packets in order of arrival.            *)
Arrive(n, delay, payload_type, payload) ==
  /\ (n * Spacing) + delay >= now
  /\ now' = (n * Spacing) + delay
  /\ last_delay' = delay
  /\ Observe([ssrc            |-> sender,
              payload_type    |-> payload_type,
              sequence_number |-> n % SeqSpace,
              timestamp       |-> (ts_base + (n * Spacing)) % TsSpace,
              payload         |-> payload], now')
  /\ UNCHANGED ts_base

PacedNext ==
  \E n \in 0 .. MaxSent - 1, delay \in Delay, payload_type \in PayloadType,
     payload \in Payload : Arrive(n, delay, payload_type, payload)

PacedSpec == PacedInit /\ [][PacedNext]_paced

----------------------------------------------------------------------------
(* The estimate never exceeds the greatest difference between two transit    *)
(* times: "RFC 3550 interarrival jitter estimate".                           *)
JitterBounded ==
  tracking =>
    \E long, short \in Delay :
      stream.jitter.num =< (long - short) * stream.jitter.den

(* The estimate follows the transit times as RFC 3550 has it: each arrival   *)
(* moves it by a sixteenth of the way to the change in transit time.  The    *)
(* code has no transit times to go by, only timestamps with an unknown       *)
(* start.                                                                    *)
JitterFollowsDelay ==
  [][tracking =>
       16 * stream'.jitter.num * stream.jitter.den =
         stream'.jitter.den *
           ((15 * stream.jitter.num)
              + (Magnitude(last_delay' - last_delay) * stream.jitter.den))]_paced
=============================================================================
