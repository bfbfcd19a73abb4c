--------------------------- MODULE IdealReceiver ---------------------------
(* What RtpStreamTracker promises, said without sequence numbers: a receiver *)
(* that recognises each packet by its place in the sender's order (0, 1, 2,  *)
(* ...) and so cannot be misled by a counter that wraps.                     *)
EXTENDS Integers

CONSTANTS
  Id,     \* the packets' places in the sender's order
  None    \* before anything has been received

VARIABLES
  got,          \* the packets received
  first,        \* the first one to arrive
  top,          \* the one furthest along
  total,        \* arrivals, copies included
  duplicates,   \* arrivals of a packet already received
  late          \* packets that arrived after one sent later

vars == <<got, first, top, total, duplicates, late>>

Init ==
  /\ got = {}
  /\ first = None
  /\ top = None
  /\ total = 0
  /\ duplicates = 0
  /\ late = 0

ReceiveFirst(id) ==
  /\ got = {}
  /\ got' = {id}
  /\ first' = id
  /\ top' = id
  /\ total' = 1
  /\ UNCHANGED <<duplicates, late>>

ReceiveNewer(id) ==
  /\ got # {}
  /\ id > top
  /\ got' = got \cup {id}
  /\ top' = id
  /\ total' = total + 1
  /\ UNCHANGED <<first, duplicates, late>>

ReceiveLate(id) ==
  /\ got # {}
  /\ id < top
  /\ id \notin got
  /\ got' = got \cup {id}
  /\ late' = late + 1
  /\ total' = total + 1
  /\ UNCHANGED <<first, top, duplicates>>

ReceiveCopy(id) ==
  /\ id \in got
  /\ duplicates' = duplicates + 1
  /\ total' = total + 1
  /\ UNCHANGED <<got, first, top, late>>

Next == \E id \in Id :
  ReceiveFirst(id) \/ ReceiveNewer(id) \/ ReceiveLate(id) \/ ReceiveCopy(id)

Spec == Init /\ [][Next]_vars
=============================================================================
