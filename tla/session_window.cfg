SPECIFICATION SessionSpec
CONSTANTS
  SeqModHalf = 3
  Ssrc = {a}
  PayloadType = {pcma}
  Timestamp = {0}
  Arrival = {0}
  Payload = {0, 1, 2, 3, 4, 5, 6, 7, 8}
  None = None
  MaxPackets = 6
  MaxSent = 9
  MaxAhead = 2
  MaxBehind = 2
INVARIANTS UnwrapFaithful OrderedAsSent LossTrue
PROPERTIES ImplementsIdealReceiver
CHECK_DEADLOCK FALSE
