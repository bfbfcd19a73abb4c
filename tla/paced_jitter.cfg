SPECIFICATION PacedSpec
CONSTANTS
  SeqModHalf = 4
  Ssrc = {a}
  PayloadType = {pcma}
  Payload = {x}
  None = None
  MaxPackets = 4
  Timestamp <- AllTimestamps
  Arrival <- AllArrivals
  TsSpace = 32
  TsBase = {0, 9}
  Spacing = 2
  Delay = {0, 1, 5}
  MaxSent = 5
INVARIANTS JitterBounded
PROPERTIES JitterFollowsDelay
CHECK_DEADLOCK FALSE
