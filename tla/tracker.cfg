SPECIFICATION Spec
CONSTANTS
  SeqModHalf = 4
  Ssrc = {a, b}
  PayloadType = {pcma}
  Timestamp = {0}
  Arrival = {0}
  Payload = {x, y}
  None = None
  MaxPackets = 5
INVARIANTS TypeOK KeysMatchWire LossBurstBounded  LossReport
PROPERTIES HistoryStable 
CHECK_DEADLOCK FALSE
SYMMETRY Symmetry
