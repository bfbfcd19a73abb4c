SPECIFICATION Spec
CONSTANTS
  SeqModHalf = 3
  Ssrc = {a, b}
  PayloadType = {audio, rtcp}
  RtcpCollisionRange = {rtcp}
  None = None
  MinPackets = 3
  SeqJumpThreshold = 1
  MaxObserved = 5
INVARIANTS TypeOK VerdictOfEvidence SignalsOfEvidence
PROPERTIES RefutationIsFinal
CHECK_DEADLOCK FALSE
