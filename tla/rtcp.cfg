SPECIFICATION Spec
CONSTANTS
  Packet <- AllPackets
  Bit = {0, 2, 5, 7}
  MaxPackets = 3
  MaxLength = 28
INVARIANTS  DamageIsContained ModesAgree
PROPERTIES Terminates
CHECK_DEADLOCK FALSE
