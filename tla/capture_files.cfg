SPECIFICATION Spec
CONSTANTS
  Packet <- Captures
  PerMicro = 4
  MicroPerSecond = 2
  Word = 4
  LinkWord = 65536
  NoLink = NoLink
  NoFile = NoFile
  MaxPackets = 3
INVARIANTS  CutIsNoticed
CHECK_DEADLOCK FALSE
