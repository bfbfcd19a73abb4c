SPECIFICATION Spec
CONSTANTS
  Profile = {"one_byte", "two_byte", "unknown"}
  Element <- SomeElements
  Foreign <- AllForeign
  MaxElements = 3
  MaxForeign = 5
INVARIANTS ElementsComeBack 
PROPERTIES ScanEnds
CHECK_DEADLOCK FALSE
