SPECIFICATION Spec
CONSTANTS
  None = None
  Request <- SomeRequests
  Chain <- SomeChains
  Filler = {0, 3}
  LengthMax = 45
  MaxTags = 3
INVARIANTS PayloadComesBack FramesOpenCleanly
CHECK_DEADLOCK FALSE
