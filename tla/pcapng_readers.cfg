SPECIFICATION Spec
CONSTANTS
  ethernet = ethernet
  raw = raw
  Link = {ethernet, raw}
  NoLink = NoLink
  Block <- AllBlocks
  MaxBlocks = 4
INVARIANTS TypeOK StrictAttribution ModesAgree  LenientLosesNothing StrictSkipsNothing
PROPERTIES Terminates
CHECK_DEADLOCK FALSE
