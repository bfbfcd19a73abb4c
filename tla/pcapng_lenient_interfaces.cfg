SPECIFICATION Spec
CONSTANTS
  ethernet = ethernet
  raw = raw
  Link = {ethernet, raw}
  NoLink = NoLink
  Block <- SectionBlocks
  MaxBlocks = 4
CHECK_DEADLOCK FALSE
INVARIANTS LenientAttribution
