SPECIFICATION Spec
CONSTANTS
  None = None
  Version <- SomeVersions
  Csrc <- SomeCsrc
  ExtBytes <- SomeExtBytes
  Payload <- SomePayloads
  Padding <- SomePaddings
  ByteValue <- SomeBytes
  Noise <- AllNoise
INVARIANTS TypeOK RoundTrip PartsTile StrictIffHonoured HeaderSurvivesCut
