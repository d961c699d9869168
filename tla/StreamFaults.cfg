CONSTANTS
  MaxRun = 3
  MAX_TIMING_OFFSET_NS = 2
  FileHeaderLen = 2
  FrameHeaderLen = 2
  PrefixLen = 1
  TagHeaderLen = 1
  AnnotationLen = 2
  TerminatorLen = 2
  Cap = 18
  Modulus = 36
  Chunk = 3
  MayTruncate = TRUE
  CancelAt <- Sites
  IoErrors = TRUE
  Strict = TRUE
  Garbage = {0, 2}
  Streams <- AnyStream
SPECIFICATION Spec
INVARIANTS
  TypeOK
  RingHoldsTheStream
  FrameAsSent
  IdsIncrease
  OnlyValidFrames
