CONSTANTS
  MaxRun = 3
  MAX_TIMING_OFFSET_NS = 2
  FileHeaderLen = 2
  FrameHeaderLen = 2
  PrefixLen = 1
  TagHeaderLen = 1
  AnnotationLen = 2
  TerminatorLen = 2
  Cap = 40
  Modulus = 80
  Chunk = 3
  MayTruncate = FALSE
  CancelAt <- BetweenFrames
  IoErrors = FALSE
  Strict = TRUE
  Garbage = {0, 2}
  Streams <- Readable
SPECIFICATION FairSpec
PROPERTY
  AllFramesReturned
