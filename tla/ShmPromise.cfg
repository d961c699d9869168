CONSTANTS
  Slots = 4
  MaxLen = 1
  Lengths = {0, 1}
  TornLens = {2}
  Ahead = 1
  Restarts = FALSE
  Reopens = TRUE
  MaxFrames = 7
SPECIFICATION FairSpec
INVARIANT
  TypeOK
PROPERTIES
  ImplementsLossyLog
  Drained
