CONSTANTS
  Slots = 2
  MaxLen = 2
  Lengths = {1, 2}
  TornLens = {}
  Ahead = 1
  Restarts = TRUE
  Reopens = TRUE
  MaxFrames = 3
SPECIFICATION Spec
INVARIANT
  WholeUnlessLapped
