CONSTANTS
  NoTag = NoTag
  Unset = Unset
  Frames <- MCFrames
  Models <- MCModels
  Depths = {0, 1, 3}
  MaxFrames = 3
  MaxSets = 2
SPECIFICATION Spec
INVARIANTS
  TypeOK
  WindowIsTheTail
  AnswersFromTheFrames
  GrowthIsComplete
  InferredDepthFits
CHECK_DEADLOCK FALSE
