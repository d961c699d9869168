CONSTANTS
  Threads = 2
  AncillaCount = 2
  Models <- MCModels
  Depths = {0, 1}
  MaxFrames = 3
  MaxCalls = 3
  MaxSets = 2
SPECIFICATION FairSpec
CHECK_DEADLOCK FALSE
INVARIANTS
  TypeOK
  OnlyCancelledCallsLose
  AnswersAreOfTheirTime
PROPERTY
  CallsReturn
