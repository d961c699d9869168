CONSTANTS
  w1 = w1
  w2 = w2
  Workers = {w1, w2}
  Unreadable = Unreadable
  Arguments <- MCArguments
SPECIFICATION Spec
INVARIANTS
  TypeOK
  PointIsExact
  ShotsAreIndependent
  OutputIsComplete
