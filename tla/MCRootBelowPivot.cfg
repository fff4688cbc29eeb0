SPECIFICATION Spec
CONSTANTS
  Workers = {w1}
  Keys = {1, 2, 3, 4}
  BgNum = 2
  Pool = 5
  RootIds = {1, 2}
  Scenarios <- BelowPivot
INVARIANTS
  LocateRight
