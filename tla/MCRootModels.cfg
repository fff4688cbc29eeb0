SPECIFICATION Spec
CONSTANTS
  Workers = {w1}
  Keys = {1, 2, 3, 4}
  BgNum = 2
  Pool = 4
  RootIds = {1, 2}
  Scenarios <- NewRoot
INVARIANTS
  ModelsAlive
