SPECIFICATION FairSpec
CONSTANTS
  WorkerN = 2
  BG = {b1}
  StatusMax = 2
  Sentinel = TRUE
  MaxVersion = 2
  MaxPhases = 2
  MaxIndexes = 2
INVARIANTS
  TypeOK
  NoUseAfterFree
  PassedHoldsCurrent
PROPERTIES
  BarrierEnds
