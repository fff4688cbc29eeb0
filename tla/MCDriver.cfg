SPECIFICATION FairSpec
CONSTANTS
  NumRuns = 2
  Workloads <- AllWorkloads
  MaxThreads = 3
INVARIANTS
  TypeOK
  LookupsSeeAllInserts
  OpsInOrder
  CountWindow
  RowComplete
  SlotsFresh
PROPERTIES
  StartedPhaseEnds
  SingleThreadEnds
CHECK_DEADLOCK FALSE
