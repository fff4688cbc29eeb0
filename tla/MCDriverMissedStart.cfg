SPECIFICATION FairSpec
CONSTANTS
  NumRuns = 1
  Workloads <- MixedOnce
  MaxThreads = 3
PROPERTIES
  RunEnds
CHECK_DEADLOCK FALSE
