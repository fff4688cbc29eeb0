SPECIFICATION FairSpec
CONSTANTS
  NumRuns = 1
  Workloads <- VerifiedOnly
  MaxThreads = 3
PROPERTIES
  FailureReturns
CHECK_DEADLOCK FALSE
