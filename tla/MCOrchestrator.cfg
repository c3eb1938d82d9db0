CONSTANTS
  TaskIds = {1, 2, 3}
  MaxParallelism = 2
  Graphs <- MCGraphs
  MaxRetries = 1
  AllowReplacement = TRUE
  Threshold = 2
  FailedResults = {"failed"}
  Errors = {}
SPECIFICATION FairSpec
INVARIANTS
  DispatchSound
  VerdictEarned
  RetriesBounded
PROPERTIES
  LedgerSpec
  RunEnds
CHECK_DEADLOCK FALSE
