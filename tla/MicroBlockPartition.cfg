\* Four transactions, two workers, one macro-block after the other.
SPECIFICATION Spec
CONSTANTS
  NTxns = 4
  NWorkers = 2
  BatchSize = 3
  ReorderingOptimization = TRUE
  Conflicts <- AllConflicts
INVARIANTS
  GraphComplete
  BlocksCompatible
  ScheduledOnce
  BlocksAscending
  PostponedForCause
