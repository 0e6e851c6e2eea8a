\* Every pair of transactions over four keys.
SPECIFICATION WalkSpec
CONSTANTS
  MinKey = 1
  MaxKey = 4
  Queries <- AllQueries
INVARIANTS
  PredictionExact
CHECK_DEADLOCK FALSE
