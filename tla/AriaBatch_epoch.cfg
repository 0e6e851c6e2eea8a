\* A reservation meets the word of the next batch.
SPECIFICATION Spec
CONSTANTS
  n1 = n1
  n2 = n2
  k1 = k1
  k2 = k2
  t1 = t1
  t2 = t2
  t3 = t3
  t4 = t4
  NoTxn = NoTxn
  Nodes = {n1, n2}
  Keys = {k1, k2}
  Txns = {t1, t2, t3, t4}
  Workers = {1, 2}
  NBatches = 2
  EpochModulus = 16777216
  Owner <- TwoOwner
  Tid <- TwoTid
  Home <- TwoHome
  WorkerOf <- TwoWorker
  BatchOf <- TwoBatch
  Programs <- RacePrograms
  ReadOnlyOptimization = FALSE
  ReorderingOptimization = TRUE
  SnapshotIsolation = FALSE
INVARIANTS
  ReservationsInTime
CHECK_DEADLOCK FALSE
