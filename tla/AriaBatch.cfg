\* Two nodes with a row and two workers each, messages between them.
SPECIFICATION FairSpec
CONSTANTS
  n1 = n1
  n2 = n2
  k1 = k1
  k2 = k2
  t1 = t1
  t2 = t2
  t3 = t3
  t4 = t4
  NoTxn = NoTxn
  Nodes = {n1, n2}
  Keys = {k1, k2}
  Txns = {t1, t2, t3, t4}
  Workers = {1, 2}
  NBatches = 2
  EpochModulus = 16777216
  Owner <- TwoOwner
  Tid <- TwoTid
  Home <- TwoHome
  WorkerOf <- TwoWorker
  BatchOf <- TwoBatch
  Programs <- FewPrograms
  ReadOnlyOptimization = TRUE
  ReorderingOptimization = TRUE
  SnapshotIsolation = FALSE
INVARIANTS
  SerializableUnlessLate
  SnapshotReads
  HandlerAssertions
PROPERTIES
  BatchesFinish
CHECK_DEADLOCK FALSE
