\* Two nodes with a row and a worker each, messages between them: two blocks
\* of one epoch and one of the next, the last that fits its field.
SPECIFICATION FairSpec
CONSTANTS
  n1 = n1
  n2 = n2
  k1 = k1
  k2 = k2
  t1 = t1
  t2 = t2
  t3 = t3
  t4 = t4
  t5 = t5
  NoTxn = NoTxn
  Nodes = {n1, n2}
  Keys = {k1, k2}
  Txns = {t1, t2, t3, t4, t5}
  Workers = {1}
  NBlocks = 3
  EpochModulus = 3
  Owner <- TwoOwner
  Tid <- TwoTid
  Home <- TwoHome
  WorkerOf <- TwoWorker
  BlockOf <- TwoBlock
  EpochOf <- TwoEpoch
  Workloads <- SomeWorkloads
  ReadOnlyOptimization = TRUE
  ReorderingOptimization = TRUE
  SnapshotIsolation = FALSE
INVARIANTS
  BlockInv
  ConflictOrder
  SerializableUnlessLate
  SnapshotReads
  NothingLeftBehind
  EpochAssertions
PROPERTIES
  ScheduleFinishes
CHECK_DEADLOCK FALSE
