\* Two nodes with a row and two workers each, one of them a lock manager.
SPECIFICATION AriaFBFairSpec
CONSTANTS
  n1 = n1
  n2 = n2
  k1 = k1
  k2 = k2
  t1 = t1
  t2 = t2
  t3 = t3
  t4 = t4
  NoTxn = NoTxn
  Nodes = {n1, n2}
  Keys = {k1, k2}
  Txns = {t1, t2, t3, t4}
  Master = n1
  NManagers = 1
  NExecutors = 1
  MaxReaders = 511
  NBatches = 2
  EpochModulus = 16777216
  Owner <- TwoOwner
  Tid <- TwoTid
  Home <- TwoHome
  WorkerOf <- TwoWorker
  BatchOf <- TwoBatch
  ManagerOf <- OneManager
  Programs <- AllPrograms
  Loads <- SomeWorkloads
  ReadOnlyOptimization = TRUE
  ReorderingOptimization = TRUE
  SnapshotIsolation = FALSE
INVARIANTS
  SerializableUnlessLate
  NobodyDropped
  AriaFBLocksExact
PROPERTIES
  AriaFBFinishes
CHECK_DEADLOCK FALSE
