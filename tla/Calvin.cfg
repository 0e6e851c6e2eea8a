\* Two nodes with two lock managers, each with two executors, two batches.
SPECIFICATION FairSpec
CONSTANTS
  n1 = n1
  n2 = n2
  k1 = k1
  k2 = k2
  k3 = k3
  NoTxn = NoTxn
  Nodes = {n1, n2}
  Keys = {k1, k2, k3}
  Txns = {1, 2, 3, 4}
  NManagers = 2
  NExecutors = 2
  MaxReaders = 2
  NBatches = 2
  Owner <- ThreeOwner
  ManagerOf <- ThreeManager
  Tid <- FourTid
  BatchOf <- FourBatch
  Workloads <- SomeWorkloads
INVARIANTS
  BatchInv
  SerializableUnlessSplit
  NothingLeftBehind
PROPERTIES
  BatchesFinish
CHECK_DEADLOCK FALSE
