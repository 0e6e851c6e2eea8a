\* Two nodes with copies of each other's rows.
SPECIFICATION FairSpec
CONSTANTS
  n1 = n1
  n2 = n2
  k1 = k1
  k2 = k2
  t1 = t1
  t2 = t2
  t3 = t3
  NoTxn = NoTxn
  Nodes = {n1, n2}
  Workers = {1, 2}
  Keys = {k1, k2}
  Txns = {t1, t2, t3}
  ReadLockMax = 2
  Master <- TwoMaster
  Replicas <- TwoReplicas
  Home <- TwoHome
  WorkerOf <- TwoWorker
  Position <- TwoPosition
  Programs <- FewPrograms
INVARIANTS
  LocksAccounted
  ReplicasFollow
PROPERTIES
  ImplementsSerialStore
  AnswersArrive
CHECK_DEADLOCK FALSE
