\* Two nodes with a row and two workers each, two batches of four slots.
SPECIFICATION FairSpec
CONSTANTS
  n1 = n1
  n2 = n2
  k1 = k1
  k2 = k2
  Nodes = {n1, n2}
  Keys = {k1, k2}
  NWorkers = 2
  BatchSize = 4
  NBatches = 2
  Owner <- TwoOwner
  InserterOf <- TwoInserter
  RunBy <- FourRunBy
  Workloads <- SomeWorkloads
INVARIANTS
  SerializableUnlessTorn
  WritesFindVersions
  VersionsExact
PROPERTIES
  BatchesFinish
CHECK_DEADLOCK FALSE
