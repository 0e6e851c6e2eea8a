\* Three nodes; prediction is on unless it has made matters worse.
SPECIFICATION FairSpec
CONSTANTS
  n1 = n1
  n2 = n2
  n3 = n3
  Nodes = {n1, n2, n3}
  Coordinator = n1
  NTxns = 2
  BatchSize = 1
  ThresholdPpm = 0
  RegressionMarginPpm = 10000
  BypassCooldownEpochs = 1
  MaxEpochs = 3
INVARIANTS
  ScheduleAgreed
  InStep
  BypassLasts
PROPERTIES
  EverybodyStops
CHECK_DEADLOCK FALSE
