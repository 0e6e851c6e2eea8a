\* Three nodes with two workers each.
SPECIFICATION FairSpec
CONSTANTS
  n1 = n1
  n2 = n2
  n3 = n3
  Nodes = {n1, n2, n3}
  Coordinator = n1
  Workers = {1, 2}
  Script <- ProdccScript
INVARIANTS
  EverythingInPhase
PROPERTIES
  Rendezvous
  EverybodyLeaves
CHECK_DEADLOCK FALSE
