CONSTANTS
  Node = {0, 1, 2, 3}
  Input = Input
  Weight = Weight
  FirstFree = 4
  DeadReads = {1, 3, Input}
  MaxExtra = 1
SPECIFICATION DDSpec
CHECK_DEADLOCK FALSE
INVARIANTS
  PartTypeOK PartitionAcyclic ClustersMatchLabels OneTarget
  NoSubgraphRejected ModelStaysAcyclic ModelStaysWired OffloadComplete
VIEW MCView
