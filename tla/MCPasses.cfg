SPECIFICATION PassesSpec
CONSTANTS
  NumInodes = 5
  MaxEntries = 4
  NumClusters = 8
  ClusterBlocks = 2
  Shift = 1
  NumZind = 1
  BlockBytes = 16
  PerEntry = 2
  ClusterOffset = 1
  WordBlocks = 13
  LbaBlocks = 15
  MapEnd = 10
  Disks <- MCDisks
  Workers <- MCWorkers
  Tables <- MCTables
INVARIANTS WalksRight GraphRight EveryOwnerRight EveryHoleCounted  MapRightlyJudged
CHECK_DEADLOCK FALSE
