CONSTANTS
  MemTableSize = 4
  InitialMemTableSize = 1
  StopWrites = 2
  L0CompactionThreshold = 1
  L0StopWrites = 1
  RecycleLimit = 1
  BatchSizes = {3}
  MaxSeqNum = 1
  MaxLogNum = 4
  MaxCrashes = 0
  MaxFlushErrors = 1
SPECIFICATION FairSpec
PROPERTIES
  FlushesComplete
  CommitsProceed
