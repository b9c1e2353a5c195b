CONSTANTS
  MemTableSize = 2
  InitialMemTableSize = 2
  StopWrites = 3
  L0CompactionThreshold = 1
  L0StopWrites = 1
  RecycleLimit = 1
  BatchSizes = {2}
  MaxSeqNum = 2
  MaxLogNum = 4
  MaxCrashes = 2
  MaxFlushErrors = 1
SPECIFICATION Spec
INVARIANTS
  AckedSurvive
  RecoveredIsPrefix
  UnflushedInWAL
  NumbersFresh
