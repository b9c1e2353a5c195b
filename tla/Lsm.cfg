SPECIFICATION LsmSpec
CONSTANTS
    NumLevels = 3
    FlushSplitBytes = 2
    HugeCompaction = 100
    LBaseMaxBytes = 2
    MaxExpandedBytes = 100
    L0CompactionThreshold = 2
    MinIntraL0Count = 2
    TargetFileSize = 2
    OverlapFactor = 1
    TableOptions <- MCTableOptions
    Scripts <- MCScripts
    MaxSnapshots = 1
    MaxCompactions = 2
    Manual <- MCManualRanges
CONSTANTS
    Committed <- MCCommitted
    Rotated <- MCRotated
    FlushOf <- MCFlushOf
    CompactionOf <- MCCompactionOf
    Scan <- MCScan
    Got <- MCGot
CHECK_DEADLOCK FALSE
INVARIANTS
    ReadsMatchWrites
    CompactionsSucceed
