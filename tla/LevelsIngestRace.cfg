SPECIFICATION LevelsSpec
CONSTANTS
    NumLevels = 3
    FlushSplitBytes = 2
    HugeCompaction = 100
    LBaseMaxBytes = 4
    MaxExpandedBytes = 100
    L0CompactionThreshold = 2
    MinIntraL0Count = 2
    LevelKeys = {1, 2, 3}
    Shapes <- MCShapes
    InitContents <- MCContents
    MaxOverlapBytes = 2
    MaxConcurrentCompactions = 2
    ReadRanges <- MCReads
    ManualRanges <- MCManual
    LateIngest = TRUE
    MaxSeqNum = 8
    MaxJobs = 3
CHECK_DEADLOCK FALSE
INVARIANTS
    SeqNumInvariant
