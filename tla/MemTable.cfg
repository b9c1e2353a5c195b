SPECIFICATION MemTableSpec
CONSTANTS
    Threads = {1, 2, 3}
    Lists = {1, 2}
    Works <- MCWorks
    MaxHeight = 2
    Capacity = 9
    Readers = {1}
    Scans <- MCScans
CHECK_DEADLOCK FALSE
INVARIANTS
    ListsWellFormed
    ScansComplete
    TombstonesCurrent
    AppliesSucceed
