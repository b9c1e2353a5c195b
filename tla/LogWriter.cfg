CONSTANTS
  BlockSize = 2
  MaxBlocks = 2
  SyncConcurrency = 2
  RecordSizes = {2, 3}
  MaxUnits = 7
  Intervals = {TRUE, FALSE}
  MaxFailures = 1
SPECIFICATION FairSpec
INVARIANT
  LogWriterSafe
PROPERTIES
  WriterServed
  SyncsAcked
  CloseReturns
\* a committer may wait for a block for ever after a failed write
CHECK_DEADLOCK FALSE
