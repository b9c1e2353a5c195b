CONSTANTS
  p1 = p1
  p2 = p2
  Procs = {p1, p2}
  NoBatch = NoBatch
  SyncConcurrency = 3
  FirstSeqNum = 1
  Counts = {1}
  SyncModes = {TRUE}
  MaxBatches = 4
  RatchetTargets = {3}
SPECIFICATION FairSpec
INVARIANTS
  SyncedOnReturn
  WALInOrder
PROPERTIES
  EveryCallReturns
