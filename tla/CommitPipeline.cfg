CONSTANTS
  p1 = p1
  p2 = p2
  p3 = p3
  p4 = p4
  Procs = {p1, p2, p3, p4}
  NoBatch = NoBatch
  SyncConcurrency = 3
  FirstSeqNum = 0
  Counts = {0, 1}
  SyncModes = {TRUE}
  MaxBatches = 4
  RatchetTargets = {}
SPECIFICATION MCSpec
SYMMETRY ProcSymmetry
INVARIANTS
  VisibleApplied
  ReadYourWrites
  IngestSeesWrites
  NeverFull
PROPERTIES
  ImplementsCommitOrder
