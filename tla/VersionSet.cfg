SPECIFICATION Spec
CONSTANTS
  Jobs = {j1, j2}
  Readers = {r1}
  Checkpoints = {c1}
  Cleaner = cleaner
  Closer = closer
  Nobody = nobody
  LiveTables = {1}
  FirstManifest = 2
  MaxEdits = 2
  MaxCheckpoints = 1
  MaxFailures = 1
  PacedModes = {TRUE, FALSE}
INVARIANTS TablesExist Recoverable CheckpointConsistent PanicFree CloseClean NoLostWakeup
SYMMETRY Symmetry
