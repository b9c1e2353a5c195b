SPECIFICATION Spec
CONSTANTS
  Nil = Nil
  MaxHandMoves = 60
  Blocks <- MCBlocks
  BlockSizes <- MCBlockSizes
  MaxSize = 3
  Reservation = 2
  MaxReserved = 2
  Bufs <- MCBufs
  Threads = {t1, t2}
  Files <- MCFiles
  TableSize = 1
  Values <- MCValues
  ChanCap = 1
  Budgets <- MCBudgets
SYMMETRY Symmetry
CHECK_DEADLOCK FALSE
INVARIANTS
  ClocksConsistent
  ReferencesExact
  NoCachePanic
  NothingLeaks
