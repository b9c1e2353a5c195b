SPECIFICATION IterSpec
CONSTANTS
  Stores <- MCStores
  ViewKeys <- MCKeys
  GetKeys <- MCGetKeys
  MaxFaults = 1
INVARIANTS  GetMatchesView
CHECK_DEADLOCK FALSE
CONSTANTS
  Built <- MCBuilt
  Opened <- MCOpened
  Called <- MCCalled
  Failed <- MCFailed
  Got <- MCGot
