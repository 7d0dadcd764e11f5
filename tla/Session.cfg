SPECIFICATION FairSpec
INVARIANTS SessionTypeOK WantedBlocksAreTracked SettledIsComplete
PROPERTIES RequestsEnd CatchesUpUnlessLost
CONSTANTS
  Batch = 1
  InvLimit = 2
  HeadersPerMsg = 2
  MaxPending = 2
  TimeoutTicks = 2
  FirstTop = 1
  MaxTop = 3
  MaxInFlight = 1
  MaxFaults = 2
CHECK_DEADLOCK FALSE
