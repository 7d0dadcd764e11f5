SPECIFICATION FairSpec
PROPERTIES CatchesUp
CONSTANTS
  Batch = 1
  InvLimit = 2
  HeadersPerMsg = 2
  MaxPending = 2
  TimeoutTicks = 2
  FirstTop = 4
  MaxTop = 4
  MaxInFlight = 1
  MaxFaults = 0
CHECK_DEADLOCK FALSE
