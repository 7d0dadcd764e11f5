SPECIFICATION FairSpec
INVARIANTS ExplorerTypeOK ShowsOneOutcome StaleOnlyForCause BlocksNotOlderThanStatus
PROPERTIES LoadingEnds PollingCatchesUp
CHECK_DEADLOCK FALSE
CONSTANTS
  None = None
  ItemHeight = 1
  MaxTip = 3
  MaxRegrown = 0
  MaxResets = 1
  MaxFaults = 1
  RecentBlocks = 1
  FewConfirmations = 2
  MaxOpen = 2
  MaxPolls = 2
  MaxVisits = 2
