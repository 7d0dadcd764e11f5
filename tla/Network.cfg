SPECIFICATION FairSpec
INVARIANTS NetworkTypeOK NoGhostPeers RegistriesAgree
PROPERTIES MissingSeedsAreDialed FastSyncFollowsMode
CONSTANTS
  r1 = r1
  r2 = r2
  d1 = d1
  d2 = d2
  Seeds <- BothSeeds
  RustSeeds <- BothSeeds
  Dials <- BothDials
  FirstDials <- BothDials
  Seed <- OneEach
  FastPeers = 2
  HybridPeers = 0
  EnoughPeers = 2
