SPECIFICATION FairSpec
INVARIANTS OrphanIsListed MemoryHoldsNoOnlyCopy
PROPERTIES CallsReturn Settles
CONSTANTS
  g = g
  a = a
  b = b
  c = c
  w1 = w1
  w2 = w2
  s1 = s1
  s2 = s2
  Workers <- TwoWorkers
  Sessions <- TwoSessions
  Hashes <- ForkHashes
  Genesis = g
  NoHash = NoHash
  Parent <- ForkParent
  MaxOrphans = 2
  MaxMessages = 3
CHECK_DEADLOCK FALSE
