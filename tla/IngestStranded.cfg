SPECIFICATION Spec
INVARIANTS NoOrphanIsStranded
SYMMETRY Shuffle
CONSTANTS
  g = g
  a = a
  b = b
  c = c
  w1 = w1
  w2 = w2
  s1 = s1
  s2 = s2
  Workers <- TwoWorkers
  Sessions <- TwoSessions
  Hashes <- ChainHashes
  Genesis = g
  NoHash = NoHash
  Parent <- ChainParent
  MaxOrphans = 2
  MaxMessages = 3
CHECK_DEADLOCK FALSE
