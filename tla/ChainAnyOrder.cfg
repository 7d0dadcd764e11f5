SPECIFICATION FairSpec
INVARIANTS TypeOK TipIsBest TipIsPersisted
PROPERTIES TipConverges
CONSTANTS
  g = g
  a = a
  b = b
  c = c
  z = z
  t1 = t1
  t2 = t2
  t3 = t3
  Threads <- TwoThreads
  Hashes <- StrayHashes
  Genesis = g
  NoHash = NoHash
  Parent <- StrayParent
  Depth <- StrayDepth
  MaxCrashes = 1
  MaxResets = 0
CHECK_DEADLOCK FALSE
