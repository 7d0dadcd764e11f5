SPECIFICATION FaultySpec
INVARIANTS IndexIsDurable DbTipHasHeader GenesisIsIndexed
PROPERTIES TipFallsOnlyByReset
SYMMETRY Shuffle
CONSTANTS
  g = g
  a = a
  b = b
  c = c
  z = z
  t1 = t1
  t2 = t2
  t3 = t3
  Threads <- TwoThreads
  Hashes <- ChainHashes
  Genesis = g
  NoHash = NoHash
  Parent <- ChainParent
  Depth <- ChainDepth
  MaxCrashes = 2
  MaxResets = 1
CHECK_DEADLOCK FALSE
