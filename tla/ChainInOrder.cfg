SPECIFICATION InOrderSpec
INVARIANTS HeightIsPosition
PROPERTIES DurableTipOnlyGrows ImplementsRegister
SYMMETRY Shuffle
CONSTANTS
  g = g
  a = a
  b = b
  c = c
  z = z
  t1 = t1
  t2 = t2
  t3 = t3
  Threads <- ThreeThreads
  Hashes <- ForkHashes
  Genesis = g
  NoHash = NoHash
  Parent <- ForkParent
  Depth <- ForkDepth
  MaxCrashes = 1
  MaxResets = 0
CHECK_DEADLOCK FALSE
