SPECIFICATION ChainFairSpec
CONSTANTS
  g = g  a1 = a1  a2 = a2  b1 = b1  b2 = b2  b3 = b3  c2 = c2
  NoBlock = NoBlock
  Blocks = {g, a1, a2, b1, b2, b3}
  Genesis = g
  Parent <- TreeParent
  Ancestors <- TreeAncestors
  Height <- TreeHeight
  Work <- TreeHeight
  BadBlocks = {a2}
  BadToConnect = {b3}
  MinBlocksToKeep = 2
  Threads = {t1, t2}
  MaxInvalidate = 0
  MaxReconsider = 0
INVARIANTS
  ChainTypeOK
  LinkedIffAllData
  ChainsAreComplete
PROPERTIES
  ActivationTerminates
