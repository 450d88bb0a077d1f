SPECIFICATION ChainSpec
CONSTANTS
  g = g  a1 = a1  a2 = a2  b1 = b1  b2 = b2  b3 = b3  c2 = c2
  NoBlock = NoBlock
  Blocks = {g, a1, a2, b1, b2, b3, c2}
  Genesis = g
  Parent <- TreeParent
  Ancestors <- TreeAncestors
  Height <- TreeHeight
  Work <- TreeHeight
  BadBlocks = {}
  BadToConnect = {b3}
  MinBlocksToKeep = 2
  Threads = {t1}
  MaxInvalidate = 2
  MaxReconsider = 1
INVARIANTS
  FailedHasInvalidAncestor
  UnlinkedComplete
  CandidatesExact
  NoAbort
  ActiveChainIsValid
  IdleTipIsBest
