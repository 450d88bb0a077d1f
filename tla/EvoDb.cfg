SPECIFICATION EvoSpec
CONSTANTS
  g = g
  a1 = a1
  a2 = a2
  x3 = x3
  b2 = b2
  b3 = b3
  NoBlock = NoBlock
  Blocks <- MCBlocks
  Genesis = g
  Parent <- MCParent
  Ancestors <- MCAncestors
  Height <- MCHeight
  Commitment <- MCCommitment
  Signers <- MCSigners
  Filtered <- MCFiltered
  MaxSigners = 2
  DkgInterval = 4
  MiningWindow <- MCMiningWindow
  DIP0003Height = 2
  EnforcementHeight = 2
  SnapshotPeriod = 3
  ListsCacheSize = 3
  MaxCrashes = 1
  MaxDisconnects = 1
INVARIANTS
  BestBlocksAgree
  DeadOnlyIfTorn
  EvoMatchesChain
  CommitmentRule
  CacheAgrees
  ListIsRight
PROPERTY CommitmentStaysMinable
CHECK_DEADLOCK FALSE
