SPECIFICATION Spec
CONSTANTS
  g = g  a1 = a1  a2 = a2  b1 = b1  b2 = b2
  NoBlock = NoBlock
  Blocks = {g, a1, a2, b1}
  Genesis = g
  Parent <- MCParent
  Ancestors <- MCAncestors
  Height <- MCHeight
  Work <- MCHeight
  BadBlocks = {}
  BadToConnect = {}
  MinBlocksToKeep = 2
  Threads = {msg, sched}
  MaxInvalidate = 0
  MaxReconsider = 0
  MsgHandler = msg
  SigWorker = worker
  Scheduler = sched
  Lockable = {a1, a2}
  SporkOn = {g, a1, b1}
  DIP0008Height = 1
  SignHeightOffset = 1
  MaxCleanups = 1
INVARIANTS
  KnownFollowsBest
  LockedChainNotMarked
PROPERTIES
  SignRequestRespectsLock
CHECK_DEADLOCK FALSE
