SPECIFICATION FairSpec
CONSTANTS
  g = g  a1 = a1  a2 = a2  b1 = b1  b2 = b2
  NoBlock = NoBlock
  Blocks = {g, a1, b1, b2}
  Genesis = g
  Parent <- MCParent
  Ancestors <- MCAncestors
  Height <- MCHeight
  Work <- MCHeight
  BadBlocks = {}
  BadToConnect = {}
  MinBlocksToKeep = 2
  Threads = {msg, sched}
  MaxInvalidate = 0
  MaxReconsider = 0
  MsgHandler = msg
  SigWorker = worker
  Scheduler = sched
  Lockable = {a1}
  SporkOn = {g, a1, b1, b2}
  DIP0008Height = 0
  SignHeightOffset = 1
  MaxCleanups = 0
PROPERTIES
  LockPrevails
CHECK_DEADLOCK FALSE
