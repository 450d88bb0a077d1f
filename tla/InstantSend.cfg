SPECIFICATION Spec
CONSTANTS
  parent = parent  child = child  double = double  out = out  change = change  old = old  q1 = q1  q2 = q2  None = None
  Txs <- FamilyTxs
  Outpoints = {out, change}
  Inputs <- FamilyInputs
  Source <- FamilySource
  Quorums = {q1, q2}
  Worlds <- FamilyWorlds
  Confirmations = 2
  MaxBlocks = 2
  MaxReorgs = 1
INVARIANTS
  IndicesAgree
  LockedTxPrevails
  LocksAreFiled
  NoForgottenChild
CHECK_DEADLOCK FALSE
