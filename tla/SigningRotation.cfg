SPECIFICATION Spec
CONSTANTS
  n1 = n1  n2 = n2  n3 = n3  n4 = n4  q1 = q1  q2 = q2
  NoMsg = NoMsg  NoQuorum = NoQuorum  NoSig = NoSig
  Nodes = {n1, n2, n3}
  Quorums = {q1, q2}
  Ids = {i1}
  Msgs = {m1, m2}
  Threshold = 2
  ReSign = {TRUE}
  MaxFaults = 0
  IslockNodes = {}
  Members <- OverlappingQuorums
  Tips <- TwoTips
  Active <- RotationActive
  Select <- RotationSelect
SYMMETRY MsgSymmetry
INVARIANTS
  NoConflictingRecoveredSigs
CHECK_DEADLOCK FALSE
