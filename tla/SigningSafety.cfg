SPECIFICATION FairSpec
CONSTANTS
  n1 = n1  n2 = n2  n3 = n3  n4 = n4  q1 = q1  q2 = q2
  NoMsg = NoMsg  NoQuorum = NoQuorum  NoSig = NoSig
  Nodes = {n1, n2}
  Quorums = {q1}
  Ids = {i1}
  Msgs = {m1, m2}
  Threshold = 2
  ReSign = {TRUE}
  MaxFaults = 1
  IslockNodes = {n1}
  Members <- OneQuorum
  Tips <- OneTip
  Active <- AlwaysActive
  Select <- AlwaysFirst
INVARIANTS
  OneShareVotePerId
  ShareIsBackedByStoredVote
  RecoveredFromThreshold
PROPERTIES
  VoteNeverChanges
  ThresholdVoteIsRecovered
  ImplementsService
CHECK_DEADLOCK FALSE
