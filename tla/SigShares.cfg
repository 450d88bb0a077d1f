SPECIFICATION FairSpec
CONSTANTS
  a = a  b = b  c = c  d = d
  NoSession = NoSession  NoRequest = NoRequest
  Nodes = {a, b, c, d}
  Topologies <- PairAndDiamond
  SignersIn <- SignersOfBoth
  MaxFaults <- FaultsInPair
  Threshold = 2
  MaxRequests = 1
INVARIANTS
  OneRequestAtATime
PROPERTIES
  SharesReachEveryone
CHECK_DEADLOCK FALSE
