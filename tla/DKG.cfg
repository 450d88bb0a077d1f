SPECIFICATION Spec
CONSTANTS
  n1 = n1  n2 = n2  n3 = n3
  Members = {n1, n2, n3}
  MinSize = 2
  BadVotes = 2
  Faulty = {n3}
  BatchSize = 2
  MaxUntimely = 1
  RewindFaulty = 0
SYMMETRY HonestSymmetry
INVARIANTS
  DkgTypeOK
  OneQuorumKey
  FinalIsSigned
  NoHonestIsBad
  SameView
  HonestFinish
