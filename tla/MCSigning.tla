----------------------------- MODULE MCSigning -----------------------------
(* Instances of Signing for TLC. *)
EXTENDS Signing, TLC

CONSTANTS n1, n2, n3, n4, q1, q2

\* All nodes in one quorum, which stays selected.
OneQuorum == [q \in Quorums |-> Nodes]
AlwaysActive == [h \in Tips |-> Quorums]
AlwaysFirst == [h \in Tips |-> [i \in Ids |-> q1]]
OneTip == {0}

\* q1 is selected first; q2 replaces it at height 1, where IsQuorumActive still
\* accepts q1.
TwoTips == 0..1
RotationActive == [h \in TwoTips |-> {q \in Quorums : q = q1 \/ h = 1}]
RotationSelect == [h \in TwoTips |-> [i \in Ids |-> IF h = 0 THEN q1 ELSE q2]]
\* Quorums with a member in common.
OverlappingQuorums == [q \in Quorums |-> IF q = q1 THEN {n1, n2} ELSE {n2, n3}]

MsgSymmetry == Permutations(Msgs)
============================================================================
