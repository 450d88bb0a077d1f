---------------------------- MODULE MCSigShares ----------------------------
(* Instances of SigShares for TLC. *)
EXTENDS SigShares

CONSTANTS a, b, c, d

\* Two members that both sign and may lose their connection or a session, and
\* a member d that gets the share of a from b or from c.
Pair    == {{a, b}}
Diamond == {{a, b}, {a, c}, {b, d}, {c, d}}

PairAndDiamond == {Pair, Diamond}
SignersOfBoth  == [t \in PairAndDiamond |-> IF t = Pair THEN {a, b} ELSE {a}]
FaultsInPair   == [t \in PairAndDiamond |-> IF t = Pair THEN 1 ELSE 0]
============================================================================
