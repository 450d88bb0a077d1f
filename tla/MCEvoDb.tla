------------------------------ MODULE MCEvoDb ------------------------------
(***************************************************************************)
(* A tree of blocks over one DKG session.  a2 mines a commitment, after    *)
(* which x3 has one too many; on the other branch b2 has a null one, and   *)
(* b3 mines a commitment, if it passes the filter.                         *)
(***************************************************************************)
EXTENDS EvoDb

CONSTANTS g, a1, a2, x3, b2, b3

MCBlocks == {g, a1, a2, x3, b2, b3}
MCParent == [b \in MCBlocks |->
  CASE b \in {g, a1} -> g [] b \in {a2, b2} -> a1 [] b = x3 -> a2 [] OTHER -> b2]
MCAncestors == [b \in MCBlocks |->
  LET up == MCParent[b] upper == MCParent[up] IN {b, up, upper, g}]
MCHeight == [b \in MCBlocks |->
  CASE b = g -> 0 [] b = a1 -> 1 [] b \in {a2, b2} -> 2 [] OTHER -> 3]
MCCommitment == [b \in MCBlocks |->
  CASE b \in {g, a1} -> "none" [] b \in {b2, x3} -> "null" [] OTHER -> "final"]
MCSigners == [b \in MCBlocks |-> IF b = b3 THEN 2 ELSE 1]
MCFiltered == {b3}
MCMiningWindow == 2..3
=============================================================================
