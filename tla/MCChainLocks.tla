---------------------------- MODULE MCChainLocks ----------------------------
(* Two branches above the genesis block; locks on one of them.             *)
EXTENDS ChainLocks, TLC

CONSTANTS g, a1, a2, b1, b2

TreeParent == g :> g @@ a1 :> g @@ a2 :> a1 @@ b1 :> g @@ b2 :> b1
TreeAncestors == g :> {g} @@ a1 :> {g, a1} @@ a2 :> {g, a1, a2}
                   @@ b1 :> {g, b1} @@ b2 :> {g, b1, b2}

MCParent == [b \in Blocks |-> TreeParent[b]]
MCAncestors == [b \in Blocks |-> TreeAncestors[b]]
MCHeight == [b \in Blocks |-> Cardinality(TreeAncestors[b]) - 1]
============================================================================
