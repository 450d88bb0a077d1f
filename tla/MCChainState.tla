---------------------------- MODULE MCChainState ----------------------------
(* Instances of ChainState for TLC: block trees of three branches. *)
EXTENDS ChainState, TLC

CONSTANTS g, a1, a2, b1, b2, b3, c2

\* Two branches: g - a1 - a2 and g - b1 - b2 - b3, the second with a side
\* block c2 on b1.
TreeParent ==
  [b \in Blocks |-> CASE b = a2 -> a1
                       [] b \in {b2, c2} -> b1
                       [] b = b3 -> b2
                       [] OTHER -> g]

RECURSIVE AncestorsIn(_, _)
AncestorsIn(parent, b) == IF b = g THEN {g} ELSE {b} \cup AncestorsIn(parent, parent[b])

TreeAncestors == [b \in Blocks |-> AncestorsIn(TreeParent, b)]
TreeHeight == [b \in Blocks |-> Cardinality(TreeAncestors[b]) - 1]
============================================================================
