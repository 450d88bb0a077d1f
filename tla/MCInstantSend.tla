--------------------------- MODULE MCInstantSend ---------------------------
(* Instances of InstantSend for TLC. *)
EXTENDS InstantSend

CONSTANTS parent, child, double, out, change, old, q1, q2

\* parent and double spend the same old output out, child spends change of parent.
FamilyTxs    == {parent, child, double}
FamilyInputs == [t \in FamilyTxs |-> IF t = child THEN {change} ELSE {out}]
FamilySource == [x \in {out, change} |-> IF x = change THEN parent ELSE old]

By(q, S) == [tx : S, quorum : {q}]
\* Two conflicting transactions, both in blocks; the lock of one of them made here
\* and received as well while the other one is mined.
ConflictWorlds ==
  {[txs |-> {parent, double}, sigs |-> By(q1, {parent}), msgs |-> By(q1, {double}),
    blocks |-> {<<parent>>, <<double>>}],
   [txs |-> {parent, double}, sigs |-> By(q1, {parent, double}), msgs |-> By(q1, {double}),
    blocks |-> {<<parent>>}]}
\* A child and its parent: the lock of one made here and that of the other received
\* or none, or only that of the parent received; in one block, in one each, or with
\* a block of neither.
ChildWorlds ==
  {[txs |-> {parent, child}, sigs |-> By(q1, {child}), msgs |-> By(q1, {parent}),
    blocks |-> {<<parent>>}],
   [txs |-> {parent, child}, sigs |-> By(q1, {parent}), msgs |-> {},
    blocks |-> {<<parent, child>>, <<parent>>, <<child>>}],
   [txs |-> {parent, child}, sigs |-> {}, msgs |-> By(q1, {parent}),
    blocks |-> {<<parent>>, <<child>>}],
   [txs |-> {parent, child}, sigs |-> {}, msgs |-> By(q1, {parent}),
    blocks |-> {<<parent>>, <<>>}],
   [txs |-> {parent, child}, sigs |-> By(q1, {child}), msgs |-> {},
    blocks |-> {<<parent>>, <<child>>}]}
\* The quorums rotate: a transaction gets locks by both and is mined, disconnected
\* and left out of a block of the same height, or has a double spend in a block.
RotationWorlds ==
  {[txs |-> {parent}, sigs |-> {}, msgs |-> By(q1, {parent}) \cup By(q2, {parent}),
    blocks |-> {<<parent>>, <<>>}],
   [txs |-> {parent, double}, sigs |-> {}, msgs |-> By(q1, {parent}) \cup By(q2, {parent}),
    blocks |-> {<<double>>}]}
\* The three, and a lock against a parent that has a child.
FamilyWorlds ==
  ConflictWorlds \cup ChildWorlds \cup RotationWorlds
    \cup {[txs |-> {parent, child, double}, sigs |-> {}, msgs |-> By(q1, {double, child}),
           blocks |-> {<<parent, child>>}]}
============================================================================
