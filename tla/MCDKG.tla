------------------------------- MODULE MCDKG -------------------------------
(* Instances of DKG for TLC. *)
EXTENDS DKG, TLC

CONSTANTS n1, n2, n3

HonestSymmetry == Permutations(Members \ Faulty)
============================================================================
