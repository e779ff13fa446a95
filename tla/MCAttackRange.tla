--------------------------- MODULE MCAttackRange ---------------------------
(***************************************************************************)
(* AttackRange for TLC: the characters are interchangeable.                *)
(***************************************************************************)
EXTENDS AttackRange, TLC

Symmetry == Permutations(Characters)
=============================================================================
