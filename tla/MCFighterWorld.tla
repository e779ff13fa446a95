--------------------------- MODULE MCFighterWorld ---------------------------
(***************************************************************************)
(* FighterWorld for TLC: the worker threads are interchangeable, and so    *)
(* are the characters.                                                     *)
(***************************************************************************)
EXTENDS FighterWorld, TLC

Symmetry == Permutations(Workers) \cup Permutations(Characters)
=============================================================================
