-------------------------- MODULE MCSessionEngine --------------------------
(***************************************************************************)
(* Instances of SessionEngine for TLC.                                     *)
(***************************************************************************)
EXTENDS SessionEngineInvariant, TLC

\* The workers are interchangeable, and so are the sessions and the handles;
\* used in safety runs only.
Symmetric ==
  Permutations(Workers) \cup Permutations(Sessions) \cup Permutations(Handles)
=============================================================================
