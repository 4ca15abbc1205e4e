------------------------- MODULE MCCorrelatedChain --------------------------
(***************************************************************************)
(* Workers, jobs and bounds for checking CorrelatedChain with TLC.         *)
(***************************************************************************)
EXTENDS CorrelatedChain, TLC
CONSTANTS r1, r2, j1, j2

Symmetry == Permutations(Rank) \cup Permutations(Job)
=============================================================================
