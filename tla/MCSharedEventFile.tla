------------------------- MODULE MCSharedEventFile -------------------------
(***************************************************************************)
(* Processes and bounds for checking SharedEventFile with TLC.             *)
(***************************************************************************)
EXTENDS SharedEventFile, TLC
CONSTANTS s1, s2
MCSymmetry == Permutations(Sink)
=============================================================================
