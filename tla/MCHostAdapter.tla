---------------------------- MODULE MCHostAdapter ----------------------------
(***************************************************************************)
(* Threads and bounds for checking HostAdapter with TLC.                   *)
(***************************************************************************)
EXTENDS HostAdapter, TLC
CONSTANTS o1, o2
MCSymmetry == Permutations(Observer)
=============================================================================
