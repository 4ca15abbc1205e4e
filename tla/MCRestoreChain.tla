--------------------------- MODULE MCRestoreChain ---------------------------
(***************************************************************************)
(* Model values and bounds for checking RestoreChain with TLC.             *)
(***************************************************************************)
EXTENDS RestoreChain, TLC

CONSTANTS t1, t2, e1, e2, n1, p1, k1, k2, k3, k4

MCTime == {1, 2}
MCOneProcess == [t \in Transfer |-> p1]
MCReceiptProcess == [k \in Receipt |-> p1]
MCSymmetry ==
  Permutations(Transfer) \cup Permutations(Epoched) \cup Permutations(Receipt)
=============================================================================
