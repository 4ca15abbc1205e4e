----------------------------- MODULE MCLifecycle -----------------------------
(***************************************************************************)
(* Model values and bounds for checking LifecycleNormalizer with TLC.      *)
(***************************************************************************)
EXTENDS LifecycleNormalizer, TLC

CONSTANTS t1, t2, t3, e1, e2, n1, p1, p2

MCTime == {1, 2}

\* All transfers belong to one process; p2 only appears in foreign receipts.
MCOneProcess == [t \in Transfer |-> p1]

\* t1 belongs to another process than the rest.
MCTwoProcesses == [t \in Transfer |-> IF t = t1 THEN p2 ELSE p1]

\* No action reads the name of the last counter.
MCView == <<tables, evidence_valid, closed, emitted>>

MCSymmetry == Permutations(Transfer) \cup Permutations(Epoched)
=============================================================================
