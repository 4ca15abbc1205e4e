-------------------------- MODULE MCHostTransfers --------------------------
(***************************************************************************)
(* Model values and bounds for checking HostTransfers with TLC.  The       *)
(* native binding's settings: no epochs, receipts not retained.            *)
(***************************************************************************)
EXTENDS HostTransfers, TLC

CONSTANTS j1, j2, j3, n1, p1

MCTime == {1, 2}
MCProcessOf == [j \in Job |-> p1]
\* The last counter matters only within the action that produced it.
MCView == <<pending, completed_restores, admissions, evidence_valid, closed,
            emitted, active, registered, binding, backlog, recorded, refused, host>>

MCSymmetry == Permutations(Job)
=============================================================================
