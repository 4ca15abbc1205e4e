---------------------------- MODULE MCEventSink ----------------------------
(***************************************************************************)
(* Threads and bounds for checking EventSink with TLC.                     *)
(***************************************************************************)
EXTENDS EventSink
CONSTANTS c1, c2, f1
=============================================================================
