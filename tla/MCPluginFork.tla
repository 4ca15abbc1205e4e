---------------------------- MODULE MCPluginFork ----------------------------
(***************************************************************************)
(* Processes and bounds for checking PluginFork with TLC.                  *)
(***************************************************************************)
EXTENDS PluginFork
CONSTANTS p1, p2
=============================================================================
