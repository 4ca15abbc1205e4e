------------------------- MODULE MCDescriptorCapture -------------------------
(***************************************************************************)
(* Processes, names and bounds for checking DescriptorCapture with TLC.    *)
(***************************************************************************)
EXTENDS DescriptorCapture, TLC
CONSTANTS c1, c2, i1, i2
=============================================================================
