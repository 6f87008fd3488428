-------------------------------- MODULE MCVmm --------------------------------
(***************************************************************************)
(* A heap of a few pages and a few nodes for TLC.                          *)
(***************************************************************************)
EXTENDS Vmm
=============================================================================
