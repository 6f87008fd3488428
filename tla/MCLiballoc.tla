------------------------------ MODULE MCLiballoc -----------------------------
(***************************************************************************)
(* Pages of four units and tags of one for TLC.                            *)
(***************************************************************************)
EXTENDS Liballoc
=============================================================================
