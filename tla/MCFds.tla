------------------------------- MODULE MCFds --------------------------------
(***************************************************************************)
(* Small instances of Fds: which block malloc returns makes no difference. *)
(***************************************************************************)
EXTENDS Fds, TLC

AnyTable == Permutations(Tables)
=============================================================================
