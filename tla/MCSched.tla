------------------------------- MODULE MCSched -------------------------------
(* Small instances of Sched for TLC.                                       *)
EXTENDS Sched, TLC

\* Page tables are interchangeable: only whether they are allocated matters.
AspSymmetry == Permutations(Asps)
=============================================================================
