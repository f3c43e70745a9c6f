------------------------------- MODULE MC_Metrics -------------------------------
(***************************************************************************)
(* Model-checking instance of Metrics.                                     *)
(***************************************************************************)
EXTENDS Metrics, TLC

ThreadSymmetry == Permutations(Threads)
=============================================================================
