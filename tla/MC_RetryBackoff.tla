-------------------------- MODULE MC_RetryBackoff --------------------------
(***************************************************************************)
(* Model-checking instance of RetryBackoff.                                *)
(***************************************************************************)
EXTENDS RetryBackoff
=============================================================================
