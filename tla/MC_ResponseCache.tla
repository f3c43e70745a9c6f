-------------------------- MODULE MC_ResponseCache --------------------------
(***************************************************************************)
(* Model-checking instance of ResponseCache.                               *)
(***************************************************************************)
EXTENDS ResponseCache, TLC

\* Keys are interchangeable model values.
KeySymmetry == Permutations(Keys)
=============================================================================
