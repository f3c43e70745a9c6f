----------------------------- MODULE MC_Workforce -----------------------------
(***************************************************************************)
(* Model-checking instance of Workforce with the bounds of ai-workers.c.    *)
(***************************************************************************)
EXTENDS Workforce
=============================================================================
