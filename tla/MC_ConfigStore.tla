--------------------------- MODULE MC_ConfigStore ---------------------------
(***************************************************************************)
(* Model-checking instance of ConfigStore.                                 *)
(***************************************************************************)
EXTENDS ConfigStore
=============================================================================
