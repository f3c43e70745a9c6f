------------------------- MODULE MC_ConnectionPool -------------------------
(***************************************************************************)
(* Model-checking instance of ConnectionPool: three CURL* values, two      *)
(* concurrent requests and a pool of capacity 2, enough to fill the pool,  *)
(* overflow it and run out of fresh handles.                               *)
(***************************************************************************)
EXTENDS ConnectionPool, TLC

\* Handles and requests are interchangeable model values.
PoolSymmetry == Permutations(Handles) \cup Permutations(Requests)
=============================================================================
