------------------------- MODULE MCKeyDistribution -------------------------
(***************************************************************************)
(* Bounded instance of KeyDistribution: two keys, so that one can replace  *)
(* the other, and two requests at the gateway.                             *)
(***************************************************************************)
EXTENDS KeyDistribution, TLC

(* No definition tells one key or caller from another. *)
Symmetry == Permutations(Keys) \cup Permutations(Callers)
============================================================================
