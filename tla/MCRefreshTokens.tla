-------------------------- MODULE MCRefreshTokens --------------------------
(* RefreshTokens on small instances: interchangeable requests and tokens.   *)
EXTENDS RefreshTokens, TLC

Symmetry == Permutations(Procs) \cup Permutations(Tokens)
============================================================================
