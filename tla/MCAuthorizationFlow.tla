-------------------------- MODULE MCAuthorizationFlow --------------------------
EXTENDS AuthorizationFlow, TLC

CONSTANTS t1, c1, c2, p1, p2, s1

Symmetry == Permutations(Requests)
================================================================================
