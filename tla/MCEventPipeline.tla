-------------------------- MODULE MCEventPipeline --------------------------
(* Instances of EventPipeline for TLC: members are interchangeable. *)
EXTENDS EventPipeline, TLC

TwoMessages == 1 .. 2
Symmetry == Permutations(Members)
============================================================================
