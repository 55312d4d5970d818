-------------------------- MODULE MCHiringPipeline -------------------------
(* Instances of HiringPipeline for TLC: requests and offers are interchangeable. *)
EXTENDS HiringPipeline, TLC

Symmetry == Permutations(Procs) \cup Permutations(Offers)
============================================================================
