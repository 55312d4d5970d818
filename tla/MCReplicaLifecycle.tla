------------------------ MODULE MCReplicaLifecycle -------------------------
(* Instances of ReplicaLifecycle for TLC. *)
EXTENDS ReplicaLifecycle

TwoMessages == 1 .. 2
============================================================================
