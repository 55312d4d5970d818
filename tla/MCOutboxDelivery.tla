------------------------- MODULE MCOutboxDelivery --------------------------
(* Instances of OutboxDelivery for TLC: replicas are interchangeable. *)
EXTENDS OutboxDelivery, TLC

TwoMessages == 1 .. 2
Symmetry == Permutations(Workers)
============================================================================
