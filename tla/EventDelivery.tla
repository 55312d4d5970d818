--------------------------- MODULE EventDelivery ---------------------------
(***************************************************************************)
(* What the event pipeline promises, without its mechanism: an event that  *)
(* a service commits takes effect in a consuming service once, and only    *)
(* after it was committed.                                                 *)
(***************************************************************************)
CONSTANT Messages
VARIABLE event   \* per event: "none", "committed" or "applied"

Init == event = [m \in Messages |-> "none"]

Commit(m) == event[m] = "none" /\ event' = [event EXCEPT ![m] = "committed"]
Apply(m) == event[m] = "committed" /\ event' = [event EXCEPT ![m] = "applied"]

Next == \E m \in Messages : Commit(m) \/ Apply(m)

Spec == Init /\ [][Next]_event
FairSpec == Spec /\ \A m \in Messages : WF_event(Apply(m))
============================================================================
