---------------------------- MODULE TokenFamily ----------------------------
(***************************************************************************)
(* What the token endpoint promises of a family of refresh tokens, without *)
(* requests, times, locks or rows: at any moment at most one token can be  *)
(* used; using it replaces it; presenting one that was replaced, or        *)
(* revoking any, ends the family for good.  Each happens at once.          *)
(***************************************************************************)
CONSTANT Tokens
VARIABLES
  usable,   \* the tokens that would be accepted, were there time left
  spent,    \* the tokens that were replaced
  status    \* "none", "live", "revoked" or "reused"

Init == usable = {} /\ spent = {} /\ status = "none"

Issue(t) ==
  /\ status = "none"
  /\ usable' = {t}
  /\ status' = "live"
  /\ UNCHANGED spent

Rotate(old, new) ==
  /\ status = "live"
  /\ usable = {old}
  /\ new \notin spent \cup {old}
  /\ usable' = {new}
  /\ spent' = spent \cup {old}
  /\ UNCHANGED status

End(reason) ==
  /\ status = "live"
  /\ reason = "reused" => spent # {}
  /\ usable' = {}
  /\ status' = reason
  /\ UNCHANGED spent

Next ==
  \/ \E t \in Tokens : Issue(t)
  \/ \E old, new \in Tokens : Rotate(old, new)
  \/ \E reason \in {"revoked", "reused"} : End(reason)

Spec == Init /\ [][Next]_<< usable, spent, status >>
============================================================================
