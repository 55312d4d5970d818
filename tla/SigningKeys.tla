---------------------------- MODULE SigningKeys ----------------------------
(***************************************************************************)
(* The signing keys of the identity service: the rows of                   *)
(* public.signing_keys, the admin call CreateSigningKey and the life cycle *)
(* of a key (internal/domain/signingkey, internal/repository/signingkey,   *)
(* internal/usecase/signingkeyadmin, internal/usecase/metadata).           *)
(*                                                                         *)
(* One algorithm is in use (EdDSA), so every key here competes for one     *)
(* place in signing_keys_active_algorithm_uidx.  Keys are created without  *)
(* an expiry.  A row is inserted active, and no code stores a pending one: *)
(* the pending branch of activateExisting cannot be reached and is left    *)
(* out.  The domain has the methods that take a key out of use; who calls  *)
(* them is an operator outside the repository, one step at a time.         *)
(***************************************************************************)
EXTENDS Naturals

CONSTANTS
    Keys,       \* key identifiers (kid)
    MaxTime     \* bound: time stops here

VARIABLES
    now,        \* the clock all processes read
    rows        \* rows[k]: the row with kid k

KeyStatus == {"absent", "active", "retiring", "retired", "compromised"}

(* created is created_at, activated_at and not_before, all taken from one  *)
(* clock read; changed is latestChangedAt; withdrawn is the earlier of     *)
(* retired_at and compromised_at.  since is no column: the time the row    *)
(* was inserted.  A row that is no longer listed keeps only withdrawn:     *)
(* nothing reads the rest of it.                                           *)
Row == [status : KeyStatus, created : Nat, changed : Nat, withdrawn : Nat, since : Nat]

NoRow == [status |-> "absent", created |-> 0, changed |-> 0, withdrawn |-> 0, since |-> 0]

ActiveKeys == {k \in Keys : rows[k].status = "active"}

(* ListPublic: the rows in status active or retiring. *)
PublishedKeys == {k \in Keys : rows[k].status \in {"active", "retiring"}}

WithdrawnKeys == {k \in Keys : rows[k].status \in {"retired", "compromised"}}

KeysInit ==
    /\ now = 0
    /\ rows = [k \in Keys |-> NoRow]

---------------------------------------------------------------------------

(* A CreateSigningKey call that stores a key: it read its clock once, at   *)
(* some time before, and the two unique indexes let the row in.  Whatever  *)
(* its reads found, the indexes decide: a call for a kid that exists       *)
(* answers from the row (activateExisting), one that meets another active  *)
(* key is a conflict, and neither writes anything.                         *)
CreateSigningKey(k) ==
    \E at \in 0 .. now :
        /\ rows[k].status = "absent"
        /\ ActiveKeys = {}
        /\ rows' = [rows EXCEPT ![k] = [status |-> "active", created |-> at, changed |-> at,
                                        withdrawn |-> 0, since |-> now]]
        /\ UNCHANGED now

Withdrawn(k, status, at) ==
    rows' = [rows EXCEPT ![k] = [NoRow EXCEPT !.status = status, !.withdrawn = at]]

(* ensureChangeAllowed: a change may not lie before the last one. *)
ChangeAllowed(k) == rows[k].changed <= now

StartRetirement(k) ==
    /\ rows[k].status = "active"
    /\ ChangeAllowed(k)
    /\ rows' = [rows EXCEPT ![k].status = "retiring", ![k].changed = now]
    /\ UNCHANGED now

Retire(k) ==
    /\ rows[k].status = "retiring"
    /\ ChangeAllowed(k)
    /\ Withdrawn(k, "retired", now)
    /\ UNCHANGED now

MarkCompromised(k) ==
    /\ rows[k].status \in {"active", "retiring", "retired"}
    /\ ChangeAllowed(k)
    /\ Withdrawn(k, "compromised",
                 IF rows[k].status = "retired" THEN rows[k].withdrawn ELSE now)
    /\ UNCHANGED now

KeysNext ==
    \E k \in Keys :
        \/ CreateSigningKey(k)
        \/ StartRetirement(k)
        \/ Retire(k)
        \/ MarkCompromised(k)

KeysTypeOK ==
    /\ now \in Nat
    /\ rows \in [Keys -> Row]
============================================================================
