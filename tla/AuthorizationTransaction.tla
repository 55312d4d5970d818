---------------------- MODULE AuthorizationTransaction ----------------------
(***************************************************************************)
(* The authorization transaction of the identity service                   *)
(* (internal/domain/authorizationtransaction): the record that carries one *)
(* user from the start of an authorization to a code, and what its methods *)
(* allow and change.  Operators only; AuthorizationFlow keeps the records. *)
(*                                                                         *)
(* status and next_step are one field here, stage: the status is pending   *)
(* at the first four, and finish clears the step.  The authentication      *)
(* level and its time are set on the way to consent, so the stage tells    *)
(* them too.  One stage stands for email and phone verification.  The      *)
(* steps password_change and mfa have no use case that completes them, and *)
(* a login never asks for a contact verification, because the contacts of  *)
(* an active identity are verified: neither is here.                       *)
(***************************************************************************)
EXTENDS Integers

CONSTANTS
    Contacts,   \* email addresses and phone numbers; one identity for each
    Scopes,     \* OAuth scopes
    None        \* no identity, no transaction

Stage == {"absent", "choose", "verification", "mfa_enrollment", "consent",
          "ready", "completed", "denied"}

Source == {"none", "user_consent", "remembered_grant", "trusted_client"}

(* verifyBy is the expiry of the bound challenge, zero without one. *)
Txn == [stage     : Stage,
        requested : SUBSET Scopes,
        identity  : Contacts \cup {None},
        verifyBy  : Nat,
        granted   : SUBSET Scopes,
        source    : Source,
        expires   : Nat]

NoTxn == [stage |-> "absent", requested |-> {}, identity |-> None, verifyBy |-> 0,
          granted |-> {}, source |-> "none", expires |-> 0]

New(requested, expires) ==
    [NoTxn EXCEPT !.stage = "choose", !.requested = requested, !.expires = expires]

Pending == {"choose", "verification", "mfa_enrollment", "consent"}

(* ensureChangeAllowed *)
ChangeAllowed(x, at) == at < x.expires

(* BeginPasswordRegistration and the binding of the challenge. *)
CanBeginRegistration(x, at) ==
    ChangeAllowed(x, at) /\ x.stage = "choose" /\ x.identity = None

BeginRegistration(x, c, verifyBy) ==
    [x EXCEPT !.stage = "verification", !.identity = c, !.verifyBy = verifyBy]

(* Mistake: any step of a pending transaction will do.                     *)
CanAuthenticateAtAnyStep(x, c, at) == ChangeAllowed(x, at) /\ x.stage \in Pending

(* CompletePrimaryAuthentication.  Nobody can enrol a second factor, so    *)
(* the next step is always the offer to do it.                             *)
CanAuthenticate(x, c, at) ==
    ChangeAllowed(x, at) /\ x.stage = "choose" /\ x.identity \in {None, c}

Authenticate(x, c) == [x EXCEPT !.stage = "mfa_enrollment", !.identity = c]

(* The verification reference of the service, and CompleteEmailVerification. *)
CanVerify(x, at) ==
    ChangeAllowed(x, at) /\ x.stage = "verification" /\ at < x.verifyBy

CompleteVerification(x) == [x EXCEPT !.stage = "mfa_enrollment", !.verifyBy = 0]

CanSkipMFA(x, at) == ChangeAllowed(x, at) /\ x.stage = "mfa_enrollment"

SkipMFA(x) == [x EXCEPT !.stage = "consent"]

CanAuthorize(x, scopes, at) ==
    /\ ChangeAllowed(x, at)
    /\ x.stage = "consent"
    /\ scopes # {}
    /\ scopes \subseteq x.requested

AuthorizeScopes(x, scopes, source) ==
    [x EXCEPT !.stage = "ready", !.granted = scopes, !.source = source]

(* Mistake: a completed transaction may be completed again.                *)
CanCompleteAgain(x, at) == ChangeAllowed(x, at) /\ x.stage \in {"ready", "completed"}

CanComplete(x, at) == ChangeAllowed(x, at) /\ x.stage = "ready"

(* Mistake: the status is not looked at.                                   *)
CanDenyAlways(x, at) == ChangeAllowed(x, at)

CanDeny(x, at) == ChangeAllowed(x, at) /\ x.stage \in Pending

Finish(x, stage) == [x EXCEPT !.stage = stage, !.verifyBy = 0]
=============================================================================
