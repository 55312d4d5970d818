--------------------------- MODULE PasswordLockout ---------------------------
(***************************************************************************)
(* The failure counter and the lock of a password                          *)
(* (internal/domain/password, identity_password_auth_state): what an       *)
(* attempt at time "at" makes of the row it read.  The credential is not   *)
(* here: no code changes it after the registration.                        *)
(***************************************************************************)
EXTENDS Integers

CONSTANTS
    MaxAttempts,    \* FailurePolicy.MaxAttempts
    LockDuration    \* FailurePolicy.LockDuration

(* lockedUntil is zero when locked_until is NULL. *)
AuthState == [attempts : Nat, lockedUntil : Nat, updated : Nat]

(* A new password, and Reset. *)
Unlocked(at) == [attempts |-> 0, lockedUntil |-> 0, updated |-> at]

Locked(at) ==
    [attempts |-> MaxAttempts, lockedUntil |-> at + LockDuration, updated |-> at]

(* Mistake: the lock is not looked at.                                     *)
AttemptAllowedLocked(row, at) == row.updated <= at

(* ensureAuthenticationAllowed: while it refuses, neither a right nor a    *)
(* wrong password changes anything.                                        *)
AttemptAllowed(row, at) ==
    /\ row.updated <= at
    /\ row.lockedUntil <= at

(* RecordFailedAttempt: a lock that has ended starts the count again. *)
FailedAttempt(row, at) ==
    LET count == IF row.lockedUntil # 0 THEN 1 ELSE row.attempts + 1
    IN  [attempts    |-> count,
         lockedUntil |-> IF count >= MaxAttempts THEN at + LockDuration ELSE 0,
         updated     |-> at]
==============================================================================
