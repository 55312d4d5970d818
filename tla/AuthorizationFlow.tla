-------------------------- MODULE AuthorizationFlow --------------------------
(***************************************************************************)
(* The authorization flow of the identity service, from                    *)
(* StartAuthorization to the code of ContinueAuthorization                 *)
(* (internal/usecase/authentication, internal/usecase/oauth,               *)
(* internal/service/contactverification).                                  *)
(*                                                                         *)
(* The authorization transactions are in Redis, everything else in         *)
(* PostgreSQL.  A request reads the record, decides on its copy, writes    *)
(* rows that nobody else sees before its SQL transaction commits, then     *)
(* overwrites the record in Redis, which everybody sees at once, and       *)
(* commits last.  Redis takes any record for a live key (SET XX): there is *)
(* no version, and two requests for one record may overlap.                *)
(*                                                                         *)
(* One OAuth client.  A contact stands for its identity, with its profile, *)
(* password and challenge: the contact is unique, and a registration       *)
(* writes all of them in one SQL transaction.  The challenge is open as    *)
(* long as the identity is pending, as one transaction changes both.       *)
(* VerifyEmail and VerifyPhone are alike.  The verification code is not    *)
(* here: tokenMatches accepts every code.                                  *)
(***************************************************************************)
EXTENDS AuthorizationTransaction, PasswordLockout, FiniteSets

CONSTANTS
    Txns,              \* identifiers of authorization transactions
    Members,           \* contacts of identities that were active before
    Requests,          \* requests in progress at one time
    ConsentMode,       \* consent_mode of the client
    TxnLifetime,       \* AuthorizationLifetime
    ChallengeLifetime, \* contactverification Config.Lifetime
    MaxTime            \* bound: time stops here

ASSUME FlowAssumption ==
    /\ None \notin Contacts
    /\ None \notin Txns
    /\ IsFiniteSet(Requests)
    /\ ConsentMode \in {"required", "remember", "trusted"}
    /\ TxnLifetime \in Nat \ {0}
    /\ ChallengeLifetime \in Nat \ {0}
    /\ MaxAttempts \in Nat \ {0}
    /\ LockDuration \in Nat \ {0}
    /\ MaxTime \in Nat

VARIABLES
    now,
    txn,        \* txn[t]: the record in Redis, expired or not
    identity,   \* identity[c]: status of the identity with contact c
    password,   \* password[c]: its row of identity_password_auth_state
    grant,      \* grant[c]: its oauth_authorization_grants row for the client
    req,        \* req[p]: the handler p
    late,       \* late[t]: a request has overwritten a record it had not seen
    lost,       \* lost[t]: a request has written to Redis and then failed
    codes,      \* codes[t]: the codes minted from t before it was late or lost
    home,       \* home[c]: the transaction c was registered in
    consented   \* consented[c]: scopes c agreed to have remembered

(* The last five are no variables of the code: they record what happened. *)
history == <<late, lost, codes, home, consented>>

rows == <<identity, password, grant>>

vars == <<now, txn, rows, req, history>>

(* remember: GrantConsent with the remember flag; grant: without it. *)
Operation == {"none", "register", "password", "verify", "skip", "grant", "remember",
              "deny", "continue"}

(* seen: the record as it was read; write: the record to be stored; row:   *)
(* the auth state as it was read; right: the password was right.           *)
Request == [pc    : {"idle", "read", "inserting", "updating", "informed", "minted", "stored"},
            op    : Operation,
            t     : Txns \cup {None},
            c     : Contacts \cup {None},
            at    : Nat,
            seen  : Txn,
            write : Txn,
            row   : AuthState,
            right : BOOLEAN]

Grant == [scopes : SUBSET Scopes, updated : Nat]

NoGrant == [scopes |-> {}, updated |-> 0]

Idle == [pc |-> "idle", op |-> "none", t |-> None, c |-> None, at |-> 0, seen |-> NoTxn,
         write |-> NoTxn, row |-> Unlocked(0), right |-> FALSE]

(* A member may have a remembered grant, and a locked password. *)
Init ==
    /\ now = 0
    /\ txn = [t \in Txns |-> NoTxn]
    /\ identity = [c \in Contacts |-> IF c \in Members THEN "active" ELSE "absent"]
    /\ password \in [Contacts -> {Unlocked(0), Locked(0)}]
    /\ grant \in [Contacts -> [scopes : SUBSET Scopes, updated : {0}]]
    /\ \A c \in Contacts \ Members : password[c] = Unlocked(0) /\ grant[c] = NoGrant
    /\ req = [p \in Requests |-> Idle]
    /\ late = [t \in Txns |-> FALSE]
    /\ lost = [t \in Txns |-> FALSE]
    /\ codes = [t \in Txns |-> 0]
    /\ home = [c \in Contacts |-> None]
    /\ consented = [c \in Contacts |-> grant[c].scopes]

---------------------------------------------------------------------------
(* The repositories *)

(* The key expires with the record. *)
Live(t) == txn[t].stage # "absent" /\ now < txn[t].expires

(* The beginning of a handler: its time, and the record it reads. *)
Begin(p, op, t, c, write) ==
    /\ req[p].pc = "idle"
    /\ Live(t)
    /\ req' = [req EXCEPT ![p] = [Idle EXCEPT !.pc = "read", !.op = op, !.t = t, !.c = c,
                                              !.at = now, !.seen = txn[t], !.write = write]]
    /\ UNCHANGED <<now, txn, rows, history>>

Step(p, pc) == req' = [req EXCEPT ![p].pc = pc]

(* Row locks and unique keys: an uncommitted write of p's kind to the rows *)
(* of c makes p wait.  Only one kind of handler writes each table.         *)
RowFree(p) ==
    \A q \in Requests \ {p} :
        ~(req[q].pc = "stored" /\ req[q].op = req[p].op /\ req[q].c = req[p].c)

(* SET XX, whatever the record is by now. *)
Store(p, write) ==
    LET r == req[p]
    IN  /\ Live(r.t)
        /\ txn' = [txn EXCEPT ![r.t] = write]
        /\ late' = [late EXCEPT ![r.t] = @ \/ txn[r.t] # r.seen]

(* A handler that wrote no row is done with it. *)
StoreAndEnd(p, write) ==
    /\ Store(p, write)
    /\ req' = [req EXCEPT ![p] = Idle]
    /\ UNCHANGED <<now, rows, codes, lost, home, consented>>

(* The others have written their rows just before, and have yet to commit. *)
(* Waiting for the rows and writing them are one step with the write of    *)
(* the record: until then nobody sees any of it.                           *)
StoreThenCommit(p) ==
    /\ RowFree(p)
    /\ Store(p, req[p].write)
    /\ req' = [req EXCEPT ![p].pc = "stored", ![p].seen = NoTxn,
                            ![p].write = [NoTxn EXCEPT !.granted = req[p].write.granted]]
    /\ UNCHANGED <<now, rows, codes, lost, home, consented>>

(* An error, a refusal or a cancelled context: the SQL transaction is      *)
(* rolled back, what is in Redis stays.                                    *)
Fail(p) ==
    LET r == req[p]
        inRedis == r.pc \in {"minted", "stored"}
    IN  /\ r.pc # "idle"
        /\ lost' = IF inRedis THEN [lost EXCEPT ![r.t] = TRUE] ELSE lost
        /\ req' = [req EXCEPT ![p] = Idle]
        /\ UNCHANGED <<now, txn, rows, codes, late, home, consented>>

---------------------------------------------------------------------------
(* StartAuthorization *)

StartAuthorization(t) ==
    \E requested \in SUBSET Scopes \ {{}} :
        /\ txn[t].stage = "absent"
        /\ txn' = [txn EXCEPT ![t] = New(requested, now + TxnLifetime)]
        /\ UNCHANGED <<now, rows, req, history>>

---------------------------------------------------------------------------
(* RegisterIdentity *)

BeginRegister(p, t, c) ==
    /\ CanBeginRegistration(txn[t], now)
    /\ Begin(p, "register", t, c, BeginRegistration(txn[t], c, now + ChallengeLifetime))

(* identities.Create waits for another registration of the contact, and    *)
(* the profile, the password, the challenge and the events follow.         *)
StoreRegistration(p) ==
    /\ req[p].op = "register" /\ req[p].pc = "read"
    /\ identity[req[p].c] = "absent"
    /\ StoreThenCommit(p)

CommitRegistration(p) ==
    LET r == req[p]
    IN  /\ r.op = "register" /\ r.pc = "stored"
        /\ identity' = [identity EXCEPT ![r.c] = "pending"]
        /\ password' = [password EXCEPT ![r.c] = Unlocked(r.at)]
        /\ home' = [home EXCEPT ![r.c] = r.t]
        /\ req' = [req EXCEPT ![p] = Idle]
        /\ UNCHANGED <<now, txn, grant, codes, late, lost, consented>>

---------------------------------------------------------------------------
(* VerifyEmail, VerifyPhone *)

BeginVerify(p, t) ==
    /\ CanVerify(txn[t], now)
    /\ Begin(p, "verify", t, txn[t].identity, CompleteVerification(txn[t]))

(* The challenge is read FOR UPDATE: whoever waited for it finds it        *)
(* consumed.                                                               *)
StoreVerification(p) ==
    /\ req[p].op = "verify" /\ req[p].pc = "read"
    /\ identity[req[p].c] = "pending"
    /\ StoreThenCommit(p)

CommitVerification(p) ==
    /\ req[p].op = "verify" /\ req[p].pc = "stored"
    /\ identity' = [identity EXCEPT ![req[p].c] = "active"]
    /\ req' = [req EXCEPT ![p] = Idle]
    /\ UNCHANGED <<now, txn, password, grant, history>>

---------------------------------------------------------------------------
(* AuthenticateWithPassword *)

(* Any live transaction will do: its state is only looked at after the     *)
(* password.                                                               *)
BeginPassword(p, t, c) == Begin(p, "password", t, c, NoTxn)

(* Mistake: the status of the identity is not looked at.                   *)
ReadPasswordOfAny(p) ==
    LET r   == req[p]
        row == password[r.c]
    IN  /\ r.op = "password" /\ r.pc = "read"
        /\ identity[r.c] # "absent"
        /\ AttemptAllowed(row, r.at)
        /\ CanAuthenticate(r.seen, r.c, r.at)
        /\ req' = [req EXCEPT ![p].pc = "updating", ![p].row = row, ![p].right = TRUE,
                              ![p].write = Authenticate(r.seen, r.c)]
        /\ UNCHANGED <<now, txn, rows, history>>

(* No lock is taken.  A wrong password has nothing more to do with the     *)
(* transaction.                                                            *)
ReadPassword(p) ==
    LET r   == req[p]
        row == password[r.c]
    IN  /\ r.op = "password" /\ r.pc = "read"
        /\ identity[r.c] = "active"
        /\ AttemptAllowed(row, r.at)
        /\ \/ req' = [req EXCEPT ![p] = [Idle EXCEPT !.pc = "updating", !.op = "password",
                            !.c = r.c, !.at = r.at, !.row = row]]
           \/ /\ CanAuthenticate(r.seen, r.c, r.at)
              /\ req' = [req EXCEPT ![p].pc = "updating", ![p].row = row, ![p].right = TRUE,
                                    ![p].write = Authenticate(r.seen, r.c)]
        /\ UNCHANGED <<now, txn, rows, history>>

(* The UPDATE waits for the row, and asks nothing of what it finds there. *)
CommitFailedAttempt(p) ==
    LET r == req[p]
    IN  /\ r.op = "password" /\ r.pc = "updating" /\ ~r.right
        /\ RowFree(p)
        /\ password' = [password EXCEPT ![r.c] = FailedAttempt(r.row, r.at)]
        /\ req' = [req EXCEPT ![p] = Idle]
        /\ UNCHANGED <<now, txn, identity, grant, history>>

StoreAuthentication(p) ==
    /\ req[p].op = "password" /\ req[p].pc = "updating" /\ req[p].right
    /\ StoreThenCommit(p)

CommitAuthentication(p) ==
    LET r == req[p]
    IN  /\ r.op = "password" /\ r.pc = "stored"
        /\ password' = [password EXCEPT ![r.c] = Unlocked(r.at)]
        /\ req' = [req EXCEPT ![p] = Idle]
        /\ UNCHANGED <<now, txn, identity, grant, history>>

---------------------------------------------------------------------------
(* SkipMFAEnrollment *)

BeginSkip(p, t) ==
    /\ CanSkipMFA(txn[t], now)
    /\ Begin(p, "skip", t, txn[t].identity, SkipMFA(txn[t]))

(* Mistake: the query does not ask whose grant it is.                      *)
SomeGrantCovers(c, requested) == \E d \in Contacts : requested \subseteq grant[d].scopes

(* The facts: does the remembered grant cover what was requested? *)
GrantCovers(c, requested) == requested \subseteq grant[c].scopes

(* ResolveNextStep: where the consent is implied, it is given at once. *)
ReadFacts(p) ==
    LET r      == req[p]
        source == IF ConsentMode = "trusted" THEN "trusted_client" ELSE "remembered_grant"
    IN  /\ r.op = "skip" /\ r.pc = "read"
        /\ IF ConsentMode = "trusted"
              \/ (ConsentMode = "remember" /\ GrantCovers(r.c, r.seen.requested))
           THEN req' = [req EXCEPT ![p].pc = "informed",
                            ![p].write = AuthorizeScopes(@, r.seen.requested, source)]
           ELSE Step(p, "informed")
        /\ UNCHANGED <<now, txn, rows, history>>

StoreSkip(p) ==
    /\ req[p].op = "skip" /\ req[p].pc = "informed"
    /\ StoreAndEnd(p, req[p].write)

---------------------------------------------------------------------------
(* GrantConsent, DenyConsent *)

BeginGrant(p, t, op) ==
    \E scopes \in SUBSET txn[t].requested :
        /\ op \in {"grant", "remember"}
        /\ CanAuthorize(txn[t], scopes, now)
        /\ Begin(p, op, t, txn[t].identity, AuthorizeScopes(txn[t], scopes, "user_consent"))

(* rememberConsent reads the grant: one that is there is replaced, unless  *)
(* it is newer than the request.                                           *)
LoadGrant(p) ==
    LET r == req[p]
    IN  /\ r.op = "remember" /\ r.pc = "read"
        /\ \/ grant[r.c] = NoGrant /\ Step(p, "inserting")
           \/ grant[r.c] # NoGrant /\ grant[r.c].updated <= r.at /\ Step(p, "updating")
        /\ consented' = [consented EXCEPT ![r.c] = @ \cup r.write.granted]
        /\ UNCHANGED <<now, txn, rows, codes, late, lost, home>>

(* One grant for an identity and a client: a second insert fails. *)
StoreRemembered(p) ==
    LET r == req[p]
    IN  /\ r.op = "remember" /\ r.pc \in {"inserting", "updating"}
        /\ r.pc = "inserting" => grant[r.c] = NoGrant
        /\ StoreThenCommit(p)

StoreAnswer(p) ==
    /\ req[p].op \in {"grant", "deny"} /\ req[p].pc = "read"
    /\ StoreAndEnd(p, req[p].write)

CommitGrant(p) ==
    LET r == req[p]
    IN  /\ r.op = "remember" /\ r.pc = "stored"
        /\ grant' = [grant EXCEPT ![r.c] = [scopes |-> r.write.granted, updated |-> r.at]]
        /\ req' = [req EXCEPT ![p] = Idle]
        /\ UNCHANGED <<now, txn, identity, password, history>>

BeginDeny(p, t) ==
    /\ CanDeny(txn[t], now)
    /\ Begin(p, "deny", t, None, Finish(txn[t], "denied"))

---------------------------------------------------------------------------
(* ContinueAuthorization *)

BeginContinue(p, t) ==
    /\ CanComplete(txn[t], now)
    /\ Begin(p, "continue", t, None, Finish(txn[t], "completed"))

(* The code is in Redis before the transaction is. *)
StoreCode(p) ==
    LET r == req[p]
    IN  /\ r.op = "continue" /\ r.pc = "read"
        /\ codes' = IF late[r.t] \/ lost[r.t] THEN codes ELSE [codes EXCEPT ![r.t] = @ + 1]
        /\ Step(p, "minted")
        /\ UNCHANGED <<now, txn, rows, late, lost, home, consented>>

StoreCompleted(p) ==
    /\ req[p].op = "continue" /\ req[p].pc = "minted"
    /\ StoreAndEnd(p, req[p].write)

---------------------------------------------------------------------------

Tick ==
    /\ now < MaxTime
    /\ now' = now + 1
    /\ UNCHANGED <<txn, rows, req, history>>

Begins(p) ==
    \E t \in Txns :
        \/ \E c \in Contacts : BeginRegister(p, t, c) \/ BeginPassword(p, t, c)
        \/ BeginVerify(p, t)
        \/ BeginSkip(p, t)
        \/ \E op \in {"grant", "remember"} : BeginGrant(p, t, op)
        \/ BeginDeny(p, t)
        \/ BeginContinue(p, t)

Proceeds(p) ==
    \/ StoreRegistration(p) \/ CommitRegistration(p)
    \/ StoreVerification(p) \/ CommitVerification(p)
    \/ ReadPassword(p) \/ CommitFailedAttempt(p)
    \/ StoreAuthentication(p) \/ CommitAuthentication(p)
    \/ ReadFacts(p) \/ StoreSkip(p)
    \/ LoadGrant(p) \/ StoreRemembered(p) \/ CommitGrant(p)
    \/ StoreAnswer(p)
    \/ StoreCode(p) \/ StoreCompleted(p)
    \/ Fail(p)

Next ==
    \/ \E t \in Txns : StartAuthorization(t)
    \/ \E p \in Requests : Begins(p) \/ Proceeds(p)
    \/ Tick

Spec == Init /\ [][Next]_vars

---------------------------------------------------------------------------

TypeOK ==
    /\ now \in Nat
    /\ txn \in [Txns -> Txn]
    /\ identity \in [Contacts -> {"absent", "pending", "active"}]
    /\ password \in [Contacts -> AuthState]
    /\ grant \in [Contacts -> Grant]
    /\ req \in [Requests -> Request]
    /\ late \in [Txns -> BOOLEAN]
    /\ lost \in [Txns -> BOOLEAN]
    /\ codes \in [Txns -> Nat]
    /\ home \in [Contacts -> Txns \cup {None}]
    /\ consented \in [Contacts -> SUBSET Scopes]

(* Requests for t that have stored a code and not yet the transaction. *)
Minting(t) == {p \in Requests : req[p].pc = "minted" /\ req[p].t = t}

(* A transaction gives one code, as long as no request overwrites a record *)
(* it has not seen and none fails between the code and the record          *)
(* (continue_authorization.go:35, 67, 73).                                 *)
CodesAccountedFor ==
    \A t \in Txns :
        ~late[t] /\ ~lost[t] =>
            codes[t] <= Cardinality(Minting(t)) + (IF txn[t].stage = "completed" THEN 1 ELSE 0)

Rank(stage) ==
    CASE stage = "absent"               -> 0
      [] stage = "choose"               -> 1
      [] stage = "verification"         -> 2
      [] stage = "mfa_enrollment"       -> 3
      [] stage = "consent"              -> 4
      [] stage = "ready"                -> 5
      [] stage \in {"completed", "denied"} -> 6

(* One record follows from another by a step of the flow. *)
Advances(x, y) ==
    /\ Rank(x.stage) < Rank(y.stage)
    /\ x.identity # None => y.identity = x.identity
    /\ x.stage # "absent" => y.requested = x.requested

(* A step that was reached stays reached, its identity stays the same, and *)
(* what is finished stays finished, but for a request that overwrites a    *)
(* record it has not seen (repository/authorizationtransaction/update.go). *)
StepsNeverRegress ==
    [][\A t \in Txns :
          txn'[t] # txn[t] =>
             \/ Advances(txn[t], txn'[t])
             \/ \E p \in Requests :
                    req[p].t = t /\ req[p].seen # txn[t] /\ req'[p] # req[p]]_vars

(* Behind a transaction that is past authentication there is an active     *)
(* identity.  VerifyEmail writes Redis before it commits, so the record is *)
(* ahead for a moment, and for good when that commit fails                 *)
(* (verify_email.go:76-87).                                                *)
AuthenticatedIdentityIsActive ==
    \A t \in Txns :
        txn[t].stage \in {"mfa_enrollment", "consent", "ready", "completed"} =>
            \/ identity[txn[t].identity] = "active"
            \/ \E p \in Requests : req[p].op = "verify" /\ req[p].pc = "stored" /\ req[p].t = t
            \/ lost[t]

(* c was registered in t: it waits for its verification, or its rows wait  *)
(* for their commit.                                                       *)
Registered(t, c) ==
    \/ identity[c] = "pending" /\ home[c] = t
    \/ \E p \in Requests : /\ req[p].op = "register" /\ req[p].pc = "stored"
                           /\ req[p].t = t /\ req[p].c = c

(* t asks for the verification of c, or has had it a moment ago. *)
Verifiable(t, c) ==
    \/ txn[t].identity = c /\ txn[t].stage = "verification"
    \/ \E p \in Requests : /\ req[p].op = "verify" /\ req[p].pc = "stored"
                           /\ req[p].t = t /\ req[p].c = c

(* What takes a contact its verification: the user denies the transaction, *)
(* the verification is in Redis and does not commit, or p overwrites a     *)
(* record it has not seen.                                                 *)
CutsOff(p, t) ==
    /\ req[p].t = t
    /\ req'[p] # req[p]
    /\ \/ req[p].op = "verify" /\ req[p].pc = "stored"
       \/ txn'[t] # txn[t] /\ (req[p].op = "deny" \/ req[p].seen # txn[t])

(* A contact is registered once, and nothing but the transaction it was    *)
(* registered in leads to its verification.  As long as that transaction   *)
(* lives it does, from the record in Redis to the commit and on, unless    *)
(* one of the three causes of CutsOff takes it away: no password and no    *)
(* other step does (register_identity.go:98-139,                           *)
(* authenticate_with_password.go:129-139, deny_consent.go:39).             *)
VerificationLostByCause ==
    [][\A t \in Txns, c \in Contacts :
          Registered(t, c)' /\ ~Verifiable(t, c)' =>
             \/ Registered(t, c) /\ ~Verifiable(t, c)
             \/ \E p \in Requests : CutsOff(p, t)]_vars

(* A lock holds until it ends: an attempt that takes it away had read      *)
(* another row, before the lock, and neither an attempt that begins under  *)
(* the lock nor one that read the locked row does                          *)
(* (authenticate_with_password.go:71-81, 136).                             *)
LockSurvivesLaterAttempts ==
    [][\A c \in Contacts :
          password'[c] # password[c] /\ now < password[c].lockedUntil =>
             \E p \in Requests :
                 /\ req'[p] # req[p]
                 /\ req[p].op = "password" /\ req[p].c = c
                 /\ req[p].pc \in {"updating", "stored"}
                 /\ req[p].row # password[c]]_vars

(* A remembered grant is taken for the answer only where this identity     *)
(* agreed, at some time, to have these scopes remembered, never where      *)
(* another did.  A grant that was replaced by a narrower one after it was  *)
(* read still counts, and a trusted client does not ask                    *)
(* (authenticationflow/get.go:78-97, skip_mfa_enrollment.go:41-56).        *)
AutomaticConsentWasGiven ==
    \A t \in Txns :
        txn[t].source = "remembered_grant" =>
            txn[t].granted \subseteq consented[txn[t].identity]
==============================================================================
