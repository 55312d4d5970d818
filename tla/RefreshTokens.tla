--------------------------- MODULE RefreshTokens ---------------------------
(***************************************************************************)
(* The token endpoint of the identity service, seen through one            *)
(* authorization code, the session it opens and the family of refresh      *)
(* tokens that session owns: ExchangeAuthorizationCode, RefreshAccessToken *)
(* and RevokeToken of services/identity/internal/usecase/oauth.            *)
(*                                                                         *)
(* Requests run concurrently, each in one READ COMMITTED transaction.  A   *)
(* request reads rows into domain objects (famCopy, tokCopy, sesCopy),     *)
(* decides on the copies and writes whole rows back when it commits.  Two  *)
(* row locks matter: SELECT ... FOR UPDATE on the family row, and the      *)
(* UPDATE of the client row with which a confidential client records the   *)
(* use of its secret.  Both are held until commit or rollback.  The        *)
(* session row is read WITHOUT a lock.  The Redis code is outside the      *)
(* transaction: consuming it is never rolled back.                         *)
(*                                                                         *)
(* A commit is one step: the row locks taken by its UPDATEs order          *)
(* conflicting commits, and READ COMMITTED hides everything before it.     *)
(***************************************************************************)
EXTENDS Integers, FiniteSets

CONSTANTS
  Procs,            \* requests in flight at once (of any service replica)
  Tokens,           \* refresh token identifiers: bounds the rotations
  MaxTime,          \* bound on the clock
  IdleLifetime,     \* cfg.SessionIdleLifetime
  SessionLifetime,  \* cfg.SessionLifetime
  FamilyLifetime,   \* cfg.RefreshFamilyLifetime
  TokenLifetime,    \* cfg.RefreshTokenLifetime
  Confidential,     \* the client authenticates with a secret
  None              \* no process, no token

ASSUME ClockAssumption == MaxTime \in Nat
ASSUME LifetimeAssumption ==
  /\ IdleLifetime \in Nat \ {0}
  /\ SessionLifetime \in Nat \ {0}
  /\ FamilyLifetime \in Nat \ {0}
  /\ TokenLifetime \in Nat \ {0}
  /\ IdleLifetime <= SessionLifetime
ASSUME ClientAssumption == Confidential \in BOOLEAN
ASSUME NoneAssumption == None \notin Procs /\ None \notin Tokens

VARIABLES
  clock,      \* s.clock.Now()
  code,       \* the authorization code in Redis
  session,    \* the row of public.sessions
  family,     \* the row of public.refresh_token_families
  tokens,     \* the rows of public.refresh_tokens
  outbox,     \* how many events of each type were committed to the outbox
  famLock,    \* who holds the family row FOR UPDATE
  clientLock, \* who holds the oauth_clients row
  pc, op, presented, now,     \* per request: step, handler, token, its time
  famCopy, tokCopy, sesCopy   \* per request: the rows it has read

rows   == << session, family, tokens, outbox >>
locks  == << famLock, clientLock >>
copies == << famCopy, tokCopy, sesCopy >>
locals == << pc, op, presented, now, copies >>
vars   == << clock, code, rows, locks, locals >>

NoTime == -1                    \* SQL NULL
Time   == 0 .. MaxTime
MaybeTime == Time \cup {NoTime}
Deadline  == Int

Operations == {"exchange", "refresh", "revokeRefresh", "revokeAccess"}
Steps == {"idle", "authenticate", "consume", "create", "lockFamily",
          "readSession", "rotate", "revokeFamily", "revokeSession"}
EventTypes == {"session_created", "family_created", "token_rotated",
               "reuse_detected", "family_revoked", "session_revoked"}

Session == [createdAt : MaybeTime, lastSeenAt : MaybeTime,
            idleExpiresAt : Deadline, absoluteExpiresAt : Deadline,
            revokedAt : MaybeTime]
Family  == [createdAt : MaybeTime, absoluteExpiresAt : Deadline,
            lastRotatedAt : MaybeTime, reuseDetectedAt : MaybeTime,
            revokedAt : MaybeTime]
Token   == [parent : Tokens \cup {None}, issuedAt : MaybeTime,
            expiresAt : Deadline, rotatedAt : MaybeTime,
            revokedAt : MaybeTime, reuseDetectedAt : MaybeTime]

\* Absent rows: their creation time is NULL.
NoSession == [createdAt |-> NoTime, lastSeenAt |-> NoTime, idleExpiresAt |-> NoTime,
              absoluteExpiresAt |-> NoTime, revokedAt |-> NoTime]
NoFamily  == [createdAt |-> NoTime, absoluteExpiresAt |-> NoTime,
              lastRotatedAt |-> NoTime, reuseDetectedAt |-> NoTime, revokedAt |-> NoTime]
NoToken   == [parent |-> None, issuedAt |-> NoTime, expiresAt |-> NoTime,
              rotatedAt |-> NoTime, revokedAt |-> NoTime, reuseDetectedAt |-> NoTime]
NoTokens  == [t \in Tokens |-> NoToken]

Exists(row)   == row.createdAt # NoTime
Issued(table) == {t \in Tokens : table[t].issuedAt # NoTime}

Later(a, b) == IF b > a THEN b ELSE a
MinimumTime(a, b) == IF b < a THEN b ELSE a

----------------------------------------------------------------------------
(* The domain objects. *)

SessionChangedAt(s) == Later(s.lastSeenAt, s.revokedAt)

SessionUsable(s, at) ==
  /\ at >= SessionChangedAt(s)
  /\ s.revokedAt = NoTime
  /\ at < s.absoluteExpiresAt
  /\ at < s.idleExpiresAt

NewSession(at) ==
  [createdAt |-> at, lastSeenAt |-> NoTime, idleExpiresAt |-> at + IdleLifetime,
   absoluteExpiresAt |-> at + SessionLifetime, revokedAt |-> NoTime]

\* The idle deadline moves forward only, and never past the absolute one.
RecordActivity(s, at) ==
  [s EXCEPT !.lastSeenAt = at,
            !.idleExpiresAt = Later(@, MinimumTime(at + IdleLifetime, s.absoluteExpiresAt))]

RevokeSession(s, at) == [s EXCEPT !.revokedAt = at]

FamilyChangedAt(f) ==
  Later(Later(f.createdAt, f.lastRotatedAt), Later(f.reuseDetectedAt, f.revokedAt))

\* Mistake: a revoked family is not refused.
RotationAllowedRevoked(f, at) == at >= FamilyChangedAt(f) /\ at < f.absoluteExpiresAt

RotationAllowed(f, at) ==
  /\ at >= FamilyChangedAt(f)
  /\ f.revokedAt = NoTime
  /\ at < f.absoluteExpiresAt

NewFamily(at) ==
  [NoFamily EXCEPT !.createdAt = at, !.absoluteExpiresAt = at + FamilyLifetime]

TokenChangedAt(k) ==
  Later(Later(k.issuedAt, k.rotatedAt), Later(k.revokedAt, k.reuseDetectedAt))

\* Mistake: the token may outlive its family.
NewTokenUncapped(parent, at, deadline) ==
  [parent |-> parent, issuedAt |-> at, expiresAt |-> at + TokenLifetime,
   rotatedAt |-> NoTime, revokedAt |-> NoTime, reuseDetectedAt |-> NoTime]

NewToken(parent, at, deadline) ==
  [parent |-> parent, issuedAt |-> at,
   expiresAt |-> MinimumTime(at + TokenLifetime, deadline),
   rotatedAt |-> NoTime, revokedAt |-> NoTime, reuseDetectedAt |-> NoTime]

\* Revoke leaves a revoked token alone and refuses a time before its last change.
TokenRevocable(k, at) == k.revokedAt # NoTime \/ at >= TokenChangedAt(k)

RevokeToken(k, at) == IF k.revokedAt # NoTime THEN k ELSE [k EXCEPT !.revokedAt = at]

\* family.revoke: every token of the family, or an error that saves nothing.
AllRevocable(table, at) == \A t \in Issued(table) : TokenRevocable(table[t], at)
\* Mistake: rotated tokens are taken for dead already.
RevokeCurrentOnly(table, at) ==
  [t \in Tokens |-> IF t \in Issued(table) /\ table[t].rotatedAt = NoTime
                    THEN RevokeToken(table[t], at) ELSE table[t]]

RevokeAll(table, at) ==
  [t \in Tokens |-> IF t \in Issued(table) THEN RevokeToken(table[t], at) ELSE table[t]]

\* Family.Rotate returns RotationOutcomeReuseDetected.
Reused(f, table, t, at) ==
  /\ RotationAllowed(f, at)
  /\ at >= TokenChangedAt(table[t])
  /\ table[t].rotatedAt # NoTime
  /\ AllRevocable([table EXCEPT ![t].reuseDetectedAt = at], at)

\* Mistake: a rotated token is not refused.
RotatableAgain(f, table, t, at) ==
  /\ RotationAllowed(f, at)
  /\ at >= TokenChangedAt(table[t])
  /\ table[t].revokedAt = NoTime
  /\ at < table[t].expiresAt

\* Family.Rotate returns RotationOutcomeRotated.
Rotatable(f, table, t, at) ==
  /\ RotationAllowed(f, at)
  /\ at >= TokenChangedAt(table[t])
  /\ table[t].rotatedAt = NoTime
  /\ table[t].revokedAt = NoTime
  /\ at < table[t].expiresAt

----------------------------------------------------------------------------
Init ==
  /\ clock = 0
  /\ code = "stored"
  /\ session = NoSession
  /\ family = NoFamily
  /\ tokens = NoTokens
  /\ outbox = [e \in EventTypes |-> 0]
  /\ famLock = None
  /\ clientLock = None
  /\ pc = [p \in Procs |-> "idle"]
  /\ op = [p \in Procs |-> "exchange"]
  /\ presented = [p \in Procs |-> None]
  /\ now = [p \in Procs |-> 0]
  /\ famCopy = [p \in Procs |-> NoFamily]
  /\ tokCopy = [p \in Procs |-> NoTokens]
  /\ sesCopy = [p \in Procs |-> NoSession]

Goto(p, step) == pc' = [pc EXCEPT ![p] = step]
Emit(types) == outbox' = [e \in EventTypes |-> IF e \in types THEN outbox[e] + 1 ELSE outbox[e]]
\* Mistake: the transaction of an early return is never closed.
ReleaseNothing(lock, p) == lock

Release(lock, p) == IF lock = p THEN None ELSE lock

\* The transaction of p ends, committed or rolled back: its locks are released.
EndTx(p) ==
  /\ Goto(p, "idle")
  /\ famLock' = Release(famLock, p)
  /\ clientLock' = Release(clientLock, p)
  /\ op' = [op EXCEPT ![p] = "exchange"]
  /\ presented' = [presented EXCEPT ![p] = None]
  /\ now' = [now EXCEPT ![p] = 0]
  /\ famCopy' = [famCopy EXCEPT ![p] = NoFamily]
  /\ tokCopy' = [tokCopy EXCEPT ![p] = NoTokens]
  /\ sesCopy' = [sesCopy EXCEPT ![p] = NoSession]

(* A request arrives: the transaction begins and the handler takes its time, *)
(* before any lock.  A client presents a refresh token it was ever given, or *)
(* an access token of the session; both stay presentable for ever.           *)
Begin(p, o, t) ==
  /\ pc[p] = "idle"
  /\ IF o \in {"refresh", "revokeRefresh"} THEN t \in Issued(tokens) ELSE t = None
  /\ o = "revokeAccess" => Exists(session)
  /\ Goto(p, "authenticate")
  /\ op' = [op EXCEPT ![p] = o]
  /\ presented' = [presented EXCEPT ![p] = t]
  /\ now' = [now EXCEPT ![p] = clock]
  /\ UNCHANGED << clock, code, rows, locks, copies >>

FirstStep(o) ==
  CASE o = "exchange"     -> "consume"
    [] o = "revokeAccess" -> "readSession"
    [] OTHER              -> "lockFamily"

(* getAndAuthenticateClient: recording the use of a credential updates the   *)
(* client row, so requests of one confidential client queue here.            *)
AuthenticatePublic(p) ==
  /\ pc[p] = "authenticate"
  /\ ~Confidential
  /\ Goto(p, FirstStep(op[p]))
  /\ UNCHANGED << clock, code, rows, locks, op, presented, now, copies >>

\* Mistake: the use of the secret is recorded without touching the client row.
AuthenticateUnlocked(p) ==
  /\ pc[p] = "authenticate"
  /\ Confidential
  /\ clientLock' = p
  /\ Goto(p, FirstStep(op[p]))
  /\ UNCHANGED << clock, code, rows, famLock, op, presented, now, copies >>

AuthenticateConfidential(p) ==
  /\ pc[p] = "authenticate"
  /\ Confidential
  /\ clientLock = None
  /\ clientLock' = p
  /\ Goto(p, FirstStep(op[p]))
  /\ UNCHANGED << clock, code, rows, famLock, op, presented, now, copies >>

----------------------------------------------------------------------------
(* ExchangeAuthorizationCode *)

\* Mistake: GET instead of GETDEL.
ReadCode(p) ==
  /\ pc[p] = "consume"
  /\ code = "stored"
  /\ Goto(p, "create")
  /\ UNCHANGED << clock, code, rows, locks, op, presented, now, copies >>

\* Redis GETDEL: found once, and not put back by a rollback.
ConsumeCode(p) ==
  /\ pc[p] = "consume"
  /\ code = "stored"
  /\ code' = "gone"
  /\ Goto(p, "create")
  /\ UNCHANGED << clock, rows, locks, op, presented, now, copies >>

CodeNotFound(p) ==
  /\ pc[p] = "consume"
  /\ code = "gone"
  /\ EndTx(p)
  /\ UNCHANGED << clock, code, rows >>

\* ValidateForExchange: wrong redirect URI or PKCE verifier, or expired.
ExchangeRejected(p) ==
  /\ pc[p] = "create"
  /\ EndTx(p)
  /\ UNCHANGED << clock, code, rows >>

CreateSession(p, withFamily, initial) ==
  /\ pc[p] = "create"
  /\ session' = NewSession(now[p])
  /\ IF withFamily
       THEN /\ family' = NewFamily(now[p])
            /\ tokens' = [tokens EXCEPT ![initial] =
                            NewToken(None, now[p], NewFamily(now[p]).absoluteExpiresAt)]
            /\ Emit({"session_created", "family_created"})
       ELSE /\ UNCHANGED << family, tokens >>
            /\ Emit({"session_created"})
  /\ EndTx(p)
  /\ UNCHANGED << clock, code >>

----------------------------------------------------------------------------
(* GetByTokenHashForUpdate, sessions.Get *)

\* Mistake: SELECT without FOR UPDATE.
ReadFamily(p) ==
  /\ pc[p] = "lockFamily"
  /\ famLock' = p
  /\ famCopy' = [famCopy EXCEPT ![p] = family]
  /\ tokCopy' = [tokCopy EXCEPT ![p] = tokens]
  /\ Goto(p, IF op[p] = "refresh" THEN "readSession" ELSE "revokeFamily")
  /\ UNCHANGED << clock, code, rows, clientLock, op, presented, now, sesCopy >>

LockFamily(p) ==
  /\ pc[p] = "lockFamily"
  /\ famLock = None
  /\ famLock' = p
  /\ famCopy' = [famCopy EXCEPT ![p] = family]
  /\ tokCopy' = [tokCopy EXCEPT ![p] = tokens]
  /\ Goto(p, IF op[p] = "refresh" THEN "readSession" ELSE "revokeFamily")
  /\ UNCHANGED << clock, code, rows, clientLock, op, presented, now, sesCopy >>

ReadSession(p) ==
  /\ pc[p] = "readSession"
  /\ sesCopy' = [sesCopy EXCEPT ![p] = session]
  /\ Goto(p, IF op[p] = "refresh" THEN "rotate" ELSE "revokeSession")
  /\ UNCHANGED << clock, code, rows, locks, op, presented, now, famCopy, tokCopy >>

----------------------------------------------------------------------------
(* RefreshAccessToken, from the checks to the commit *)

\* Mistake: ON CONFLICT DO NOTHING for the tokens.
InsertTokens(f, table) ==
  /\ family' = f
  /\ tokens' = [t \in Tokens |-> IF t \in Issued(tokens) THEN tokens[t] ELSE table[t]]

\* Mistake: the family row is not updated.
SaveTokensOnly(f, table) ==
  /\ family' = family
  /\ tokens' = [t \in Tokens |-> IF t \in Issued(table) THEN table[t] ELSE tokens[t]]

\* Update writes the family row and upserts every token of the copy.
SaveFamily(f, table) ==
  /\ family' = f
  /\ tokens' = [t \in Tokens |-> IF t \in Issued(table) THEN table[t] ELSE tokens[t]]

RefreshRejected(p) ==
  /\ pc[p] = "rotate"
  /\ \/ ~SessionUsable(sesCopy[p], now[p])
     \/ /\ ~Reused(famCopy[p], tokCopy[p], presented[p], now[p])
        /\ ~Rotatable(famCopy[p], tokCopy[p], presented[p], now[p])
  /\ EndTx(p)
  /\ UNCHANGED << clock, code, rows >>

\* The reuse is committed although the client gets invalid_grant.
DetectReuse(p) ==
  /\ pc[p] = "rotate"
  /\ SessionUsable(sesCopy[p], now[p])
  /\ Reused(famCopy[p], tokCopy[p], presented[p], now[p])
  /\ SaveFamily([famCopy[p] EXCEPT !.reuseDetectedAt = now[p], !.revokedAt = now[p]],
                RevokeAll([tokCopy[p] EXCEPT ![presented[p]].reuseDetectedAt = now[p]], now[p]))
  /\ session' = RevokeSession(sesCopy[p], now[p])
  /\ Emit({"reuse_detected", "session_revoked"})
  /\ EndTx(p)
  /\ UNCHANGED << clock, code >>

RotateToken(p, next) ==
  /\ pc[p] = "rotate"
  /\ SessionUsable(sesCopy[p], now[p])
  /\ Rotatable(famCopy[p], tokCopy[p], presented[p], now[p])
  /\ next \notin Issued(tokens)
  /\ SaveFamily([famCopy[p] EXCEPT !.lastRotatedAt = now[p]],
                [tokCopy[p] EXCEPT ![presented[p]].rotatedAt = now[p],
                                   ![next] = NewToken(presented[p], now[p],
                                                      famCopy[p].absoluteExpiresAt)])
  /\ session' = RecordActivity(sesCopy[p], now[p])
  /\ Emit({"token_rotated"})
  /\ EndTx(p)
  /\ UNCHANGED << clock, code >>

\* The bound of the model: no identifier is left for the next token.
TokensExhausted(p) ==
  /\ pc[p] = "rotate"
  /\ Issued(tokens) = Tokens
  /\ Rotatable(famCopy[p], tokCopy[p], presented[p], now[p])
  /\ EndTx(p)
  /\ UNCHANGED << clock, code, rows >>

----------------------------------------------------------------------------
(* RevokeToken *)

\* Mistake: the early return for a revoked family is missing.
CanRevokeTwice(p) ==
  now[p] >= FamilyChangedAt(famCopy[p]) /\ AllRevocable(tokCopy[p], now[p])

CanRevokeFamily(p) ==
  /\ famCopy[p].revokedAt = NoTime
  /\ now[p] >= FamilyChangedAt(famCopy[p])
  /\ AllRevocable(tokCopy[p], now[p])

\* Already revoked (success, nothing saved), or a time before the last change (error).
RevokeRefreshUnchanged(p) ==
  /\ pc[p] = "revokeFamily"
  /\ ~CanRevokeFamily(p)
  /\ EndTx(p)
  /\ UNCHANGED << clock, code, rows >>

\* The family and its tokens; the session keeps its revoked_at.
RevokeRefresh(p) ==
  /\ pc[p] = "revokeFamily"
  /\ CanRevokeFamily(p)
  /\ SaveFamily([famCopy[p] EXCEPT !.revokedAt = now[p]], RevokeAll(tokCopy[p], now[p]))
  /\ Emit({"family_revoked"})
  /\ EndTx(p)
  /\ UNCHANGED << clock, code, session >>

CanRevokeSession(p) ==
  /\ sesCopy[p].revokedAt = NoTime
  /\ now[p] >= SessionChangedAt(sesCopy[p])

RevokeAccessUnchanged(p) ==
  /\ pc[p] = "revokeSession"
  /\ ~CanRevokeSession(p)
  /\ EndTx(p)
  /\ UNCHANGED << clock, code, rows >>

\* The whole session row is written back; the family is left alone.
RevokeAccess(p) ==
  /\ pc[p] = "revokeSession"
  /\ CanRevokeSession(p)
  /\ session' = RevokeSession(sesCopy[p], now[p])
  /\ Emit({"session_revoked"})
  /\ EndTx(p)
  /\ UNCHANGED << clock, code, family, tokens >>

----------------------------------------------------------------------------
(* Any error, cancelled context or crash before the commit. *)
Rollback(p) ==
  /\ pc[p] # "idle"
  /\ EndTx(p)
  /\ UNCHANGED << clock, code, rows >>

\* The TTL of the code in Redis.
CodeExpires ==
  /\ code = "stored"
  /\ code' = "gone"
  /\ UNCHANGED << clock, rows, locks, locals >>

Tick ==
  /\ clock < MaxTime
  /\ clock' = clock + 1
  /\ UNCHANGED << code, rows, locks, locals >>

\* The steps of p that need no lock of another request.
Proceed(p) ==
  \/ AuthenticatePublic(p)
  \/ ConsumeCode(p)
  \/ CodeNotFound(p)
  \/ ExchangeRejected(p)
  \/ \E withFamily \in BOOLEAN, initial \in Tokens : CreateSession(p, withFamily, initial)
  \/ ReadSession(p)
  \/ RefreshRejected(p)
  \/ DetectReuse(p)
  \/ \E next \in Tokens : RotateToken(p, next)
  \/ TokensExhausted(p)
  \/ RevokeRefreshUnchanged(p)
  \/ RevokeRefresh(p)
  \/ RevokeAccessUnchanged(p)
  \/ RevokeAccess(p)

Next ==
  \/ \E p \in Procs, o \in Operations, t \in Tokens \cup {None} : Begin(p, o, t)
  \/ \E p \in Procs : \/ AuthenticateConfidential(p)
                      \/ LockFamily(p)
                      \/ Proceed(p)
                      \/ Rollback(p)
  \/ CodeExpires
  \/ Tick

Spec == Init /\ [][Next]_vars

(* A handler that has begun runs on, and PostgreSQL grants a row lock to its *)
(* waiters in turn.  Nothing is assumed of Begin, Rollback, Tick, CodeExpires. *)
Fairness ==
  \A p \in Procs : /\ WF_vars(Proceed(p))
                   /\ SF_vars(AuthenticateConfidential(p))
                   /\ SF_vars(LockFamily(p))

FairSpec == Spec /\ Fairness

----------------------------------------------------------------------------
(* Type correctness: every row, copy and local has the type of its column or *)
(* field (services/identity/db/migrations, domain/session, domain/           *)
(* refreshtokenfamily).                                                      *)
TypeOK ==
  /\ clock \in Time
  /\ code \in {"stored", "gone"}
  /\ session \in Session
  /\ family \in Family
  /\ tokens \in [Tokens -> Token]
  /\ outbox \in [EventTypes -> Nat]
  /\ famLock \in Procs \cup {None}
  /\ clientLock \in Procs \cup {None}
  /\ pc \in [Procs -> Steps]
  /\ op \in [Procs -> Operations]
  /\ presented \in [Procs -> Tokens \cup {None}]
  /\ now \in [Procs -> Time]
  /\ famCopy \in [Procs -> Family]
  /\ tokCopy \in [Procs -> [Tokens -> Token]]
  /\ sesCopy \in [Procs -> Session]

(* SELECT ... FOR UPDATE is enough for the family: the request that holds the *)
(* row is exactly the one between GetByTokenHashForUpdate and its commit, and *)
(* what it read is still what the tables hold, so a whole-row Update of the   *)
(* family loses nothing.                                                      *)
HoldsFamily(p) ==
  \/ pc[p] \in {"rotate", "revokeFamily"}
  \/ pc[p] = "readSession" /\ op[p] = "refresh"

HolderIsCurrent(p) ==
  /\ famLock = p <=> HoldsFamily(p)
  /\ HoldsFamily(p) => famCopy[p] = family /\ tokCopy[p] = tokens

LockedFamilyIsCurrent == \A p \in Procs : HolderIsCurrent(p)

(* However requests interleave, at most one token of the family is neither   *)
(* rotated nor revoked, so the unique index refresh_tokens_current_family_   *)
(* uidx, and the one on parent_token_id, never refuse a write of             *)
(* refreshtokenfamily Update.                                                *)
SingleCurrentToken ==
  \A s, t \in Issued(tokens) :
    s # t => /\ tokens[s].rotatedAt # NoTime \/ tokens[t].rotatedAt # NoTime
             /\ tokens[s].parent # tokens[t].parent

(* The tokens form one chain: a token is rotated exactly when a child was    *)
(* issued from it, at that very time, and only the first has no parent       *)
(* (Family.Rotate marks the old token and appends the new one together).     *)
RotationChain ==
  /\ \A t \in Issued(tokens) :
       tokens[t].parent # None =>
         /\ tokens[t].parent \in Issued(tokens) \ {t}
         /\ tokens[tokens[t].parent].rotatedAt = tokens[t].issuedAt
  /\ \A t \in Issued(tokens) :
       tokens[t].rotatedAt # NoTime => \E c \in Issued(tokens) : tokens[c].parent = t

(* After reuse detection nothing of the grant stays usable: the family, every *)
(* token it ever issued and the session are revoked, and no request in        *)
(* flight undoes it (refresh_access_token.go, the reuse branch).              *)
ReuseRevokesAll ==
  family.reuseDetectedAt # NoTime =>
    /\ family.revokedAt # NoTime
    /\ \A t \in Issued(tokens) : tokens[t].revokedAt # NoTime
    /\ session.revokedAt # NoTime

(* family.revoke never stops half-way: no token carries a time later than the *)
(* last change of its family, so the check of the family's time covers the    *)
(* check each token makes (family.go Revoke, token.go Revoke).                *)
TokenTimesWithinFamily ==
  \A t \in Issued(tokens) : TokenChangedAt(tokens[t]) <= FamilyChangedAt(family)

(* No chain of refreshes outlives its limits: a token is issued before the    *)
(* family and the session end, expires no later than the family, and comes    *)
(* less than the idle lifetime after the token it replaces, however the       *)
(* session row was overwritten in between.                                    *)
TokensWithinLifetimes ==
  \A t \in Issued(tokens) :
    /\ tokens[t].issuedAt < family.absoluteExpiresAt
    /\ tokens[t].issuedAt < session.absoluteExpiresAt
    /\ tokens[t].expiresAt <= family.absoluteExpiresAt
    /\ tokens[t].parent # None =>
         /\ tokens[t].issuedAt < tokens[tokens[t].parent].expiresAt
         /\ tokens[t].issuedAt < tokens[tokens[t].parent].issuedAt + IdleLifetime

(* One authorization code opens at most one session, with its family, and only *)
(* after Redis let go of the code, for any number of concurrent exchanges and  *)
(* rollbacks (exchange_authorization_code.go, Consume before the commit).      *)
CodeOpensOneSession ==
  /\ outbox["session_created"] = IF Exists(session) THEN 1 ELSE 0
  /\ outbox["family_created"] = IF Exists(family) THEN 1 ELSE 0
  /\ Exists(session) => code = "gone"
  /\ Exists(family) => family.createdAt = session.createdAt
  /\ Issued(tokens) # {} <=> Exists(family)

(* What consumers learn from the outbox is what the tables say: one event per  *)
(* rotation, exactly one event for the end of the family, and an event for     *)
(* every session found revoked.                                                *)
EventsMatchRows ==
  /\ outbox["token_rotated"] = Cardinality({t \in Issued(tokens) : tokens[t].rotatedAt # NoTime})
  /\ outbox["reuse_detected"] + outbox["family_revoked"] =
       IF family.revokedAt = NoTime THEN 0 ELSE 1
  /\ outbox["reuse_detected"] = 1 <=> family.reuseDetectedAt # NoTime
  /\ session.revokedAt # NoTime => outbox["session_revoked"] > 0

(* Once revoked, a family and its tokens never change again, whatever requests *)
(* had read them before: no refresh that was in flight rotates a revoked one.  *)
RevokedFamilyIsFinal ==
  [][family.revokedAt # NoTime => UNCHANGED << family, tokens >>]_vars

FamilyStatus ==
  IF ~Exists(family) THEN "none"
  ELSE IF family.revokedAt = NoTime THEN "live"
  ELSE IF family.reuseDetectedAt = NoTime THEN "revoked" ELSE "reused"

Rotated(table) == {t \in Issued(table) : table[t].rotatedAt # NoTime}
Unspent(table) ==
  {t \in Issued(table) : table[t].rotatedAt = NoTime /\ table[t].revokedAt = NoTime}

Grant == INSTANCE TokenFamily
           WITH usable <- Unspent(tokens), spent <- Rotated(tokens), status <- FamilyStatus

(* However requests interleave, roll back and overtake each other, the family  *)
(* behaves as if each rotation, each detected reuse and each revocation        *)
(* happened at once (family.go Rotate and Revoke under the FOR UPDATE lock):   *)
(* a token is used once, reuse is found only where a token was replaced, and   *)
(* no token outlives the family.                                               *)
FamilyIsAtomic == Grant!Spec

(* A session that was revoked stays revoked and is revoked once (one event),   *)
(* and the whole-row Update never moves its activity back.                     *)
SessionNeverRegresses ==
  [][Exists(session) =>
       /\ session.revokedAt # NoTime =>
            UNCHANGED << session, outbox["session_revoked"] >>
       /\ session'.lastSeenAt >= session.lastSeenAt
       /\ session'.idleExpiresAt >= session.idleExpiresAt]_vars

(* "Marks the token and the session as revoked ... the operation is            *)
(* idempotent": a revoked session does not come back.                          *)
RevokedSessionStaysRevoked ==
  [][session.revokedAt # NoTime => session'.revokedAt # NoTime]_vars

(* Every request ends: no lock is kept by a finished transaction and the two    *)
(* row locks are always taken in one order.                                     *)
RequestsFinish ==
  \A p \in Procs : pc[p] # "idle" ~> pc[p] = "idle"
============================================================================
