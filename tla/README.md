# Careeria: a verification project

TLA+ models of the parts of this repository whose correctness depends on the order in
which things happen, the TLC instances that check them, and TLAPS proofs of what matters most.

## 1. The system

Careeria is a Go monorepo: shared libraries (`packages/go`), three services
(`services/identity`, `services/hiring`, `services/api-gateway`), protobuf contracts and
architecture documents. Identity is the largest service, with a complete stack down to
PostgreSQL, Redis and Kafka. Hiring has its domain and use cases, but its repositories are
still ports. The gateway verifies access tokens and forwards calls.

| component | state | operations | what is hard | what makes it correct |
|---|---|---|---|---|
| **Token endpoint** (identity, `usecase/oauth`) | rows of `sessions`, `refresh_token_families`, `refresh_tokens`; the code in Redis; row locks | exchange of a code, refresh (rotation, reuse detection), revocation of either kind of token | rows are read, changed in memory and written back whole; the family row is locked, the session row is not; the request takes its time before it waits for a lock; Redis is not part of the transaction | one current token, one chain of tokens; reuse revokes everything; limits on lifetimes; a code opens one session; events match rows |
| **Authorization flow** (identity, `usecase/oauth`, `usecase/authentication`) | the authorization transaction in Redis, identities, passwords, challenges, grants | start, password, registration, contact verification, MFA enrolment, consent, continue | Redis without compare-and-set under concurrent requests; Redis written inside an SQL transaction | steps in order, one code per transaction, an active identity behind every authenticated transaction, locks that hold, consent that was given |
| **Outbox** (`packages/go/outbox`, `repository/outbox`, `packages/go/kafka` producer) | rows of `outbox_messages`, the batch of each worker, records still in the producer | insert with the business change, claim, publish, mark, retry, drain | several replicas, timeouts with the record handed over, SIGTERM and crashes between claim and mark | published means delivered, exclusive claims, bounded copies, every event in the end |
| **Consumer and inbox** (`packages/go/kafka` consumer, `packages/go/inbox`) | partition assignment, committed offset, position of a session, inbox rows | receive, insert, handle, commit, mark | redelivery after failures, rebalances and crashes; two members with one message | no event skipped, no effect repeated |
| **Hiring** (`services/hiring`) | applications, interviews, offers with versions; LiveKit rooms | 4 kinds of application command, 6 offer commands, 4 interview commands | commands read several aggregates outside the transaction that writes; rooms are outside it altogether | legal transitions of what is stored, one accepted offer, closed offers and interviews stay closed |
| **JWKS cache** (gateway, `authn/jwks.go`) | keys, expiry, cooldown, generation | resolve, refresh | shared refresh, callers that give up, failed loads | a withdrawn key stops being accepted, a new one becomes known, an outage is forgotten once a set was loaded |
| **Signing keys, clients** (identity admin) | keys with status, clients | create (which activates), list; clients: create | the gateway's copy is older than the rows | what the gateway accepts follows the rows within known times |
| **Process lifecycle** (`runtime`, `shutdown`, `closer`) | running components, one deadline | start, wait, drain in reverse order | slow component, one deadline for all, shared resources closed at the end | nothing closed in use, a broken replica ends, what it leaves behind has a cause |
| **Middleware** (`http`, `grpc`, `kafka`, `retry`) | idempotency records; otherwise request-local | | the idempotency store has no implementation | one effect per key |

How they interact: a use case changes its rows and inserts its event in one SQL transaction
(`txmanager.Do`); the outbox worker of each replica moves events to Kafka; consumers run their
handler and the inbox row in one transaction and mark the record afterwards. `app.Run` starts
every component with a context that SIGTERM cancels, waits for the first one to exit, then
shuts all of them down in reverse order under one deadline. The gateway answers from its own copy
of the key set of the identity service.

Not modelled, because it is pure input and output, start-up code or generated: configuration,
logging, metrics, tracing, migrations, identifiers, clocks, transport mapping, contracts.
`PROJECT.json` lists every component, and under `hazards` each place where the code is hard to
test, with the property that covers it or the reason why none does yet.

## 2. The modules

### RefreshTokens (token endpoint)

One authorization code, the session it opens and the family of refresh tokens that session owns.
Families do not share rows, so one family shows every conflict; the client row is the one
thing sessions share, and `Confidential` says whether requests lock it.

| code | model |
|---|---|
| rows of the three tables, NULL | `session`, `family`, `tokens`; `NoTime`; an absent row is `NoSession`, `NoFamily`, `NoToken` |
| the domain object a request has read | `famCopy[p]`, `tokCopy[p]`, `sesCopy[p]` |
| `now := s.clock.Now()` at the start of the transaction | `now[p]`, set by `Begin`, while `clock` goes on |
| `SELECT ... FOR UPDATE` on the family | `LockFamily`, waits for `famLock` and copies the rows |
| UPDATE of the client row when a secret was used | `AuthenticateConfidential`, waits for `clientLock` |
| `sessions.Get`, no lock | `ReadSession` |
| `Consume` (GETDEL) in Redis | `ConsumeCode`; a rollback does not undo it |
| domain decisions (`ValidateForUse`, `Rotate`, `Revoke`...) | `SessionUsable`, `Reused`, `Rotatable`, `CanRevokeFamily`, `CanRevokeSession`, on the copies |
| the writes, events and COMMIT | one step: `CreateSession`, `RotateToken`, `DetectReuse`, `RevokeRefresh`, `RevokeAccess` |
| any error, cancelled context or crash before COMMIT | `Rollback`, at every step |

A commit is one step because the statements of a transaction become visible together, and the
row locks its UPDATEs take order conflicting commits. Times are small numbers and lifetimes
constants; a comparison in the code is the same comparison here, so equal times, which the
code's `Before`/`After` treat with care, do occur. The audit log (`security_events`) is written
and never read by these handlers; it is left out, and so are JWT contents.

`TokenFamily` is what all this is for: a family without requests, locks, times or rows, in which a token is issued, replaced, or
the family ends, each at once. `RefreshTokens` implements it (`FamilyIsAtomic`, through `Grant`): `usable` is what the stored rows would
accept (`Unspent(tokens)`), `spent` what they have rotated (`Rotated(tokens)`), and the status comes from the family row (`FamilyStatus`).

### AuthorizationTransaction, PasswordLockout, AuthorizationFlow (authorization flow)

`AuthorizationTransaction` and `PasswordLockout` are the domain objects as pure operators: what each step makes of a
record, and when it refuses. `AuthorizationFlow` runs the handlers over them.

| code | model |
|---|---|
| the record in Redis, its TTL | `txn[t]`, `Live(t)` |
| rows of identities, passwords' auth state, grants | `identity[c]`, `password[c]`, `grant[c]`; a contact stands for its identity |
| a handler in progress, with the record it has read | `req[p]` with `seen`, `write`, `row` |
| SET XX of the record | `Store`: a live key takes any record |
| rows written, record written, COMMIT last | `StoreThenCommit` (rows and record), then `Commit...`; in between `RowFree` makes others wait for the rows |
| handlers without rows (skip, grant, deny, continue) | `StoreAndEnd` |
| any error, refusal or cancelled context | `Fail`, at every step: Redis keeps what it has |

A request takes its time and reads its record in one step: for a single key nothing else can tell the two apart, except the
clock, which the later steps leave running. Rows that nobody sees before the commit are written in one step with the record.
One OAuth client; `ConsentMode` is its mode. `late`, `lost`, `codes`, `home` and `consented` are history: which transactions were
overwritten by a request that had not seen the record, or left behind by one that failed after Redis, how many codes were
minted before that, where a contact was registered, what it agreed to. Verification codes are not modelled, because
`tokenMatches` (`service/contactverification/token.go`) accepts every code; nor is the counter of attempts, which nothing calls.

### SigningKeys, JWKSCache, KeyDistribution (keys)

`SigningKeys` has the rows, with their times; creation is the only use case, and the domain's retirement and revocation are
actions of an operator, as no use case calls them. `JWKSCache` has the fields behind the mutex (`cache`), the one call of the
singleflight group (`flight`) and the callers (`calls`): `Lookup`, `Join`, `GiveUp`, `Decide` (generation and cooldown),
`LoadSucceeds`, `LoadFails`, `Deliver`, `Return` (the second lookup). `KeyDistribution` composes them: `ServeJWKS` is
`GetJSONWebKeySet`, which reads its time first and the rows later.

### OutboxDelivery, EventDelivery, EventPipeline

`OutboxDelivery` has the rows with status and attempts, one worker per replica with the batch it
holds (`todo`, `acked`, `failing`), the topic, and `late`: records that sarama still holds after
`Publish` gave up on them, which may yet reach the topic or be dropped (the fault "late"). `Claim` is the whole
statement (oldest due rows, SKIP LOCKED, status and attempts); the entries of a batch are published
in any order, because `RETURNING` promises none. `Signal` is SIGTERM (the context ends), `Drain`
is `Shutdown` (only `drainCh` is closed), `Crash` loses the worker's memory. `Faults` selects which of
them an instance has.

`EventPipeline` adds a consumer group over one partition: `Assign` and `Revoke` are the group
protocol, `Receive`, `InsertRow`, `AlreadyInserted`, `CommitEffect`, `HandlerFails` and `MarkMessage` are
`ConsumeClaim` around `WithInbox`, `CommitOffset` is sarama's flush of what was marked. `HandlerFails` covers the Timeout
middleware too, which may turn a handler that has committed into a failed one; `Consumer.Shutdown` is a flush and the
end of the process, `CommitOffset` and then `MemberCrash`. No service in
`src` consumes a topic yet, and the inbox table is a port: its unique key (`InsertBlocked`) is
an assumption of the model, the one the inbox package needs.

`EventDelivery` is the promise without the mechanism: committed events, each applied at most once.
`EventPipeline` implements it (`Promise`): an event is "committed" once its row exists, "applied" once
its effect was committed, and "repeated", which the promise does not have, after a second effect.

### ReplicaLifecycle (process lifecycle)

`app.Run` of the identity service around each worker of `OutboxDelivery`, whose steps it takes over: `Work` gives each of them the
condition that what it needs (`postgres`, `producer` in `open[w]`) is not closed, while a statement may fail at any time, on an open pool and
with a live context as well (`worker.go:93-103`, `128-141`, `150-160`). `Sigterm` is `Signal`, `CallShutdown` of the
worker is `Drain`, `Exit` is `Crash` for a worker that still runs, `Replace` is `Restart`.

| code | model |
|---|---|
| main goroutine: `waitForRuntime`, `shutdown.Run`, `closer` | `main[w]`: waiting, loop, called, closing, exited |
| components still to be shut down, in reverse order | `left[w]`, an index into `Components` |
| the shutdown context's deadline | `expired[w]`; `shutdown.Run` calls no further `Shutdown` after it |
| a server's `Serve` or `ListenAndServe` that has returned | `listening[w]` without it |
| requests in progress (GracefulStop waits for them) | `busy[w]`; `Receive`, `Acquire` (the request's transaction takes a connection), `Release` (it commits, with or without an event, or rolls back), `Finish`; a request may hang anywhere |
| producer and pool, closed backwards | `open[w]`, `CloseResource`: a pool that is closing gives out no more connections |
| `pool.Close` returns when it has all connections back | `PoolClosed`, the guard of `Exit`; no deadline applies |

Metrics are enabled, so their server is a component that runs. The other services run the same code with fewer components.

### HiringStages, HiringPipeline, HiringProcess

`HiringStages` has the value types: stages, statuses, and which stage may follow which.

One application, its offers and interviews. A request reads aggregates one at a time outside
any transaction (`LoadOffer`, then `AcceptOffer`; `InitiateOffer`, then `CheckEligibility`;
`ScheduleInterview`, then `ProvisionRoom`), keeps changed copies (`appWrite`, `offerWrite`, `interviewWrite`)
and writes them in one transaction (`Commit`). Between any two of these steps other requests run.
`Commit` refuses a copy whose version is not the successor of the stored one (`WritesCurrent`). The
repositories do not exist in `src`; the check is what the version fields are for and what the L3
description of the service demands of them. The faulty variants of `WritesCurrent` show what depends
on it: drop it for one aggregate, and a property about that aggregate fails.

`HiringProcess` is the process as its documents tell it: one application with a stage, offers and interviews with a status, and
commands that act on them at once. `HiringPipeline` implements it (`CommandsAreAtomic`): the stage, the statuses and the
feedback of the stored rows (`OfferView`, `InterviewView`) are its variables, each `Commit` is one of its commands, and every other step,
a read, a plan, a room, a refused or failed transaction, is a stutter. `Draft` says what `CreateOffer` does, which is more than the
documents allow (section 4).

### MC modules, proofs, and the operators marked "Mistake"

Each `MC...` module gives the constants of its specification their sets and the permutations for symmetry.
The modules `...Proofs` hold the proofs about the module they are named after (`RefreshTokens` has two). An operator whose comment starts with *Mistake* is no
part of any specification: it is a plausible faulty version of the operator that follows it (a
missing FOR UPDATE, a dropped guard, an ignored error). `PROJECT.json` pairs each property with one
such version; put in the place of the original, it makes TLC find the property violated.

## 3. The runs

| run | instance | shows |
|---|---|---|
| `tokens_public` | 2 requests, 3 tokens, clock to 2; the idle deadline falls within it, those of tokens and family do not | safety of the token endpoint for a public client: locks, chain, reuse, times, code, events; it implements `TokenFamily` |
| `tokens_confidential` | 2 requests, 2 tokens, clock to 2; tokens, family and idle session all expire within it | the client row serialises the requests of a confidential client: the session row never goes back and is ended by one event, every request ends, and no token outlives its family (the absolute end of the session is past the clock here; `LifetimesBindTokens` covers it, and public clients) |
| `tokens_resurrect` | 2 requests, 2 tokens | **violated**: a public client's refresh writes a revoked session back unrevoked |
| `authorization` | 2 requests, 1 transaction, 2 contacts of which one is a member, 1 scope, remembered consent, lifetimes of 1, clock to 1 | one code per transaction, steps in order, active identities, locks, remembered consent, and what can take a registered contact its verification; where the code itself lets a request overwrite what it had not seen, or fails between Redis and PostgreSQL, section 4 says what happens |
| `keys` | 2 keys, 2 callers, TTL, timeout and cooldown of 1, clock to 2 | withdrawn keys expire, published keys resolve, no failure is reported in the cooldown after a set was loaded |
| `outbox_safety` | 2 workers, 2 events, batch 2, every fault | exclusive claims, published means delivered, copies within attempts, published is final |
| `outbox_signal` | 1 worker, 2 events, batch 2, SIGTERM | **violated**: an event claimed by a worker that SIGTERM stopped is never published |
| `replicas` | 1 replica, 2 events, batch 2, every fault but late records | nothing closed in use before the deadline; a row is stranded only by a failed statement about it or a process that is cut off; a broken replica exits unless a request keeps its connection; an event that is not stranded is published |
| `pipeline_safety` | 1 worker, 2 members, 2 events, broker errors, failing handlers, rebalances, crashes | no event skipped, no published one lost, none applied twice: the pipeline implements `EventDelivery` |
| `pipeline_live` | 1 worker, 2 members, 2 events, broker errors, failing handlers | every committed event takes effect: it implements the fair `EventDelivery` |
| `hiring_races` | 2 requests, 2 offers, 1 interview, 6 versions | races of all commands leave one accepted offer, closed things closed; the requests implement `HiringProcess` |
| `hiring_policy` | the same | **violated**: `CreateOffer` reaches OFFER_PENDING without the eligibility policy |

**Bounds.** Two requests are enough for a conflict between a reader and a writer, and every handler
touches at most three rows in one order; a third request can only repeat a role. Three tokens make a
chain with an inner token: one rotated, one current, and the one to come; `TokensExhausted` ends a
request when the identifiers run out. Clock and lifetimes are such that a session can expire while its
family lives, a request can be older than the row it reads, and the idle deadline can move. Two messages
and a batch of two show a batch with one failure.
In the authorization flow a second transaction shares only the rows of a contact, which two requests on one transaction
already contend for, and the two contacts are one that registers and one that is there before. Lifetimes of one make
"valid", "just expired" and "expired while the handler runs" all happen; a lock of one ends within the run. In `keys` a clock
of two with times of one reaches each deadline at, before and after equality. One replica is enough for the lifecycle,
which shares nothing with another but the rows, where two workers compete in `outbox_safety`.
`MaxAttempts` and `MaxFailures` bound how often an environment may fail, not what the code may do.
`MaxVersion` bounds the stage changes of an application. Six are enough for two offers that are both sent and answered in any
way, at the same time or one after the other, and for an offer, its decline and a second offer that is sent; to accept that one
would take a seventh, which the proofs cover. In `replicas` records are never late: what reaches the topic
after a timeout touches no row (`outbox_safety` and the pipeline have it). Symmetry is used only in runs without liveness. Deadlock is
checked except for hiring, where a closed application may have nothing left to do, and for the authorization flow and the keys, where
the bounded clock stops the model.

**Fairness.** `RefreshTokens`: a handler that began runs on (weak fairness of its own steps), and
PostgreSQL grants a row lock to its waiters in turn (strong fairness of `LockFamily` and
`AuthenticateConfidential`). Nothing is assumed of arrivals, rollbacks, the clock or expiry.
`OutboxDelivery`: the worker's goroutine runs on and its timer fires, retry delays pass, a stopped
replica is replaced; faults are never required, and late records need not arrive. `ReplicaLifecycle`: the goroutines of
main and worker run on and the worker's own statements return, with or without an error, the deadline's timer fires, a process that ended
is replaced; a request need not end. Errors of the database pass: of claims that are tried again and again one succeeds (strong fairness of
`ClaimServed`). Publication is promised to an event that is never stranded, if from some time on no replica ends any more: one that is
stopped again each time before it claims anything delivers nothing, whatever the code does. `BrokenReplicaExits` supposes that no request
keeps its connection for ever. The keys have no liveness property: that a caller is answered rests on the singleflight library and on
a loader that returns when its context ends. `EventPipeline`: a member's goroutine runs on, a dead member is replaced and
noticed by the broker, and a free partition is assigned.

## 4. What the code does differently from what is written

With a run that shows it:

* `refresh_access_token.go:188` writes the session row it read at line 76 without a lock: a revocation
  in between is lost (`tokens_resurrect`). Confidential clients are spared by the lock on their client row.
* `repository/outbox/claim.go:16` never selects a PROCESSING row, and `worker.go:113` leaves such rows behind when the
  context ends (`outbox_signal`). So does every failed statement of a healthy worker: a mark that fails (`worker.go:128-141`, `150-160`) and a
  claim whose answer is lost (`worker.go:93-103`) leave their rows in PROCESSING (`MarkFailedFails`, `MarkPublishedFails`, `ClaimFails`); what
  was to be marked published is in the topic by then, the rest is never sent. `StrandingHasCause` has these causes and no other. The index `ix_outbox_messages_stuck_processing` of the migration has no user.
* `usecase/offer/create.go:47` does not ask the eligibility policy (`hiring_policy`).

Met while modelling, each visible in one definition and left without a run of its own:

* Revoking a refresh token leaves the session open (`RevokeRefresh` does not touch `session`); the L3
  description of the identity service (line 231) says that token and session are revoked.
* A rotated token is refused, but not recorded as reuse, when the session has expired or the request's own time
  lies before the family's last change (`RefreshRejected`); the description (lines 210-213) knows no such exception.
* `SendOffer` does not look at the application (`PlanOffer`); the description (line 230) says it is checked again. No property covers
  this; `AcceptedOfferHoldsStage` only says that an offer sent on a closed application is not accepted.
* `CancelInterview` ignores a failed teardown, and cannot be repeated (`CancelInterview`); the description (line 214)
  says the cleanup must allow a repetition. A room whose interview was never stored stays open as well.
* `Offer.Send` and `Offer.Accept` mark a lapsed offer EXPIRED in memory and return an error, so it is never saved.
* Any six-digit code verifies a contact: `tokenMatches` returns true, and nothing calls the counting of attempts. The digest of the
  code has a unique index over all challenges ever issued, so a registration may fail because another one drew the same code.
* A registered contact can only be verified through the transaction it was registered in, and a second registration finds the contact
  taken (`StoreRegistration` needs an absent identity). So the contact is blocked when that transaction expires, when the user denies it at the
  verification step (`deny_consent.go:39` asks for no step; `BeginDeny`), when the verification is in Redis and its commit fails, and when an
  overlapping request that read the transaction before overwrites it; nothing sends another code. `VerificationLostByCause` says that, expiry aside,
  nothing else takes the verification away. The description of the identity service (lines 109-111) says: "Если обновление Redis не удалось,
  повтор запроса с тем же `authorization_transaction_id` находит уже созданную Identity и завершает обновление шага без повторной
  записи в БД", and of an abandoned registration "не засоряет активные учётные записи платформы и автоматически истекает по TTL
  в Redis"; the code has no such repetition (`BeginPasswordRegistration` refuses the transaction, `identities.Create` the contact), and the rows stay.
* Verification, registration and remembered consent write Redis before PostgreSQL commits (`StoreThenCommit`): if the commit
  fails, the transaction has moved on without its rows, and stays ahead (`lost`), which `AuthenticatedIdentityIsActive` has to excuse. The
  description (line 135) has the other order: "После SQL-коммита сервис обновляет транзакцию авторизации в Redis", and "При сбое Redis повторная
  проверка статуса Identity восстанавливает этот шаг"; the same for the registration (line 109).
* Two overlapping `ContinueAuthorization` requests mint two codes, one that fails between the code and the record leaves a code and a
  transaction ready for another, and a request that had read an older record takes a
  transaction back, even out of `completed` (`late`, `lost`): `CodesAccountedFor` and `StepsNeverRegress` excuse these requests and
  no others. The description (lines 180-181) says the code is stored and then "Транзакция авторизации удаляется из Redis"; the code keeps it, as
  `completed`, until it expires (`continue_authorization.go:73`).
* Consent is skipped on a grant that was read before (`authenticationflow/get.go:78`): one that is replaced by a narrower grant in the
  meantime still answers. `AutomaticConsentWasGiven` says that the identity itself once agreed to have these scopes remembered; a trusted
  client is never asked.
* Password attempts that overlap write back a counter they read without a lock, so failures are lost, and an attempt that read the row
  before a lock removes it (`CommitFailedAttempt`, `CommitAuthentication`); `LockSurvivesLaterAttempts` says that the writer itself must have read another row.
* `jwks.go:109` compares generations without looking at the expiry: a caller that joins the flight of a slow leader may be answered from a
  set that has expired. No code calls the retirement of a signing key.
* The gateway always lists its metrics server as a component (`services/api-gateway/internal/app/app.go:65`). When metrics are disabled its `Start` returns nil
  at once (`packages/go/metrics/server.go:50`), and `waitForRuntime` takes the first result as the end: the gateway shuts down as soon as it runs.
* When an earlier component of the shutdown uses up the deadline, the worker is never told to drain, and the closer closes producer and
  database under it (`LeaveLoop` with `expired`). The pool's `Close` (`packages/go/postgres/client.go:60-69`)
  waits for connections without any deadline, so one request that hangs in a transaction keeps the process after all deadlines have passed (`PoolClosed`).
* The description says that Debezium publishes the outbox; `packages/go/outbox` does.

## 5. What is proved

`RefreshTokensProofs` proves, for any set of requests and tokens, any clock bound and lifetimes, and both kinds of client,
under the named assumptions of `RefreshTokens` (lifetimes are positive and the idle one is at most
the session's; `None` is neither a request nor a token):

| theorem | property |
|---|---|
| `TypeCorrect` | `TypeOK` |
| `FamilyLockSuffices` | `LockedFamilyIsCurrent` |
| `OneCurrentToken` | `SingleCurrentToken` |
| `TokensFormChain` | `RotationChain` |
| `ReuseRevokesGrant` | `ReuseRevokesAll` |
| `RevokedFamilyUntouched` | `RevokedFamilyIsFinal`, which `FamilyIsAtomic` extends |

All follow from `Invariance == Spec => []IInv`. None of the properties is inductive alone. A rotation preserves the chain
only if the copies it writes are the stored rows, which is `LockedFamilyIsCurrent`; that in turn needs
each request to be at a step of its own handler (`StepMatchesHandler`), or a release could free the lock of
another handler's step. The first token needs `CodeHeldOnce`: one exchange holds the code, and only while there is no
session. `IInv` is the conjunction of these. The proof goes through *effects*: four
lemmas show that a step leaves family and tokens unchanged, issues the first token, revokes all of them, or rotates one
(`FamilyEffect`); chain, uniqueness and finality are then proved about effects, not about nine handlers.
Reuse is the subtle case: `ReuseRevokesAll` must survive a refresh that writes a session it read earlier without
a lock. It does, because that refresh holds the family row from before it reads the session until it commits, so
reuse detection of the same family cannot happen in between. That argument fails for `RevokeAccess`,
which holds no lock: hence the finding above.

`RefreshTokensLimitsProofs` builds on `IInv` and proves the rest of the module's safety, under the same assumptions:

| theorem | property |
|---|---|
| `RevocationIsWhole` | `TokenTimesWithinFamily` |
| `LifetimesBindTokens` | `TokensWithinLifetimes` |
| `OneSessionPerCode` | `CodeOpensOneSession` |
| `EventsTellRows` | `EventsMatchRows` |
| `FamilyImplementsAtomicFamily` | `FamilyIsAtomic`, the refinement of `TokenFamily` |
| `ConfidentialSessionNeverRegresses` | `SessionNeverRegresses`, if the client is confidential |
| `ConfidentialSessionStaysRevoked` | `RevokedSessionStaysRevoked`, if the client is confidential |
| `LockHoldersRun` | who is waited for waits for nobody |
| `HandlersTakeFewSteps` | every step of a handler brings it closer to its end |

The first four follow from `LimitsInvariance == Spec => []LimitsInv`. The lifetimes are the subtle part, because the session row
may be overwritten by a copy that is out of date. `CopiesAreOfSession` says what such a copy cannot have wrong (creation and
absolute deadline), and `IdleIsBounded` that neither the row nor any copy has an idle deadline past the issue of the current
token plus the idle lifetime: a copy can only be too strict. The count of rotation events is that of a finite set that grows
by one token per rotation (`RotatedGrows`). The refinement goes through the effects as well: a step that leaves the rows alone is a stutter, the
first token is `Issue`, a rotation is `Rotate`, and a revocation of all tokens is `End`, for which `LimitsInv` has to know that family
and tokens are revoked together (`RevokedTogether`); otherwise a revoked family could still have a usable token, or a live one none.

The theorems on confidential clients have an invariant of their own, `ConfidentialInv`, with `ClientQueues`: recording the use of the
secret locks the client row before the session is read, so the copy is still the row when it is written. A public client
records nothing and takes no such lock, which is what `MCRefreshTokensResurrect.cfg` shows.

`LockHoldersRun` and `HandlersTakeFewSteps` are the part of `RequestsFinish` that needs no fairness: chains of waiting requests have length
one, and `StepsLeft`, at most four, falls with every step. What remains for TLC is that fairness turns this into an end.

`OutboxDeliveryProofs` proves, for any set of workers and numbered events, any batch size, any number of attempts and
every combination of faults:

| theorem | property |
|---|---|
| `TypeCorrect` | `TypeOK` |
| `ClaimsAreExclusive` | `ClaimIsExclusive` |
| `PublishedMeansDelivered` | `PublishedWasDelivered` |
| `DuplicatesAreBounded` | `CopiesWithinAttempts` |
| `PublishedForGood` | `PublishedIsFinal` |

All but the last need its inductive invariant `IInv`, which adds to the properties what a worker knows between two
statements: outside a batch it holds nothing (`BatchMatchesStep`), what it will mark published is in the topic
(`AckedWasDelivered`), and the attempt of an entry it has yet to publish has left no copy (`AttemptUnused`). Exclusive
claims are what the bound on duplicates rests on: only because no second worker holds the entry can a publication spend
the one copy of its attempt (`SpendingStepKeepsCopies`). The counting itself is one lemma on sequences,
`CopiesAfterAppend`, and one on budgets, `CopiesBudget`, which every action is an instance of.

`EventPipelineProofs` builds on it. `PipelineKeepsOutbox` shows that every step of the pipeline is one of `OutboxDelivery` or leaves
its variables alone, so `InductiveInvariant` holds there as well. Its own invariant `PInv` says what a member knows between two
steps: the record in its hands is the one at its position (`HandlesItsPosition`), the inbox row and the effect are one
(`RowIsEffect`), all before a position or the offset is in the inbox (`PassedIsDone`), and what was never committed has left no trace
in producer or topic (`NoneIsUntouched`). From it follow `PipelineTypeOK` (`PipelineTypeCorrect`), `OffsetSkipsNothing` (`NothingIsSkipped`),
`OneTransactionPerEvent` (`TransactionsExclude`), with the outbox's own invariant `PublishedIsNotLost` (`PublishedAreNotLost`), and the refinement `EffectAtMostOnce` (`EffectsAreSingle`): creating a row maps to
`Commit`, `CommitEffect` to `Apply`, every other step of either side to a stutter.

`ReplicaLifecycleProofs` proves that replicas with their processes implement `OutboxDelivery` (`ReplicasImplementOutbox`), and
`ResourcesOutliveUsers` (`NothingClosedInUse`) and `StrandingHasCause` (`StrandingIsExplained`) for any number of replicas. The
invariant behind them, `ProgressKnown`, says what has ended for each value of `main` and `left`. That the worker's hands are empty when it
has stopped in order is the part that needs the outbox's own invariant. `EndsAreFinal` is the part of `BrokenReplicaExits` that needs no fairness:
what is broken stays broken until it is replaced, and each step of Run lowers `StepsToExit`, which is at most eleven. It does not say that a
step is possible: Run waits for its components until the deadline, and then in the pool's `Close` until no request holds a connection.

`KeyDistributionProofs` proves `TypeOK`, `WithdrawnKeysExpire` (`WithdrawalTakesEffect`), `PublishedKeysResolve` (`PublicationTakesEffect`) and
`SuccessSilencesFailures` (`FailuresAreForgotten`) for any keys, callers and configuration that `Validate` accepts. The invariant bounds the age of
everything that can carry a key: the set, the load under way, the flight's leader and each caller; and it keeps every failure, and every load that
may still fail, a cooldown away from the set (`FailuresApart`).

`AuthorizationFlowProofs` proves all six properties of its run, for any contacts, transactions, requests, lifetimes and each mode of
consent: `OneCode`, `AuthenticationIsBacked`, `VerificationIsReachable`, `ImpliedConsentWasGiven`, `RecordsMoveForward`, `LocksHold`. The
invariant says of each request in progress that the record it is about to write follows by one legal step from the one it saw
(`RequestsSound`), and that what was past authentication when it was read is still backed: by an active identity, by a
verification about to commit, or by a failure on record (`IdentityConfirmed`). `VerificationIsReachable` and `LocksHold` are about single
steps: each names the request that takes the step, so that no other request in progress can serve as its excuse.

`HiringPipelineProofs` proves all seven properties of `hiring_races`, and `StoredTransitionsAreLegal`, for any number of requests, offers and interviews. The argument is
about versions: a version is given out once, so a copy whose version follows the stored one was made from what is stored; therefore
an offer becomes accepted only from OFFER_PENDING, where no accepted one exists. `ImplementsProcess` uses the same argument for
every command: `IInv` says of each planned write which command made it from the stored row (`OfferFollows`, `GoesWith`,
`InterviewFollows`) and which stages an application with offers or interviews can be in (`RowsReached`); `StageCommand`, `OfferCommand` and
`InterviewCommand` then find the command of `HiringProcess` that a `Commit` is.

Model-checked only: all liveness (`RequestsFinish`, `BrokenReplicaExits`, `EventsOutliveReplicas`, `EffectExactlyOnce`), since fairness and
ENABLED are out of the prover's reach, as are induction over data and RECURSIVE operators (no module uses any).

## 6. Not modelled, and what is left

Not modelled, beyond what section 1 lists:

* The idempotency middleware of HTTP and gRPC: its store is an interface that no package implements and no service wires, so
  locks, expiry and replay have no behaviour to translate.
* Several partitions: no service consumes a topic, and the package keeps nothing across partitions but the inbox, which is modelled.
* The codes of contact verification, for the reason given above, and the administration of OAuth clients, which inserts single rows.
* `retry`: a loop over a backoff whose state ends with the call.

Done so far: the token endpoint, the authorization flow, keys, outbox, pipeline, process lifecycle and hiring, each with proofs. Left:
several applications of one candidate in hiring, and the onsite room strategy.
