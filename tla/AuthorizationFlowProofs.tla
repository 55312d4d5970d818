---------------------- MODULE AuthorizationFlowProofs ----------------------
(***************************************************************************)
(* What holds of AuthorizationFlow for any contacts, transactions,         *)
(* requests and times, in every consent mode.                              *)
(*                                                                         *)
(* A request carries what it will write from the moment it has decided, so *)
(* the invariant says of every request how the record it will write        *)
(* follows from the one it read, and what the rows were when it read them  *)
(* as far as nobody can have changed that since.                           *)
(***************************************************************************)
EXTENDS AuthorizationFlow, FiniteSetTheorems, TLAPS

(* Past authentication. *)
Past == {"mfa_enrollment", "consent", "ready", "completed"}

(* A record has an identity from the first step on, and none before. *)
WellFormed(x) ==
    /\ x.stage \in Past \cup {"verification"} => x.identity \in Contacts
    /\ x.stage = "absent" => x.identity = None

(* The request holds a record to store. *)
Decided(r) ==
    /\ r.pc \notin {"idle", "stored"}
    /\ r.op = "password" => r.pc = "updating" /\ r.right

(* How the record to store follows from the record that was read. *)
Follows(op, c, x, y) ==
    /\ y.requested = x.requested
    /\ op = "register" => /\ x.stage = "choose" /\ x.identity = None
                          /\ y.stage = "verification" /\ y.identity = c
    /\ op = "verify" => /\ x.stage = "verification" /\ x.identity = c
                        /\ y.stage = "mfa_enrollment" /\ y.identity = c
    /\ op = "password" => /\ x.stage = "choose" /\ x.identity \in {None, c}
                          /\ y.stage = "mfa_enrollment" /\ y.identity = c
    /\ op = "skip" => /\ x.stage = "mfa_enrollment" /\ x.identity = c
                      /\ y.stage \in {"consent", "ready"} /\ y.identity = c
    /\ op \in {"grant", "remember"} => /\ x.stage = "consent" /\ x.identity = c
                                       /\ y.stage = "ready" /\ y.identity = c
    /\ op = "deny" => /\ x.stage \in Pending
                      /\ y.stage = "denied" /\ y.identity = x.identity
    /\ op = "continue" => /\ x.stage = "ready"
                          /\ y.stage = "completed" /\ y.identity = x.identity

(* What a step of the handler leaves to be done, and by whom. *)
InPhase(r) ==
    /\ r.pc = "idle" <=> r.op = "none"
    /\ r.pc = "minted" => r.op = "continue"
    /\ r.pc = "informed" => r.op = "skip"
    /\ r.pc = "stored" => /\ r.op \in {"register", "verify", "password", "remember"}
                          /\ r.seen = NoTxn
    /\ r.op \notin {"none", "deny", "continue"} => r.c \in Contacts
    /\ r.op # "none" /\ ~(r.op = "password" /\ r.pc = "updating" /\ ~r.right) => r.t \in Txns

(* The row of an attempt allowed it, and its identity is active.           *)
AttemptWasAllowed(r, time, status) ==
    /\ r.at <= time
    /\ r.op = "password" /\ r.pc # "read" =>
          r.row.lockedUntil <= r.at /\ status[r.c] = "active"

(* Rows that wait for their commit hold off whoever would change them. *)
RowsWait(r, status) ==
    /\ r.op = "register" /\ r.pc = "stored" => status[r.c] = "absent"
    /\ r.op = "verify" /\ r.pc = "stored" => status[r.c] = "pending"

Sound(r, time, status) ==
    /\ InPhase(r)
    /\ WellFormed(r.seen)
    /\ Decided(r) => Follows(r.op, r.c, r.seen, r.write)
    /\ AttemptWasAllowed(r, time, status)
    /\ RowsWait(r, status)

RequestsSound == \A p \in Requests : Sound(req[p], now, identity)

RecordsWellFormed == \A t \in Txns : WellFormed(txn[t])

StoredAlone ==
    \A p, q \in Requests :
        /\ req[p].pc = "stored" /\ req[q].pc = "stored"
        /\ req[p].op = req[q].op /\ req[p].c = req[q].c
        => p = q

(* What nobody has registered was never locked. *)
AbsentIsUnlocked ==
    \A c \in Contacts : identity[c] = "absent" => password[c].lockedUntil = 0

(* A verification of c through t is in Redis and about to commit. *)
Verifying(t, c) ==
    \E p \in Requests :
        req[p].op = "verify" /\ req[p].pc = "stored" /\ req[p].t = t /\ req[p].c = c

Confirmed(t, c) == identity[c] = "active" \/ Verifying(t, c) \/ lost[t]

(* What was past authentication when it was read still is confirmed. *)
IdentityConfirmed ==
    \A t \in Txns, c \in Contacts :
        /\ txn[t].stage \in Past /\ txn[t].identity = c => Confirmed(t, c)
        /\ \A p \in Requests :
              /\ req[p].op # "none" /\ req[p].t = t
              /\ req[p].seen.stage \in Past /\ req[p].seen.identity = c
              => Confirmed(t, c)

(* The scopes of a remembered consent are among those agreed to. *)
Agreed(x, agreed) ==
    x.source = "remembered_grant" =>
        /\ x.stage \in {"ready", "completed"}
        /\ x.identity \in Contacts
        /\ x.granted \subseteq agreed[x.identity]

ConsentsAgreed ==
    /\ \A c \in Contacts : grant[c].scopes \subseteq consented[c]
    /\ \A t \in Txns : Agreed(txn[t], consented)
    /\ \A p \in Requests :
          /\ Agreed(req[p].seen, consented)
          /\ Agreed(req[p].write, consented)
          /\ req[p].op = "remember" /\ req[p].pc \in {"inserting", "updating", "stored"}
                => req[p].write.granted \subseteq consented[req[p].c]

IInv ==
    /\ TypeOK
    /\ RequestsSound
    /\ RecordsWellFormed
    /\ StoredAlone
    /\ AbsentIsUnlocked
    /\ IdentityConfirmed
    /\ ConsentsAgreed
    /\ CodesAccountedFor

----------------------------------------------------------------------------
(* Records and requests *)

Others(p) == \A q \in Requests \ {p} : req'[q] = req[q]

LEMMA NoTxnTyped == NoTxn \in Txn
BY DEF NoTxn, Txn, Stage, Source

LEMMA NewTyped ==
  ASSUME NEW requested \in SUBSET Scopes, NEW expires \in Nat
  PROVE  /\ New(requested, expires) \in Txn
         /\ New(requested, expires).stage = "choose"
         /\ New(requested, expires).identity = None
         /\ New(requested, expires).requested = requested
         /\ New(requested, expires).source = "none"
BY DEF New, NoTxn, Txn, Stage, Source

LEMMA RegistrationFollows ==
  ASSUME NEW x \in Txn, NEW c \in Contacts, NEW verifyBy \in Nat, NEW at \in Nat,
         CanBeginRegistration(x, at)
  PROVE  /\ BeginRegistration(x, c, verifyBy) \in Txn
         /\ Follows("register", c, x, BeginRegistration(x, c, verifyBy))
         /\ BeginRegistration(x, c, verifyBy).source = x.source
BY DEF CanBeginRegistration, BeginRegistration, Follows, Txn, Stage, Source

LEMMA AuthenticationFollows ==
  ASSUME NEW x \in Txn, NEW c \in Contacts, NEW at \in Nat, CanAuthenticate(x, c, at)
  PROVE  /\ Authenticate(x, c) \in Txn
         /\ Follows("password", c, x, Authenticate(x, c))
         /\ Authenticate(x, c).source = x.source
BY DEF CanAuthenticate, Authenticate, Follows, Txn, Stage, Source

LEMMA VerificationFollows ==
  ASSUME NEW x \in Txn, NEW at \in Nat, CanVerify(x, at)
  PROVE  /\ CompleteVerification(x) \in Txn
         /\ Follows("verify", x.identity, x, CompleteVerification(x))
         /\ CompleteVerification(x).source = x.source
BY DEF CanVerify, CompleteVerification, Follows, Txn, Stage, Source

LEMMA SkipFollows ==
  ASSUME NEW x \in Txn, NEW at \in Nat, CanSkipMFA(x, at)
  PROVE  /\ SkipMFA(x) \in Txn
         /\ Follows("skip", x.identity, x, SkipMFA(x))
         /\ SkipMFA(x).source = x.source
BY DEF CanSkipMFA, SkipMFA, Follows, Txn, Stage, Source

LEMMA ScopesAuthorized ==
  ASSUME NEW x \in Txn, NEW scopes \in SUBSET Scopes, NEW source \in Source
  PROVE  /\ AuthorizeScopes(x, scopes, source) \in Txn
         /\ AuthorizeScopes(x, scopes, source).stage = "ready"
         /\ AuthorizeScopes(x, scopes, source).identity = x.identity
         /\ AuthorizeScopes(x, scopes, source).requested = x.requested
         /\ AuthorizeScopes(x, scopes, source).granted = scopes
         /\ AuthorizeScopes(x, scopes, source).source = source
BY DEF AuthorizeScopes, Txn, Stage

LEMMA FinishFollows ==
  ASSUME NEW x \in Txn, NEW stage \in {"completed", "denied"}
  PROVE  /\ Finish(x, stage) \in Txn
         /\ Finish(x, stage).stage = stage
         /\ Finish(x, stage).identity = x.identity
         /\ Finish(x, stage).requested = x.requested
         /\ Finish(x, stage).granted = x.granted
         /\ Finish(x, stage).source = x.source
BY DEF Finish, Txn, Stage, Source

LEMMA UnlockedTyped ==
  ASSUME NEW at \in Nat
  PROVE  /\ Unlocked(at) \in AuthState
         /\ Unlocked(at).lockedUntil = 0
BY DEF Unlocked, AuthState

LEMMA FailedAttemptTyped ==
  ASSUME NEW row \in AuthState, NEW at \in Nat
  PROVE  FailedAttempt(row, at) \in AuthState
<1> DEFINE count == IF row.lockedUntil # 0 THEN 1 ELSE row.attempts + 1
<1>1. count \in Nat
  BY DEF AuthState
<1>1a. at + LockDuration \in Nat
  BY FlowAssumption
<1> HIDE DEF count
<1>2. (IF count >= MaxAttempts THEN at + LockDuration ELSE 0) \in Nat
  BY <1>1a
<1>3. QED BY <1>1, <1>2 DEF FailedAttempt, AuthState, count

LEMMA IdleTyped ==
  /\ Idle \in Request
  /\ Idle.pc = "idle" /\ Idle.op = "none" /\ Idle.at = 0
  /\ Idle.seen = NoTxn /\ Idle.write = NoTxn
BY NoTxnTyped, UnlockedTyped DEF Idle, Request, Operation

LEMMA IdleSound ==
  ASSUME NEW time \in Nat, NEW status
  PROVE  Sound(Idle, time, status)
<1>1. InPhase(Idle)
  BY IdleTyped DEF InPhase
<1>2. WellFormed(Idle.seen)
  BY IdleTyped DEF WellFormed, NoTxn, Past
<1>3. ~Decided(Idle)
  BY IdleTyped DEF Decided
<1>4. AttemptWasAllowed(Idle, time, status)
  BY IdleTyped DEF AttemptWasAllowed
<1>5. RowsWait(Idle, status)
  BY IdleTyped DEF RowsWait
<1>6. QED BY <1>1, <1>2, <1>3, <1>4, <1>5 DEF Sound

LEMMA SoundFrame ==
  ASSUME NEW r \in Request, NEW time \in Nat, NEW later \in Nat, time <= later,
         NEW status, NEW changed, Sound(r, time, status), RowsWait(r, changed),
         \A c \in Contacts : status[c] = "active" => changed[c] = "active"
  PROVE  Sound(r, later, changed)
<1>1. r.at \in Nat /\ r.at <= later
  BY DEF Request, Sound, AttemptWasAllowed
<1>2. r.op = "password" => r.c \in Contacts
  BY DEF Sound, InPhase
<1>3. AttemptWasAllowed(r, later, changed)
  BY <1>1, <1>2 DEF Sound, AttemptWasAllowed
<1>4. QED BY <1>3 DEF Sound

(* The record to store is well formed and ahead of the one it follows. *)
LEMMA FollowsAdvances ==
  ASSUME NEW op \in Operation \ {"none"}, NEW c, NEW x \in Txn, NEW y \in Txn,
         op \notin {"deny", "continue"} => c \in Contacts,
         WellFormed(x), Follows(op, c, x, y)
  PROVE  WellFormed(y) /\ Advances(x, y) /\ x.stage # "absent" /\ y.stage # "absent"
<1>1. c \in Contacts => c # None
  BY FlowAssumption
<1>2. CASE op = "register"
  BY <1>2, <1>1 DEF Follows, WellFormed, Past, Advances, Rank
<1>3. CASE op = "verify"
  BY <1>3 DEF Follows, WellFormed, Past, Advances, Rank
<1>4. CASE op = "password"
  BY <1>4, <1>1 DEF Follows, WellFormed, Past, Advances, Rank
<1>5. CASE op = "skip"
  BY <1>5 DEF Follows, WellFormed, Past, Advances, Rank
<1>6. CASE op \in {"grant", "remember"}
  BY <1>6 DEF Follows, WellFormed, Past, Advances, Rank
<1>7. CASE op = "deny"
  BY <1>7 DEF Follows, WellFormed, Past, Pending, Advances, Rank
<1>8. CASE op = "continue"
  BY <1>8 DEF Follows, WellFormed, Past, Advances, Rank
<1>9. QED BY <1>2, <1>3, <1>4, <1>5, <1>6, <1>7, <1>8 DEF Operation

LEMMA BeginStep ==
  ASSUME TypeOK, NEW p \in Requests, NEW op \in Operation, NEW t \in Txns,
         NEW c \in Contacts \cup {None}, NEW write \in Txn, Begin(p, op, t, c, write)
  PROVE  /\ req' \in [Requests -> Request]
         /\ Others(p)
         /\ req[p].pc = "idle"
         /\ txn[t].stage # "absent"
         /\ req'[p].pc = "read" /\ req'[p].op = op /\ req'[p].t = t /\ req'[p].c = c
         /\ req'[p].at = now /\ req'[p].seen = txn[t] /\ req'[p].write = write
<1> DEFINE begun == [Idle EXCEPT !.pc = "read", !.op = op, !.t = t, !.c = c,
                                 !.at = now, !.seen = txn[t], !.write = write]
<1>1. begun \in Request
  BY IdleTyped DEF Request, TypeOK
<1>2. /\ begun.pc = "read" /\ begun.op = op /\ begun.t = t /\ begun.c = c
      /\ begun.at = now /\ begun.seen = txn[t] /\ begun.write = write
  BY DEF Idle
<1>3. req' = [req EXCEPT ![p] = begun]
  BY DEF Begin
<1> HIDE DEF begun
<1>4. req'[p] = begun /\ Others(p) /\ req' \in [Requests -> Request]
  BY <1>1, <1>3 DEF Others, TypeOK
<1>5. QED BY <1>2, <1>4 DEF Begin, Live

(* The handlers of an operation, each step with the request it leaves. *)

LEMMA StepMoves ==
  ASSUME TypeOK, NEW p \in Requests, NEW pc, Step(p, pc),
         pc \in {"read", "inserting", "updating", "informed", "minted", "stored"}
  PROVE  /\ req' \in [Requests -> Request]
         /\ Others(p)
         /\ req'[p] = [req[p] EXCEPT !.pc = pc]
         /\ req'[p].pc = pc
         /\ req'[p].op = req[p].op /\ req'[p].t = req[p].t /\ req'[p].c = req[p].c
         /\ req'[p].at = req[p].at /\ req'[p].seen = req[p].seen
         /\ req'[p].write = req[p].write /\ req'[p].row = req[p].row
         /\ req'[p].right = req[p].right
BY DEF Step, Others, TypeOK, Request

LEMMA ToIdle ==
  ASSUME TypeOK, NEW p \in Requests, req' = [req EXCEPT ![p] = Idle]
  PROVE  /\ req' \in [Requests -> Request]
         /\ Others(p)
         /\ req'[p] = Idle
BY IdleTyped DEF Others, TypeOK

LEMMA ToStored ==
  ASSUME TypeOK, NEW p \in Requests, StoreThenCommit(p)
  PROVE  /\ req' \in [Requests -> Request]
         /\ Others(p)
         /\ req'[p].pc = "stored"
         /\ req'[p].op = req[p].op /\ req'[p].t = req[p].t /\ req'[p].c = req[p].c
         /\ req'[p].at = req[p].at /\ req'[p].row = req[p].row
         /\ req'[p].seen = NoTxn
         /\ req'[p].write.source = "none"
         /\ req'[p].write.granted = req[p].write.granted
<1> DEFINE kept == [NoTxn EXCEPT !.granted = req[p].write.granted]
<1>1. req[p].write \in Txn
  BY DEF TypeOK, Request
<1>2. kept \in Txn /\ kept.source = "none" /\ kept.granted = req[p].write.granted
  BY <1>1, NoTxnTyped DEF Txn, NoTxn, Stage, Source
<1>3. req' = [req EXCEPT ![p] = [req[p] EXCEPT !.pc = "stored", !.seen = NoTxn,
                                               !.write = kept]]
  BY DEF StoreThenCommit, TypeOK
<1> HIDE DEF kept
<1>4. req[p] \in Request
  BY DEF TypeOK
<1>5. [req[p] EXCEPT !.pc = "stored", !.seen = NoTxn, !.write = kept] \in Request
  BY <1>2, <1>4, NoTxnTyped DEF Request
<1>6. req'[p] = [req[p] EXCEPT !.pc = "stored", !.seen = NoTxn, !.write = kept]
  BY <1>3 DEF TypeOK
<1>7. QED BY <1>2, <1>3, <1>4, <1>5, <1>6 DEF Others, TypeOK, Request

LEMMA StoreTyped ==
  ASSUME TypeOK, NEW p \in Requests, req[p].t \in Txns, Store(p, req[p].write)
  PROVE  /\ txn' \in [Txns -> Txn]
         /\ late' \in [Txns -> BOOLEAN]
         /\ txn'[req[p].t] = req[p].write
         /\ txn[req[p].t].stage # "absent"
         /\ late'[req[p].t] = (late[req[p].t] \/ txn[req[p].t] # req[p].seen)
         /\ \A t \in Txns \ {req[p].t} : txn'[t] = txn[t] /\ late'[t] = late[t]
BY DEF Store, Live, TypeOK, Request

(* An attempt reads the row: what it makes of a wrong and a right password. *)
LEMMA PasswordRead ==
  ASSUME TypeOK, NEW p \in Requests, ReadPassword(p), req[p].c \in Contacts
  PROVE  /\ req' \in [Requests -> Request]
         /\ Others(p)
         /\ req[p].op = "password" /\ req[p].pc = "read"
         /\ req'[p].op = "password" /\ req'[p].pc = "updating"
         /\ req'[p].c = req[p].c /\ req'[p].at = req[p].at
         /\ req'[p].row = password[req[p].c]
         /\ req'[p].row.lockedUntil <= req[p].at
         /\ identity[req[p].c] = "active"
         /\ \/ /\ ~req'[p].right
               /\ req'[p].seen = NoTxn /\ req'[p].write = NoTxn
               /\ req'[p].t = None
            \/ /\ req'[p].right
               /\ req'[p].t = req[p].t /\ req'[p].seen = req[p].seen
               /\ Follows("password", req[p].c, req[p].seen, req'[p].write)
               /\ req'[p].write.source = req[p].seen.source
<1> DEFINE r == req[p]
           row == password[r.c]
           wrong == [Idle EXCEPT !.pc = "updating", !.op = "password", !.c = r.c,
                                 !.at = r.at, !.row = row]
           right == [r EXCEPT !.pc = "updating", !.row = row, !.right = TRUE,
                              !.write = Authenticate(r.seen, r.c)]
<1>1. r \in Request /\ row \in AuthState
  BY DEF TypeOK
<1>2. /\ r.op = "password" /\ r.pc = "read" /\ identity[r.c] = "active"
      /\ row.lockedUntil <= r.at
  BY DEF ReadPassword, AttemptAllowed
<1>3. CASE req' = [req EXCEPT ![p] = wrong]
  <2>1. wrong \in Request
    BY <1>1, IdleTyped DEF Request, Operation
  <2>2. req'[p] = wrong /\ Others(p) /\ req' \in [Requests -> Request]
    BY <1>3, <2>1 DEF Others, TypeOK
  <2>3. /\ wrong.op = "password" /\ wrong.pc = "updating" /\ wrong.c = r.c
        /\ wrong.at = r.at /\ wrong.row = row /\ wrong.right = FALSE
        /\ wrong.seen = NoTxn /\ wrong.write = NoTxn /\ wrong.t = None
    BY DEF Idle
  <2>4. QED BY <1>2, <2>2, <2>3
<1>4. CASE /\ CanAuthenticate(r.seen, r.c, r.at)
           /\ req' = [req EXCEPT ![p] = right]
  <2>1. /\ Authenticate(r.seen, r.c) \in Txn
        /\ Follows("password", r.c, r.seen, Authenticate(r.seen, r.c))
        /\ Authenticate(r.seen, r.c).source = r.seen.source
    <3>1. r.seen \in Txn /\ r.at \in Nat
      BY <1>1 DEF Request
    <3>2. QED BY <1>4, <3>1, AuthenticationFollows
  <2>2. right \in Request
    BY <1>1, <2>1 DEF Request
  <2>3. req'[p] = right /\ Others(p) /\ req' \in [Requests -> Request]
    BY <1>4, <2>2 DEF Others, TypeOK
  <2>4. /\ right.op = r.op /\ right.pc = "updating" /\ right.c = r.c
        /\ right.at = r.at /\ right.row = row /\ right.right = TRUE
        /\ right.seen = r.seen /\ right.write = Authenticate(r.seen, r.c) /\ right.t = r.t
    BY <1>1 DEF Request
  <2>5. QED BY <1>2, <2>1, <2>3, <2>4
<1>5. \/ req' = [req EXCEPT ![p] = wrong]
      \/ /\ CanAuthenticate(r.seen, r.c, r.at)
         /\ req' = [req EXCEPT ![p].pc = "updating", ![p].row = row, ![p].right = TRUE,
                               ![p].write = Authenticate(r.seen, r.c)]
  BY DEF ReadPassword
<1>6. CASE req' = [req EXCEPT ![p].pc = "updating", ![p].row = row, ![p].right = TRUE,
                              ![p].write = Authenticate(r.seen, r.c)]
  <2>1. req' = [req EXCEPT ![p] = right]
    BY <1>6 DEF TypeOK
  <2>2. QED BY <2>1, <1>3, <1>4, <1>5
<1>7. QED BY <1>3, <1>5, <1>6

(* The facts are read: consent is asked for, or implied. *)
LEMMA FactsRead ==
  ASSUME TypeOK, NEW p \in Requests, ReadFacts(p)
  PROVE  /\ req' \in [Requests -> Request]
         /\ Others(p)
         /\ req[p].op = "skip" /\ req[p].pc = "read"
         /\ req'[p].op = "skip" /\ req'[p].pc = "informed"
         /\ req'[p].t = req[p].t /\ req'[p].c = req[p].c /\ req'[p].at = req[p].at
         /\ req'[p].seen = req[p].seen
         /\ \/ req'[p].write = req[p].write
            \/ /\ req'[p].write.stage = "ready"
               /\ req'[p].write.identity = req[p].write.identity
               /\ req'[p].write.requested = req[p].write.requested
               /\ req'[p].write.source = "remembered_grant" =>
                     req'[p].write.granted \subseteq grant[req[p].c].scopes
<1> DEFINE r == req[p]
           source == IF ConsentMode = "trusted" THEN "trusted_client" ELSE "remembered_grant"
           implied == ConsentMode = "trusted"
                      \/ (ConsentMode = "remember" /\ GrantCovers(r.c, r.seen.requested))
           write == AuthorizeScopes(r.write, r.seen.requested, source)
           next == [r EXCEPT !.pc = "informed", !.write = write]
<1>1. r \in Request /\ r.seen \in Txn /\ r.write \in Txn
  BY DEF TypeOK, Request
<1>2. r.op = "skip" /\ r.pc = "read"
  BY DEF ReadFacts
<1>3. CASE ~implied
  <2>1. Step(p, "informed")
    BY <1>3 DEF ReadFacts
  <2>2. QED BY <1>2, <2>1, StepMoves
<1>4. CASE implied
  <2>1. source \in Source /\ r.seen.requested \in SUBSET Scopes
    BY <1>1 DEF Source, Txn
  <2>2. /\ write \in Txn /\ write.stage = "ready" /\ write.identity = r.write.identity
        /\ write.requested = r.write.requested /\ write.source = source
        /\ write.granted = r.seen.requested
    BY <1>1, <2>1, ScopesAuthorized
  <2>3. write.source = "remembered_grant" => write.granted \subseteq grant[r.c].scopes
    BY <1>4, <2>2 DEF GrantCovers
  <2>4. req' = [req EXCEPT ![p].pc = "informed",
                      ![p].write = AuthorizeScopes(@, r.seen.requested, source)]
    BY <1>4 DEF ReadFacts
  <2>5. req' = [req EXCEPT ![p] = next]
    BY <2>4 DEF TypeOK
  <2> HIDE DEF write, source
  <2>6. next \in Request
    BY <1>1, <2>2 DEF Request
  <2>7. req'[p] = next /\ Others(p) /\ req' \in [Requests -> Request]
    BY <2>5, <2>6 DEF Others, TypeOK
  <2>8. /\ next.op = r.op /\ next.pc = "informed" /\ next.t = r.t /\ next.c = r.c
        /\ next.at = r.at /\ next.seen = r.seen /\ next.write = write
    BY <1>1 DEF Request
  <2>9. QED BY <1>2, <2>2, <2>3, <2>7, <2>8
<1>5. QED BY <1>3, <1>4

(* However a request begins, what it will write follows from what it read. *)
Begun(p) ==
    LET r == req'[p] IN
    /\ req' \in [Requests -> Request]
    /\ Others(p)
    /\ req[p].pc = "idle"
    /\ UNCHANGED <<now, txn, rows, history>>
    /\ r.pc = "read" /\ r.op # "none" /\ r.at = now
    /\ r.t \in Txns /\ r.seen = txn[r.t] /\ r.seen.stage # "absent"
    /\ r.op \notin {"deny", "continue"} => r.c \in Contacts
    /\ r.op # "password" => Follows(r.op, r.c, r.seen, r.write)
    /\ \/ r.write.source # "remembered_grant"
       \/ /\ r.op # "password"
          /\ r.write.source = r.seen.source
          /\ r.op = "continue" => r.write.granted = r.seen.granted

LEMMA BegunBy ==
  ASSUME TypeOK, NEW p \in Requests, NEW op \in Operation \ {"none"}, NEW t \in Txns,
         NEW c \in Contacts \cup {None}, NEW write \in Txn, Begin(p, op, t, c, write),
         op \notin {"deny", "continue"} => c \in Contacts,
         op # "password" => Follows(op, c, txn[t], write),
         \/ write.source # "remembered_grant"
         \/ /\ op # "password"
            /\ write.source = txn[t].source
            /\ op = "continue" => write.granted = txn[t].granted
  PROVE  Begun(p)
<1> DEFINE r == req'[p]
<1>1. /\ req' \in [Requests -> Request]
      /\ Others(p)
      /\ req[p].pc = "idle"
      /\ txn[t].stage # "absent"
      /\ r.pc = "read" /\ r.op = op /\ r.t = t /\ r.c = c
      /\ r.at = now /\ r.seen = txn[t] /\ r.write = write
  BY BeginStep
<1>2. UNCHANGED <<now, txn, rows, history>>
  BY DEF Begin
<1> HIDE DEF r
<1>3. r.op # "password" => Follows(r.op, r.c, r.seen, r.write)
  BY <1>1
<1>4. /\ r.pc = "read" /\ r.op # "none" /\ r.at = now
      /\ r.t \in Txns /\ r.seen = txn[r.t] /\ r.seen.stage # "absent"
      /\ r.op \notin {"deny", "continue"} => r.c \in Contacts
  BY <1>1
<1>5. \/ r.write.source # "remembered_grant"
      \/ /\ r.op # "password"
         /\ r.write.source = r.seen.source
         /\ r.op = "continue" => r.write.granted = r.seen.granted
  BY <1>1
<1>6. QED BY <1>1, <1>2, <1>3, <1>4, <1>5 DEF Begun, r

LEMMA BeginsFollow ==
  ASSUME TypeOK, RecordsWellFormed, NEW p \in Requests, Begins(p)
  PROVE  Begun(p)
<1>1. PICK t \in Txns :
        \/ \E c \in Contacts : BeginRegister(p, t, c) \/ BeginPassword(p, t, c)
        \/ BeginVerify(p, t)
        \/ BeginSkip(p, t)
        \/ \E op \in {"grant", "remember"} : BeginGrant(p, t, op)
        \/ BeginDeny(p, t)
        \/ BeginContinue(p, t)
  BY DEF Begins
<1>2. txn[t] \in Txn /\ now \in Nat /\ None \in Contacts \cup {None}
  BY DEF TypeOK
<1>3. /\ txn[t].stage \in Past \cup {"verification"} => txn[t].identity \in Contacts
      /\ txn[t].identity \in Contacts \cup {None}
  BY <1>2 DEF RecordsWellFormed, WellFormed, Txn
<1>4. ASSUME NEW c \in Contacts, BeginRegister(p, t, c) PROVE Begun(p)
  <2> DEFINE write == BeginRegistration(txn[t], c, now + ChallengeLifetime)
  <2>1. CanBeginRegistration(txn[t], now) /\ Begin(p, "register", t, c, write)
    BY <1>4 DEF BeginRegister
  <2>2. now + ChallengeLifetime \in Nat
    BY <1>2, FlowAssumption
  <2>3. write \in Txn /\ Follows("register", c, txn[t], write) /\ write.source = txn[t].source
    BY <1>2, <2>1, <2>2, RegistrationFollows
  <2> HIDE DEF write
  <2>4. QED BY <2>1, <2>3, BegunBy DEF Operation
<1>5. ASSUME NEW c \in Contacts, BeginPassword(p, t, c) PROVE Begun(p)
  <2>1. NoTxn.source # "remembered_grant"
    BY DEF NoTxn
  <2>2. QED BY <1>5, <2>1, NoTxnTyped, BegunBy DEF BeginPassword, Operation
<1>6. CASE BeginVerify(p, t)
  <2> DEFINE write == CompleteVerification(txn[t])
  <2>1. CanVerify(txn[t], now) /\ Begin(p, "verify", t, txn[t].identity, write)
    BY <1>6 DEF BeginVerify
  <2>2. /\ write \in Txn /\ Follows("verify", txn[t].identity, txn[t], write)
        /\ write.source = txn[t].source
    BY <1>2, <2>1, VerificationFollows
  <2>3. txn[t].identity \in Contacts
    BY <1>3, <2>1 DEF CanVerify
  <2> HIDE DEF write
  <2>4. QED BY <2>1, <2>2, <2>3, BegunBy DEF Operation
<1>7. CASE BeginSkip(p, t)
  <2> DEFINE write == SkipMFA(txn[t])
  <2>1. CanSkipMFA(txn[t], now) /\ Begin(p, "skip", t, txn[t].identity, write)
    BY <1>7 DEF BeginSkip
  <2>2. /\ write \in Txn /\ Follows("skip", txn[t].identity, txn[t], write)
        /\ write.source = txn[t].source
    BY <1>2, <2>1, SkipFollows
  <2>3. txn[t].identity \in Contacts
    BY <1>3, <2>1 DEF CanSkipMFA, Past
  <2> HIDE DEF write
  <2>4. QED BY <2>1, <2>2, <2>3, BegunBy DEF Operation
<1>8. ASSUME NEW op \in {"grant", "remember"}, BeginGrant(p, t, op) PROVE Begun(p)
  <2>1. PICK scopes \in SUBSET txn[t].requested :
          /\ CanAuthorize(txn[t], scopes, now)
          /\ Begin(p, op, t, txn[t].identity, AuthorizeScopes(txn[t], scopes, "user_consent"))
    BY <1>8 DEF BeginGrant
  <2> DEFINE write == AuthorizeScopes(txn[t], scopes, "user_consent")
  <2>2. scopes \in SUBSET Scopes /\ "user_consent" \in Source
    BY <1>2 DEF Txn, Source
  <2>3. txn[t].stage = "consent" /\ txn[t].identity \in Contacts
    BY <1>3, <2>1 DEF CanAuthorize, Past
  <2>4. /\ write \in Txn /\ write.stage = "ready" /\ write.identity = txn[t].identity
        /\ write.requested = txn[t].requested /\ write.source = "user_consent"
    BY <1>2, <2>2, ScopesAuthorized
  <2> HIDE DEF write
  <2>5. Follows(op, txn[t].identity, txn[t], write)
    BY <2>3, <2>4 DEF Follows
  <2>6. Begin(p, op, t, txn[t].identity, write)
    BY <2>1 DEF write
  <2>7. QED BY <2>3, <2>4, <2>5, <2>6, BegunBy DEF Operation
<1>9. CASE BeginDeny(p, t)
  <2> DEFINE write == Finish(txn[t], "denied")
  <2>1. CanDeny(txn[t], now) /\ Begin(p, "deny", t, None, write)
    BY <1>9 DEF BeginDeny
  <2>2. /\ write \in Txn /\ write.stage = "denied" /\ write.identity = txn[t].identity
        /\ write.requested = txn[t].requested /\ write.source = txn[t].source
    BY <1>2, FinishFollows
  <2> HIDE DEF write
  <2>3. Follows("deny", None, txn[t], write)
    BY <2>1, <2>2 DEF Follows, CanDeny
  <2>4. QED BY <2>1, <2>2, <2>3, <1>2, BegunBy DEF Operation
<1>10. CASE BeginContinue(p, t)
  <2> DEFINE write == Finish(txn[t], "completed")
  <2>1. CanComplete(txn[t], now) /\ Begin(p, "continue", t, None, write)
    BY <1>10 DEF BeginContinue
  <2>2. /\ write \in Txn /\ write.stage = "completed" /\ write.identity = txn[t].identity
        /\ write.requested = txn[t].requested /\ write.source = txn[t].source
        /\ write.granted = txn[t].granted
    BY <1>2, FinishFollows
  <2> HIDE DEF write
  <2>3. Follows("continue", None, txn[t], write)
    BY <2>1, <2>2 DEF Follows, CanComplete
  <2>4. QED BY <2>1, <2>2, <2>3, <1>2, BegunBy DEF Operation
<1>11. QED BY <1>1, <1>4, <1>5, <1>6, <1>7, <1>8, <1>9, <1>10

----------------------------------------------------------------------------
(* Types *)

LEMMA InitialTypes == Init => TypeOK
<1> SUFFICES ASSUME Init PROVE TypeOK
  OBVIOUS
<1>1. 0 \in Nat /\ Unlocked(0) \in AuthState /\ Locked(0) \in AuthState
  BY UnlockedTyped, FlowAssumption DEF Locked, AuthState
<1>2. password \in [Contacts -> AuthState] /\ grant \in [Contacts -> Grant]
  BY <1>1 DEF Init, Grant
<1>3. consented \in [Contacts -> SUBSET Scopes]
  BY <1>2 DEF Init, Grant
<1>4. QED BY <1>2, <1>3, NoTxnTyped, IdleTyped DEF Init, TypeOK

LEMMA TypePreserved ==
  ASSUME TypeOK, RecordsWellFormed, RequestsSound, [Next]_vars
  PROVE  TypeOK'
<1>1. CASE UNCHANGED vars
  BY <1>1 DEF vars, rows, history, TypeOK
<1>2. CASE Tick
  BY <1>2 DEF Tick, rows, history, TypeOK
<1>3. ASSUME NEW t \in Txns, StartAuthorization(t) PROVE TypeOK'
  <2>1. PICK requested \in SUBSET Scopes \ {{}} :
          txn' = [txn EXCEPT ![t] = New(requested, now + TxnLifetime)]
    BY <1>3 DEF StartAuthorization
  <2>2. New(requested, now + TxnLifetime) \in Txn
    BY NewTyped, FlowAssumption DEF TypeOK
  <2>3. QED BY <1>3, <2>1, <2>2 DEF StartAuthorization, rows, history, TypeOK
<1>4. ASSUME NEW p \in Requests, Begins(p) PROVE TypeOK'
  BY <1>4, BeginsFollow DEF Begun, rows, history, TypeOK
<1>5. ASSUME NEW p \in Requests, Proceeds(p) PROVE TypeOK'
  <2> DEFINE r == req[p]
  <2>1. r \in Request /\ r.at \in Nat /\ r.row \in AuthState /\ r.write \in Txn /\ InPhase(r)
    BY DEF TypeOK, Request, RequestsSound, Sound
  <2>2. r.op \notin {"none", "deny", "continue"} => r.c \in Contacts
    BY <2>1 DEF InPhase
  <2>3. ASSUME r.op # "password" \/ r.right, r.op # "none" PROVE r.t \in Txns
    BY <2>1, <2>3 DEF InPhase
  <2> HIDE DEF r
  <2>4. ASSUME StoreThenCommit(p), r.op # "password" \/ r.right, r.op # "none" PROVE TypeOK'
    BY <2>3, <2>4, StoreTyped, ToStored DEF StoreThenCommit, rows, TypeOK, r
  <2>5. ASSUME StoreAndEnd(p, req[p].write), r.op \notin {"none", "password"} PROVE TypeOK'
    BY <2>3, <2>5, StoreTyped, ToIdle DEF StoreAndEnd, rows, TypeOK, r
  <2>6. CASE StoreRegistration(p) \/ StoreVerification(p) \/ StoreAuthentication(p)
             \/ StoreRemembered(p)
    BY <2>4, <2>6 DEF StoreRegistration, StoreVerification, StoreAuthentication,
       StoreRemembered, r
  <2>7. CASE StoreSkip(p) \/ StoreAnswer(p) \/ StoreCompleted(p)
    BY <2>5, <2>7 DEF StoreSkip, StoreAnswer, StoreCompleted, r
  <2>8. CASE CommitRegistration(p)
    <3>1. r.c \in Contacts /\ r.t \in Txns /\ Unlocked(r.at) \in AuthState
      BY <2>1, <2>2, <2>3, <2>8, UnlockedTyped DEF CommitRegistration, r
    <3>2. QED BY <2>8, <3>1, ToIdle DEF CommitRegistration, TypeOK, r
  <2>9. CASE CommitVerification(p)
    BY <2>9, ToIdle DEF CommitVerification, history, TypeOK
  <2>10. CASE ReadPassword(p)
    <3>1. r.c \in Contacts
      BY <2>2, <2>10 DEF ReadPassword, r
    <3>2. QED BY <2>10, <3>1, PasswordRead DEF ReadPassword, rows, history, TypeOK, r
  <2>11. CASE CommitFailedAttempt(p)
    <3>1. FailedAttempt(r.row, r.at) \in AuthState
      BY <2>1, FailedAttemptTyped
    <3>2. QED BY <2>11, <3>1, ToIdle DEF CommitFailedAttempt, history, TypeOK, r
  <2>12. CASE CommitAuthentication(p)
    <3>1. Unlocked(r.at) \in AuthState
      BY <2>1, UnlockedTyped
    <3>2. QED BY <2>12, <3>1, ToIdle DEF CommitAuthentication, history, TypeOK, r
  <2>13. CASE ReadFacts(p)
    BY <2>13, FactsRead DEF ReadFacts, rows, history, TypeOK
  <2>14. CASE LoadGrant(p)
    <3>1. Step(p, "inserting") \/ Step(p, "updating")
      BY <2>14 DEF LoadGrant
    <3>2. req' \in [Requests -> Request]
      BY <3>1, StepMoves
    <3>3. r.c \in Contacts /\ r.write.granted \in SUBSET Scopes
      BY <2>1, <2>2, <2>14 DEF LoadGrant, Txn, r
    <3>4. consented' \in [Contacts -> SUBSET Scopes]
      BY <2>14, <3>3 DEF LoadGrant, TypeOK, r
    <3>5. QED BY <2>14, <3>2, <3>4 DEF LoadGrant, rows, TypeOK
  <2>15. CASE CommitGrant(p)
    <3>1. [scopes |-> r.write.granted, updated |-> r.at] \in Grant
      BY <2>1 DEF Grant, Txn
    <3>2. QED BY <2>15, <3>1, ToIdle DEF CommitGrant, history, TypeOK, r
  <2>16. CASE StoreCode(p)
    <3>1. Step(p, "minted")
      BY <2>16 DEF StoreCode
    <3>2. codes' \in [Txns -> Nat]
      <4>1. codes' = codes \/ codes' = [codes EXCEPT ![req[p].t] = @ + 1]
        BY <2>16 DEF StoreCode
      <4>2. QED BY <4>1 DEF TypeOK
    <3>3. QED BY <2>16, <3>1, <3>2, StepMoves DEF StoreCode, rows, TypeOK
  <2>17. CASE Fail(p)
    <3>1. lost' \in [Txns -> BOOLEAN]
      BY <2>17 DEF Fail, TypeOK
    <3>2. QED BY <2>17, <3>1, ToIdle DEF Fail, rows, TypeOK
  <2>18. QED BY <1>5, <2>6, <2>7, <2>8, <2>9, <2>10, <2>11, <2>12, <2>13, <2>14, <2>15,
              <2>16, <2>17 DEF Proceeds
<1>6. QED BY <1>1, <1>2, <1>3, <1>4, <1>5 DEF Next

----------------------------------------------------------------------------
(* The shapes of a step *)

(* A step that neither the record nor the rows show. *)
Quiet(p) ==
    LET r == req[p]
        s == req'[p]
    IN  /\ UNCHANGED <<now, txn, rows, late, lost, home>>
        /\ Others(p)
        /\ r.pc \notin {"idle", "stored"} /\ s.pc \notin {"idle", "stored"}
        /\ s.op = r.op /\ s.c = r.c
        /\ \/ s.t = r.t /\ s.seen = r.seen
           \/ s.seen = NoTxn
        /\ Sound(s, now, identity)
        /\ \A c \in Contacts : consented[c] \subseteq consented'[c]

(* A step that stores what the request has decided. *)
Stores(p) ==
    LET r == req[p]
        s == req'[p]
    IN  /\ UNCHANGED <<now, rows, codes, lost, home, consented>>
        /\ Others(p)
        /\ Decided(r)
        /\ r.t \in Txns
        /\ txn'[r.t] = r.write
        /\ late'[r.t] = (late[r.t] \/ txn[r.t] # r.seen)
        /\ \A t \in Txns \ {r.t} : txn'[t] = txn[t] /\ late'[t] = late[t]
        /\ Sound(s, now, identity)
        /\ r.op = "continue" => r.pc = "minted"
        /\ \/ /\ s = Idle
              /\ r.op \notin {"register", "verify"}
           \/ /\ s.pc = "stored"
              /\ RowFree(p)
              /\ s.op = r.op /\ s.t = r.t /\ s.c = r.c
              /\ s.seen = NoTxn
              /\ s.write.source = "none" /\ s.write.granted = r.write.granted
              /\ r.op = "remember" => r.pc \in {"inserting", "updating"}
              /\ r.pc # "minted"

LEMMA QuietPassword ==
  ASSUME IInv, NEW p \in Requests, ReadPassword(p)
  PROVE  Quiet(p)
<1> DEFINE r == req[p]
           s == req'[p]
<1>1. TypeOK /\ r \in Request /\ Sound(r, now, identity)
  BY DEF IInv, TypeOK, RequestsSound
<1>2. r.op = "password" /\ r.pc = "read"
  BY DEF ReadPassword
<1>3. r.c \in Contacts /\ r.t \in Txns /\ WellFormed(r.seen) /\ r.at <= now
  BY <1>1, <1>2 DEF Sound, InPhase, AttemptWasAllowed
<1>4. /\ Others(p) /\ s.op = "password" /\ s.pc = "updating"
      /\ s.c = r.c /\ s.at = r.at
      /\ s.row.lockedUntil <= s.at
      /\ identity[s.c] = "active"
      /\ \/ ~s.right /\ s.seen = NoTxn
         \/ /\ s.right /\ s.t = r.t /\ s.seen = r.seen
            /\ Follows("password", s.c, s.seen, s.write)
  BY <1>1, <1>3, PasswordRead
<1> HIDE DEF s
<1>5. InPhase(s)
  BY <1>3, <1>4 DEF InPhase
<1>6. WellFormed(s.seen)
  BY <1>3, <1>4 DEF WellFormed, NoTxn, Past
<1>7. Decided(s) => Follows(s.op, s.c, s.seen, s.write)
  BY <1>4 DEF Decided
<1>8. AttemptWasAllowed(s, now, identity)
  BY <1>3, <1>4 DEF AttemptWasAllowed
<1>9. RowsWait(s, identity)
  BY <1>4 DEF RowsWait
<1>10. Sound(s, now, identity)
  BY <1>5, <1>6, <1>7, <1>8, <1>9 DEF Sound
<1>11. UNCHANGED <<now, txn, rows, late, lost, home, consented>>
  BY DEF ReadPassword, history
<1>12. QED BY <1>2, <1>4, <1>10, <1>11 DEF Quiet, s

LEMMA QuietFacts ==
  ASSUME IInv, NEW p \in Requests, ReadFacts(p)
  PROVE  Quiet(p)
<1> DEFINE r == req[p]
           s == req'[p]
<1>1. TypeOK /\ r \in Request /\ Sound(r, now, identity)
  BY DEF IInv, TypeOK, RequestsSound
<1>2. /\ Others(p) /\ r.op = "skip" /\ r.pc = "read" /\ s.op = "skip" /\ s.pc = "informed"
      /\ s.t = r.t /\ s.c = r.c /\ s.at = r.at /\ s.seen = r.seen
      /\ \/ s.write = r.write
         \/ /\ s.write.stage = "ready"
            /\ s.write.identity = r.write.identity
            /\ s.write.requested = r.write.requested
  BY <1>1, FactsRead
<1> HIDE DEF s
<1>3. InPhase(s) /\ WellFormed(s.seen) /\ RowsWait(s, identity)
  BY <1>1, <1>2 DEF Sound, InPhase, RowsWait
<1>4. AttemptWasAllowed(s, now, identity)
  BY <1>1, <1>2 DEF Sound, AttemptWasAllowed
<1>5. Decided(s) => Follows(s.op, s.c, s.seen, s.write)
  <2>1. Follows("skip", r.c, r.seen, r.write)
    BY <1>1, <1>2 DEF Sound, Decided
  <2>2. QED BY <1>2, <2>1 DEF Follows
<1>6. Sound(s, now, identity)
  BY <1>3, <1>4, <1>5 DEF Sound
<1>7. UNCHANGED <<now, txn, rows, late, lost, home, consented>>
  BY DEF ReadFacts, history
<1>8. QED BY <1>2, <1>6, <1>7 DEF Quiet, s

(* A handler that only moves on to its next statement stays sound. *)
LEMMA MovedSound ==
  ASSUME IInv, NEW p \in Requests, NEW pc \in {"inserting", "updating", "minted"},
         Step(p, pc), req[p].pc = "read",
         pc = "minted" => req[p].op = "continue",
         pc # "minted" => req[p].op = "remember"
  PROVE  /\ Others(p)
         /\ Sound(req'[p], now, identity)
         /\ req'[p].pc = pc
         /\ req'[p].op = req[p].op /\ req'[p].t = req[p].t /\ req'[p].c = req[p].c
         /\ req'[p].seen = req[p].seen /\ req'[p].write = req[p].write
<1> DEFINE r == req[p]
           s == req'[p]
<1>1. TypeOK /\ Sound(r, now, identity)
  BY DEF IInv, RequestsSound
<1>2. /\ Others(p)
      /\ s.pc = pc
      /\ s.op = r.op /\ s.t = r.t /\ s.c = r.c
      /\ s.at = r.at /\ s.seen = r.seen /\ s.write = r.write
  BY <1>1, StepMoves
<1> HIDE DEF s
<1>3. InPhase(s) /\ WellFormed(s.seen) /\ RowsWait(s, identity)
  BY <1>1, <1>2 DEF Sound, InPhase, RowsWait
<1>4. AttemptWasAllowed(s, now, identity)
  BY <1>1, <1>2 DEF Sound, AttemptWasAllowed
<1>5. Follows(s.op, s.c, s.seen, s.write)
  <2>1. Decided(r)
    BY DEF Decided
  <2>2. QED BY <1>1, <1>2, <2>1 DEF Sound
<1>6. QED BY <1>2, <1>3, <1>4, <1>5 DEF Sound, s

LEMMA QuietGrant ==
  ASSUME IInv, NEW p \in Requests, LoadGrant(p)
  PROVE  Quiet(p) /\ req'[p].write = req[p].write
<1>1. PICK pc \in {"inserting", "updating"} : Step(p, pc)
  BY DEF LoadGrant
<1>2. /\ req[p].op = "remember" /\ req[p].pc = "read"
      /\ UNCHANGED <<now, txn, rows, late, lost, home>>
      /\ consented' = [consented EXCEPT ![req[p].c] = @ \cup req[p].write.granted]
  BY DEF LoadGrant
<1>3. \A c \in Contacts : consented[c] \subseteq consented'[c]
  BY <1>2 DEF IInv, TypeOK
<1>4. QED BY <1>1, <1>2, <1>3, MovedSound DEF Quiet

LEMMA QuietCode ==
  ASSUME IInv, NEW p \in Requests, StoreCode(p)
  PROVE  Quiet(p) /\ req'[p].write = req[p].write
<1>1. /\ Step(p, "minted") /\ req[p].op = "continue" /\ req[p].pc = "read"
      /\ UNCHANGED <<now, txn, rows, late, lost, home, consented>>
  BY DEF StoreCode
<1>2. QED BY <1>1, MovedSound DEF Quiet

LEMMA StoresWithRows ==
  ASSUME IInv, NEW p \in Requests, StoreThenCommit(p), Decided(req[p]),
         req[p].op \in {"register", "verify", "password", "remember"},
         req[p].pc # "minted",
         req[p].op = "register" => identity[req[p].c] = "absent",
         req[p].op = "verify" => identity[req[p].c] = "pending",
         req[p].op = "remember" => req[p].pc \in {"inserting", "updating"}
  PROVE  Stores(p)
<1> DEFINE r == req[p]
           s == req'[p]
<1>1. TypeOK /\ Sound(r, now, identity)
  BY DEF IInv, RequestsSound
<1>2. r.t \in Txns /\ r.c \in Contacts
  BY <1>1 DEF Sound, InPhase, Decided
<1>3. /\ txn'[r.t] = r.write
      /\ late'[r.t] = (late[r.t] \/ txn[r.t] # r.seen)
      /\ \A t \in Txns \ {r.t} : txn'[t] = txn[t] /\ late'[t] = late[t]
  BY <1>1, <1>2, StoreTyped DEF StoreThenCommit
<1>4. /\ Others(p)
      /\ s.pc = "stored" /\ s.op = r.op /\ s.t = r.t /\ s.c = r.c
      /\ s.at = r.at /\ s.row = r.row /\ s.seen = NoTxn
      /\ s.write.source = "none" /\ s.write.granted = r.write.granted
  BY <1>1, ToStored
<1> HIDE DEF s
<1>5. InPhase(s) /\ RowsWait(s, identity)
  BY <1>2, <1>4 DEF InPhase, RowsWait
<1>6. WellFormed(s.seen) /\ ~Decided(s)
  BY <1>4 DEF WellFormed, NoTxn, Past, Decided
<1>7. AttemptWasAllowed(s, now, identity)
  BY <1>1, <1>4, <1>6 DEF Sound, AttemptWasAllowed, Decided
<1>8. Sound(s, now, identity)
  BY <1>5, <1>6, <1>7 DEF Sound
<1>9. RowFree(p) /\ UNCHANGED <<now, rows, codes, lost, home, consented>>
  BY DEF StoreThenCommit
<1>10. QED BY <1>2, <1>3, <1>4, <1>8, <1>9 DEF Stores, s

LEMMA StoresAlone ==
  ASSUME IInv, NEW p \in Requests, StoreAndEnd(p, req[p].write), Decided(req[p]),
         req[p].op \notin {"none", "register", "verify", "password"},
         req[p].op = "continue" => req[p].pc = "minted"
  PROVE  Stores(p)
<1> DEFINE r == req[p]
<1>1. TypeOK /\ Sound(r, now, identity)
  BY DEF IInv, RequestsSound
<1>2. r.t \in Txns
  BY <1>1 DEF Sound, InPhase
<1>3. /\ txn'[r.t] = r.write
      /\ late'[r.t] = (late[r.t] \/ txn[r.t] # r.seen)
      /\ \A t \in Txns \ {r.t} : txn'[t] = txn[t] /\ late'[t] = late[t]
  BY <1>1, <1>2, StoreTyped DEF StoreAndEnd
<1>4. Others(p) /\ req'[p] = Idle
  BY <1>1, ToIdle DEF StoreAndEnd
<1>5. Sound(req'[p], now, identity)
  BY <1>1, <1>4, IdleSound DEF TypeOK
<1>6. UNCHANGED <<now, rows, codes, lost, home, consented>>
  BY DEF StoreAndEnd
<1>7. QED BY <1>2, <1>3, <1>4, <1>5, <1>6 DEF Stores

QuietStep(p) == ReadPassword(p) \/ ReadFacts(p) \/ LoadGrant(p) \/ StoreCode(p)

EndStep(p) ==
    \/ CommitRegistration(p) \/ CommitVerification(p)
    \/ CommitFailedAttempt(p) \/ CommitAuthentication(p)
    \/ CommitGrant(p)
    \/ Fail(p)

LEMMA StepShapes ==
  ASSUME IInv, [Next]_vars
  PROVE  \/ UNCHANGED vars
         \/ Tick
         \/ \E t \in Txns : StartAuthorization(t)
         \/ \E p \in Requests : \/ Begun(p)
                                \/ QuietStep(p) /\ Quiet(p)
                                \/ Stores(p)
                                \/ EndStep(p)
<1>1. TypeOK /\ RecordsWellFormed
  BY DEF IInv
<1>2. ASSUME NEW p \in Requests, Proceeds(p)
      PROVE  (QuietStep(p) /\ Quiet(p)) \/ Stores(p) \/ EndStep(p)
  <2>1. CASE StoreRegistration(p)
    BY <2>1, StoresWithRows DEF StoreRegistration, Decided
  <2>2. CASE StoreVerification(p)
    BY <2>2, StoresWithRows DEF StoreVerification, Decided
  <2>3. CASE StoreAuthentication(p)
    BY <2>3, StoresWithRows DEF StoreAuthentication, Decided
  <2>4. CASE StoreRemembered(p)
    BY <2>4, StoresWithRows DEF StoreRemembered, Decided
  <2>5. CASE StoreSkip(p)
    BY <2>5, StoresAlone DEF StoreSkip, Decided
  <2>6. CASE StoreAnswer(p)
    BY <2>6, StoresAlone DEF StoreAnswer, Decided
  <2>7. CASE StoreCompleted(p)
    BY <2>7, StoresAlone DEF StoreCompleted, Decided
  <2>8. CASE QuietStep(p)
    BY <2>8, QuietPassword, QuietFacts, QuietGrant, QuietCode DEF QuietStep
  <2>9. QED BY <1>2, <2>1, <2>2, <2>3, <2>4, <2>5, <2>6, <2>7, <2>8
           DEF Proceeds, QuietStep, EndStep
<1>3. QED BY <1>1, <1>2, BeginsFollow DEF Next

LEMMA EndStepEnds ==
  ASSUME IInv, NEW p \in Requests, EndStep(p)
  PROVE  /\ Others(p)
         /\ req'[p] = Idle
         /\ req[p].op # "none"
         /\ UNCHANGED <<now, txn, late, codes, consented>>
<1>1. TypeOK /\ InPhase(req[p])
  BY DEF IInv, RequestsSound, Sound
<1>2. req' = [req EXCEPT ![p] = Idle]
  BY DEF EndStep, CommitRegistration, CommitVerification, CommitFailedAttempt,
     CommitAuthentication, CommitGrant, Fail
<1>3. UNCHANGED <<now, txn, late, codes, consented>>
  BY DEF EndStep, CommitRegistration, CommitVerification, CommitFailedAttempt,
     CommitAuthentication, CommitGrant, Fail, history
<1>4. req[p].op # "none"
  BY <1>1 DEF EndStep, CommitRegistration, CommitVerification, CommitFailedAttempt,
     CommitAuthentication, CommitGrant, Fail, InPhase
<1>5. QED BY <1>1, <1>2, <1>3, <1>4, ToIdle

(* Who changes the status of an identity, and from what to what. *)
LEMMA StatusChange ==
  ASSUME IInv, NEW p \in Requests, EndStep(p)
  PROVE  \/ identity' = identity
         \/ /\ CommitRegistration(p)
            /\ req[p].c \in Contacts /\ identity[req[p].c] = "absent"
            /\ identity' = [identity EXCEPT ![req[p].c] = "pending"]
         \/ /\ CommitVerification(p)
            /\ req[p].c \in Contacts /\ identity[req[p].c] = "pending"
            /\ identity' = [identity EXCEPT ![req[p].c] = "active"]
<1>1. InPhase(req[p]) /\ RowsWait(req[p], identity)
  BY DEF IInv, RequestsSound, Sound
<1>2. CASE CommitRegistration(p)
  BY <1>1, <1>2 DEF CommitRegistration, InPhase, RowsWait
<1>3. CASE CommitVerification(p)
  BY <1>1, <1>3 DEF CommitVerification, InPhase, RowsWait
<1>4. CASE \/ CommitFailedAttempt(p) \/ CommitAuthentication(p) \/ CommitGrant(p)
           \/ Fail(p)
  BY <1>4 DEF CommitFailedAttempt, CommitAuthentication, CommitGrant, Fail, rows
<1>5. QED BY <1>2, <1>3, <1>4 DEF EndStep

----------------------------------------------------------------------------
(* The parts of the invariant, one by one *)

LEMMA RecordsPreserved ==
  ASSUME IInv, TypeOK', [Next]_vars
  PROVE  RecordsWellFormed'
<1>1. TypeOK /\ RecordsWellFormed
  BY DEF IInv
<1>2. CASE txn' = txn
  BY <1>1, <1>2 DEF RecordsWellFormed
<1>3. ASSUME NEW t \in Txns, StartAuthorization(t) PROVE RecordsWellFormed'
  <2>1. PICK requested \in SUBSET Scopes \ {{}} :
          txn' = [txn EXCEPT ![t] = New(requested, now + TxnLifetime)]
    BY <1>3 DEF StartAuthorization
  <2>2. WellFormed(New(requested, now + TxnLifetime))
    BY NewTyped, FlowAssumption DEF IInv, TypeOK, WellFormed, Past
  <2>3. QED BY <1>1, <2>1, <2>2 DEF RecordsWellFormed, TypeOK
<1>4. ASSUME NEW p \in Requests, Stores(p) PROVE RecordsWellFormed'
  <2>1. req[p] \in Request /\ Sound(req[p], now, identity)
    BY DEF IInv, TypeOK, RequestsSound
  <2>2. /\ req[p].op \in Operation \ {"none"}
        /\ req[p].seen \in Txn /\ req[p].write \in Txn
        /\ req[p].op \notin {"deny", "continue"} => req[p].c \in Contacts
        /\ WellFormed(req[p].seen)
        /\ Follows(req[p].op, req[p].c, req[p].seen, req[p].write)
    BY <1>4, <2>1 DEF Stores, Decided, Sound, InPhase, Request
  <2>3. WellFormed(req[p].write)
    BY <2>2, FollowsAdvances
  <2>4. QED BY <1>1, <1>4, <2>3 DEF Stores, RecordsWellFormed
<1>5. QED BY <1>2, <1>3, <1>4, StepShapes, EndStepEnds DEF vars, Tick, Begun, Quiet

LEMMA RequestsPreserved ==
  ASSUME IInv, TypeOK', [Next]_vars
  PROVE  RequestsSound'
<1>1. /\ TypeOK /\ RequestsSound /\ RecordsWellFormed
      /\ \A q \in Requests : req[q] \in Request
      /\ now \in Nat /\ now' \in Nat
  BY DEF IInv, TypeOK
<1>2. ASSUME NEW p \in Requests, Others(p), now' = now, identity' = identity,
             Sound(req'[p], now, identity)
      PROVE  RequestsSound'
  BY <1>1, <1>2 DEF RequestsSound, Others
<1>3. CASE UNCHANGED vars
  BY <1>1, <1>3 DEF vars, rows, RequestsSound
<1>4. CASE Tick
  <2>1. now <= now' /\ req' = req /\ identity' = identity
    BY <1>1, <1>4 DEF Tick, rows
  <2>2. ASSUME NEW q \in Requests PROVE Sound(req[q], now', identity)
    BY <1>1, <2>1, SoundFrame DEF RequestsSound, Sound
  <2>3. QED BY <2>1, <2>2 DEF RequestsSound
<1>5. ASSUME NEW t \in Txns, StartAuthorization(t) PROVE RequestsSound'
  BY <1>1, <1>5 DEF StartAuthorization, rows, RequestsSound
<1>6. ASSUME NEW p \in Requests, Begun(p) PROVE RequestsSound'
  <2> DEFINE s == req'[p]
  <2>1. /\ Others(p) /\ now' = now /\ identity' = identity
        /\ s.pc = "read" /\ s.op # "none" /\ s.at = now
        /\ s.t \in Txns /\ s.seen = txn[s.t]
        /\ s.op \notin {"deny", "continue"} => s.c \in Contacts
        /\ s.op # "password" => Follows(s.op, s.c, s.seen, s.write)
    BY <1>6 DEF Begun, rows
  <2> HIDE DEF s
  <2>2. InPhase(s) /\ RowsWait(s, identity)
    BY <2>1 DEF InPhase, RowsWait
  <2>3. WellFormed(s.seen)
    BY <1>1, <2>1 DEF RecordsWellFormed
  <2>4. Decided(s) => Follows(s.op, s.c, s.seen, s.write)
    BY <2>1 DEF Decided
  <2>5. AttemptWasAllowed(s, now, identity)
    BY <1>1, <2>1 DEF AttemptWasAllowed, Decided
  <2>6. Sound(s, now, identity)
    BY <2>2, <2>3, <2>4, <2>5 DEF Sound
  <2>7. QED BY <1>2, <2>1, <2>6 DEF s
<1>7. ASSUME NEW p \in Requests, Quiet(p) \/ Stores(p) PROVE RequestsSound'
  BY <1>2, <1>7 DEF Quiet, Stores, rows
<1>8. ASSUME NEW p \in Requests, EndStep(p) PROVE RequestsSound'
  <2>1. Others(p) /\ req'[p] = Idle /\ now' = now
    BY <1>8, EndStepEnds
  <2>2. \A c \in Contacts : identity[c] = "active" => identity'[c] = "active"
    BY <1>1, <1>8, StatusChange DEF TypeOK
  <2>3. ASSUME NEW q \in Requests \ {p} PROVE RowsWait(req[q], identity')
    <3>1. RowsWait(req[q], identity) /\ InPhase(req[q])
      BY <1>1 DEF RequestsSound, Sound
    <3>2. req[q].op \in {"register", "verify"} => req[q].c \in Contacts
      BY <3>1 DEF InPhase
    <3>3. CASE identity' = identity
      BY <3>1, <3>3
    <3>4. CASE /\ CommitRegistration(p)
               /\ identity[req[p].c] = "absent"
               /\ identity' = [identity EXCEPT ![req[p].c] = "pending"]
      <4>1. req[p].op = "register" /\ req[p].pc = "stored"
        BY <3>4 DEF CommitRegistration
      <4>2. req[q].op = "register" /\ req[q].pc = "stored" => req[q].c # req[p].c
        BY <4>1 DEF IInv, StoredAlone
      <4>3. QED BY <1>1, <3>1, <3>2, <3>4, <4>2 DEF RowsWait, TypeOK
    <3>5. CASE /\ CommitVerification(p)
               /\ identity[req[p].c] = "pending"
               /\ identity' = [identity EXCEPT ![req[p].c] = "active"]
      <4>1. req[p].op = "verify" /\ req[p].pc = "stored"
        BY <3>5 DEF CommitVerification
      <4>2. req[q].op = "verify" /\ req[q].pc = "stored" => req[q].c # req[p].c
        BY <4>1 DEF IInv, StoredAlone
      <4>3. QED BY <1>1, <3>1, <3>2, <3>5, <4>2 DEF RowsWait, TypeOK
    <3>6. QED BY <1>8, <3>3, <3>4, <3>5, StatusChange
  <2>4. ASSUME NEW q \in Requests \ {p} PROVE Sound(req[q], now, identity')
    <3>1. Sound(req[q], now, identity) /\ now <= now
      BY <1>1 DEF RequestsSound
    <3>2. QED BY <1>1, <2>2, <2>3, <3>1, SoundFrame
  <2>5. Sound(Idle, now, identity')
    BY <1>1, IdleSound
  <2>6. QED BY <2>1, <2>4, <2>5 DEF RequestsSound, Others
<1>9. QED BY <1>3, <1>4, <1>5, <1>6, <1>7, <1>8, StepShapes

LEMMA StoredAlonePreserved ==
  ASSUME IInv, TypeOK', [Next]_vars
  PROVE  StoredAlone'
<1>1. StoredAlone
  BY DEF IInv
<1>2. CASE req' = req
  BY <1>1, <1>2 DEF StoredAlone
<1>3. ASSUME NEW p \in Requests, Others(p), req'[p].pc # "stored" PROVE StoredAlone'
  BY <1>1, <1>3 DEF StoredAlone, Others
<1>4. ASSUME NEW p \in Requests, Stores(p), req'[p].pc = "stored" PROVE StoredAlone'
  <2>1. /\ Others(p) /\ RowFree(p)
        /\ req'[p].op = req[p].op /\ req'[p].c = req[p].c
    BY <1>4, IdleTyped DEF Stores
  <2>2. ASSUME NEW q \in Requests \ {p}, req'[q].pc = "stored", req'[q].op = req'[p].op,
               req'[q].c = req'[p].c
        PROVE  FALSE
    BY <2>1, <2>2 DEF RowFree, Others
  <2>3. ASSUME NEW q \in Requests \ {p}, NEW u \in Requests \ {p},
               req'[q].pc = "stored", req'[u].pc = "stored", req'[q].op = req'[u].op,
               req'[q].c = req'[u].c
        PROVE  q = u
    BY <1>1, <2>1, <2>3 DEF StoredAlone, Others
  <2>4. QED BY <2>2, <2>3 DEF StoredAlone
<1>5. ASSUME NEW p \in Requests, Begun(p) \/ Quiet(p) PROVE StoredAlone'
  BY <1>3, <1>5 DEF Begun, Quiet
<1>6. ASSUME NEW p \in Requests, EndStep(p) PROVE StoredAlone'
  BY <1>3, <1>6, EndStepEnds, IdleTyped
<1>7. ASSUME NEW p \in Requests, Stores(p), req'[p].pc # "stored" PROVE StoredAlone'
  BY <1>3, <1>7 DEF Stores
<1>8. QED BY <1>2, <1>4, <1>5, <1>6, <1>7, StepShapes
         DEF vars, Tick, StartAuthorization

LEMMA AbsentPreserved ==
  ASSUME IInv, TypeOK', [Next]_vars
  PROVE  AbsentIsUnlocked'
<1>1. TypeOK /\ AbsentIsUnlocked
  BY DEF IInv
<1>2. CASE identity' = identity /\ password' = password
  BY <1>1, <1>2 DEF AbsentIsUnlocked
<1>3. ASSUME NEW p \in Requests, EndStep(p) PROVE AbsentIsUnlocked'
  <2> DEFINE r == req[p]
  <2>1. r \in Request /\ Sound(r, now, identity)
    BY <1>1 DEF IInv, RequestsSound, TypeOK
  <2>2. \A c \in Contacts : identity'[c] = "absent" => identity[c] = "absent"
    BY <1>1, <1>3, StatusChange DEF TypeOK
  <2>3. CASE CommitRegistration(p) \/ CommitAuthentication(p)
    <3>1. r.at \in Nat /\ password' = [password EXCEPT ![r.c] = Unlocked(r.at)]
      BY <2>1, <2>3 DEF CommitRegistration, CommitAuthentication, Request
    <3>2. Unlocked(r.at).lockedUntil = 0
      BY <3>1, UnlockedTyped
    <3>3. QED BY <1>1, <2>2, <3>1, <3>2 DEF AbsentIsUnlocked, TypeOK
  <2>4. CASE CommitFailedAttempt(p)
    <3>1. identity' = identity
      BY <2>4 DEF CommitFailedAttempt
    <3>2. \E row : password' = [password EXCEPT ![r.c] = row]
      BY <2>4 DEF CommitFailedAttempt
    <3>3. CASE identity[r.c] # "absent"
      BY <1>1, <3>1, <3>2, <3>3 DEF AbsentIsUnlocked, TypeOK
    <3>4. identity[r.c] = "active"
      BY <2>1, <2>4 DEF CommitFailedAttempt, Sound, AttemptWasAllowed
    <3>5. QED BY <3>3, <3>4
  <2>5. CASE CommitVerification(p) \/ CommitGrant(p) \/ Fail(p)
    <3>1. password' = password
      BY <2>5 DEF CommitVerification, CommitGrant, Fail, rows
    <3>2. QED BY <1>1, <2>2, <3>1 DEF AbsentIsUnlocked
  <2>6. QED BY <1>3, <2>3, <2>4, <2>5 DEF EndStep
<1>4. QED BY <1>2, <1>3, StepShapes
         DEF vars, Tick, StartAuthorization, Begun, Quiet, Stores, rows

(* A verification in Redis stays there until it commits or fails. *)
LEMMA VerifyingEnds ==
  ASSUME IInv, [Next]_vars, NEW t \in Txns, NEW c \in Contacts, Verifying(t, c)
  PROVE  \/ Verifying(t, c)'
         \/ identity'[c] = "active"
         \/ lost'[t] /\ \E p \in Requests : CutsOff(p, t)
<1>1. TypeOK
  BY DEF IInv
<1>2. PICK q \in Requests :
        req[q].op = "verify" /\ req[q].pc = "stored" /\ req[q].t = t /\ req[q].c = c
  BY DEF Verifying
<1>3. CASE req'[q] = req[q]
  BY <1>2, <1>3 DEF Verifying
<1>4. ASSUME NEW p \in Requests, Others(p), p # q PROVE req'[q] = req[q]
  BY <1>4 DEF Others
<1>5. CASE EndStep(q)
  <2>1. CASE CommitVerification(q)
    BY <1>1, <1>2, <2>1 DEF CommitVerification, TypeOK
  <2>2. CASE Fail(q)
    <3>1. lost'[t]
      BY <1>1, <1>2, <2>2 DEF Fail, TypeOK
    <3>2. req'[q] # req[q]
      BY <1>2, <1>5, EndStepEnds, IdleTyped
    <3>3. QED BY <1>2, <3>1, <3>2 DEF CutsOff
  <2>3. QED BY <1>2, <1>5, <2>1, <2>2 DEF EndStep, CommitRegistration,
           CommitFailedAttempt, CommitAuthentication, CommitGrant
<1>6. ASSUME NEW p \in Requests, Begun(p) \/ Quiet(p) \/ Stores(p) PROVE req'[q] = req[q]
  BY <1>2, <1>4, <1>6 DEF Begun, Quiet, Stores, Decided
<1>7. ASSUME NEW p \in Requests, EndStep(p), p # q PROVE req'[q] = req[q]
  BY <1>4, <1>7, EndStepEnds
<1>8. QED BY <1>3, <1>5, <1>6, <1>7, StepShapes DEF vars, Tick, StartAuthorization

LEMMA GhostsGrow ==
  ASSUME IInv, [Next]_vars, NEW t \in Txns
  PROVE  /\ late[t] => late'[t]
         /\ lost[t] => lost'[t]
         /\ \A c \in Contacts : identity[c] = "active" => identity'[c] = "active"
         /\ \A c \in Contacts : consented[c] \subseteq consented'[c]
<1>1. TypeOK
  BY DEF IInv
<1>2. CASE UNCHANGED <<rows, history>>
  BY <1>2 DEF rows, history
<1>3. ASSUME NEW p \in Requests, Quiet(p) \/ Stores(p)
      PROVE  /\ late[t] => late'[t]
             /\ lost[t] => lost'[t]
             /\ identity' = identity
             /\ \A c \in Contacts : consented[c] \subseteq consented'[c]
  BY <1>3 DEF Quiet, Stores, rows
<1>4. ASSUME NEW p \in Requests, EndStep(p)
      PROVE  /\ late' = late
             /\ lost[t] => lost'[t]
             /\ \A c \in Contacts : identity[c] = "active" => identity'[c] = "active"
             /\ consented' = consented
  <2>1. late' = late /\ consented' = consented
    BY <1>4, EndStepEnds
  <2>2. \A c \in Contacts : identity[c] = "active" => identity'[c] = "active"
    BY <1>1, <1>4, StatusChange DEF TypeOK
  <2>3. CASE Fail(p)
    BY <1>1, <2>1, <2>2, <2>3 DEF Fail, TypeOK
  <2>4. CASE ~Fail(p)
    <3>1. lost' = lost
      BY <1>4, <2>4 DEF EndStep, CommitRegistration, CommitVerification,
         CommitFailedAttempt, CommitAuthentication, CommitGrant, history
    <3>2. QED BY <2>1, <2>2, <3>1
  <2>5. QED BY <2>3, <2>4
<1>5. CASE \/ UNCHANGED vars \/ Tick
           \/ \E u \in Txns : StartAuthorization(u)
           \/ \E p \in Requests : Begun(p)
  BY <1>2, <1>5 DEF vars, Tick, StartAuthorization, Begun
<1>6. QED BY <1>3, <1>4, <1>5, StepShapes

LEMMA ConfirmedStays ==
  ASSUME IInv, [Next]_vars, NEW t \in Txns, NEW c \in Contacts, Confirmed(t, c)
  PROVE  Confirmed(t, c)'
BY VerifyingEnds, GhostsGrow DEF Confirmed

LEMMA ConfirmedPreserved ==
  ASSUME IInv, TypeOK', [Next]_vars
  PROVE  IdentityConfirmed'
<1>1. TypeOK /\ RequestsSound /\ RecordsWellFormed /\ IdentityConfirmed
  BY DEF IInv
<1>2. NoTxn.stage = "absent" /\ Idle.op = "none"
  BY DEF NoTxn, Idle
<1>3. ASSUME NEW t \in Txns, NEW c \in Contacts, txn'[t].stage \in Past,
             txn'[t].identity = c
      PROVE  Confirmed(t, c)'
  <2>1. CASE txn'[t] = txn[t]
    BY <1>1, <1>3, <2>1, ConfirmedStays DEF IdentityConfirmed
  <2>2. ASSUME StartAuthorization(t) PROVE FALSE
    <3>1. PICK requested \in SUBSET Scopes \ {{}} :
            txn' = [txn EXCEPT ![t] = New(requested, now + TxnLifetime)]
      BY <2>2 DEF StartAuthorization
    <3>2. New(requested, now + TxnLifetime).stage = "choose"
      BY <1>1, NewTyped, FlowAssumption DEF TypeOK
    <3>3. QED BY <1>1, <1>3, <3>1, <3>2 DEF TypeOK, Past
  <2>3. ASSUME NEW u \in Txns \ {t}, StartAuthorization(u) PROVE txn'[t] = txn[t]
    BY <1>1, <2>3 DEF StartAuthorization, TypeOK
  <2>4. ASSUME NEW p \in Requests, Stores(p), req[p].t = t PROVE Confirmed(t, c)'
    <3> DEFINE r == req[p]
    <3>1. /\ r \in Request /\ InPhase(r) /\ Decided(r)
          /\ txn'[t] = r.write /\ r.write.stage \in Past /\ r.write.identity = c
          /\ r.op \in Operation \ {"none"}
          /\ Follows(r.op, r.c, r.seen, r.write)
          /\ AttemptWasAllowed(r, now, identity)
      BY <1>1, <1>3, <2>4 DEF Stores, RequestsSound, Sound, TypeOK, Request, Decided, InPhase
    <3>2. CASE r.op = "register"
      BY <3>1, <3>2 DEF Follows, Past
    <3>3. CASE r.op = "deny"
      BY <3>1, <3>3 DEF Follows, Past
    <3>4. CASE r.op = "verify"
      <4>1. req'[p].pc = "stored" /\ req'[p].op = "verify" /\ req'[p].t = t
            /\ req'[p].c = c
        BY <2>4, <3>1, <3>4 DEF Stores, Follows
      <4>2. Verifying(t, c)'
        BY <4>1 DEF Verifying
      <4>3. QED BY <4>2 DEF Confirmed
    <3>5. CASE r.op = "password"
      <4>1. r.c = c /\ identity[c] = "active"
        BY <3>1, <3>5 DEF Follows, AttemptWasAllowed, Decided
      <4>2. QED BY <4>1, ConfirmedStays DEF Confirmed
    <3>6. CASE r.op \in {"skip", "grant", "remember", "continue"}
      <4>1. r.seen.stage \in Past /\ r.seen.identity = c
        BY <3>1, <3>6 DEF Follows, Past
      <4>2. Confirmed(t, c)
        BY <1>1, <2>4, <3>1, <4>1 DEF IdentityConfirmed
      <4>3. QED BY <4>2, ConfirmedStays
    <3>7. QED BY <3>1, <3>2, <3>3, <3>4, <3>5, <3>6 DEF Operation
  <2>5. ASSUME NEW p \in Requests, Stores(p), req[p].t # t PROVE txn'[t] = txn[t]
    BY <2>5 DEF Stores
  <2>6. QED BY <2>1, <2>2, <2>3, <2>4, <2>5, StepShapes, EndStepEnds
           DEF vars, Tick, Begun, Quiet
<1>4. ASSUME NEW t \in Txns, NEW c \in Contacts, NEW q \in Requests,
             req'[q].op # "none", req'[q].t = t,
             req'[q].seen.stage \in Past, req'[q].seen.identity = c
      PROVE  Confirmed(t, c)'
  <2>1. ASSUME req[q].op # "none", req[q].t = t, req[q].seen = req'[q].seen
        PROVE  Confirmed(t, c)'
    BY <1>1, <1>4, <2>1, ConfirmedStays DEF IdentityConfirmed
  <2>2. CASE req'[q] = req[q]
    BY <1>4, <2>1, <2>2
  <2>3. ASSUME Begun(q) PROVE Confirmed(t, c)'
    <3>1. txn'[t] = txn[t] /\ req'[q].seen = txn[t]
      BY <1>4, <2>3 DEF Begun
    <3>2. QED BY <1>3, <1>4, <3>1
  <2>4. ASSUME Quiet(q) PROVE Confirmed(t, c)'
    <3>1. req'[q].t = req[q].t /\ req'[q].seen = req[q].seen /\ req'[q].op = req[q].op
      BY <1>2, <1>4, <2>4 DEF Quiet, Past
    <3>2. QED BY <1>4, <2>1, <3>1
  <2>5. ASSUME Stores(q) PROVE FALSE
    BY <1>2, <1>4, <2>5 DEF Stores, Past
  <2>6. ASSUME EndStep(q) PROVE FALSE
    BY <1>2, <1>4, <2>6, EndStepEnds
  <2>7. ASSUME NEW p \in Requests \ {q}, Begun(p) \/ Quiet(p) \/ Stores(p) \/ EndStep(p)
        PROVE  req'[q] = req[q]
    BY <2>7, EndStepEnds DEF Begun, Quiet, Stores, Others
  <2>8. QED BY <2>2, <2>3, <2>4, <2>5, <2>6, <2>7, StepShapes
           DEF vars, Tick, StartAuthorization
<1>5. QED BY <1>3, <1>4 DEF IdentityConfirmed

(* A contact that can be verified stays so until it is, or is cut off. *)
LEMMA VerifiableStays ==
  ASSUME IInv, [Next]_vars, NEW t \in Txns, NEW c \in Contacts, Verifiable(t, c)
  PROVE  \/ Verifiable(t, c)'
         \/ identity'[c] = "active"
         \/ \E p \in Requests : CutsOff(p, t)
<1>1. TypeOK /\ RequestsSound
  BY DEF IInv
<1>2. CASE Verifying(t, c)
  BY <1>2, VerifyingEnds DEF Verifiable, Verifying
<1>3. CASE txn[t].identity = c /\ txn[t].stage = "verification"
  <2>1. CASE txn'[t] = txn[t]
    BY <1>3, <2>1 DEF Verifiable
  <2>2. ASSUME NEW u \in Txns, StartAuthorization(u) PROVE txn'[t] = txn[t]
    BY <1>1, <1>3, <2>2 DEF StartAuthorization, TypeOK
  <2>3. ASSUME NEW p \in Requests, Stores(p), req[p].t = t, txn'[t] # txn[t]
        PROVE  Verifiable(t, c)' \/ CutsOff(p, t)
    <3> DEFINE r == req[p]
    <3>1. /\ InPhase(r) /\ Decided(r) /\ r.op \in Operation \ {"none"}
          /\ txn'[t] = r.write
          /\ Follows(r.op, r.c, r.seen, r.write)
      BY <1>1, <2>3 DEF Stores, RequestsSound, Sound, TypeOK, Request, Decided, InPhase
    <3>2. req'[p] # req[p]
      BY <2>3, IdleTyped DEF Stores, Decided
    <3>3. CASE txn[t] # r.seen \/ r.op = "deny"
      BY <2>3, <3>2, <3>3 DEF CutsOff
    <3>4. CASE txn[t] = r.seen /\ r.op = "verify"
      <4>1. req'[p].pc = "stored" /\ req'[p].op = "verify" /\ req'[p].t = t /\ req'[p].c = c
        BY <1>3, <2>3, <3>1, <3>4 DEF Stores, Follows
      <4>2. QED BY <4>1 DEF Verifiable
    <3>5. CASE txn[t] = r.seen /\ r.op \notin {"verify", "deny"}
      BY <1>3, <3>1, <3>5 DEF Follows, Operation
    <3>6. QED BY <3>3, <3>4, <3>5
  <2>4. ASSUME NEW p \in Requests, Stores(p), req[p].t # t PROVE txn'[t] = txn[t]
    BY <2>4 DEF Stores
  <2>5. QED BY <2>1, <2>2, <2>3, <2>4, StepShapes, EndStepEnds DEF vars, Tick, Begun, Quiet
<1>4. QED BY <1>2, <1>3 DEF Verifiable, Verifying

(* A contact is registered in one transaction, and keeps it. *)
LEMMA HomeOfRegistered ==
  ASSUME IInv, [Next]_vars, NEW c \in Contacts, identity'[c] = "pending"
  PROVE  \/ identity[c] = "pending" /\ home'[c] = home[c]
         \/ \E p \in Requests : /\ req[p].op = "register" /\ req[p].pc = "stored"
                                /\ req[p].c = c /\ req[p].t \in Txns /\ home'[c] = req[p].t
<1>1. TypeOK /\ RequestsSound
  BY DEF IInv
<1>2. CASE identity' = identity /\ home' = home
  BY <1>2
<1>3. ASSUME NEW p \in Requests, EndStep(p), ~CommitRegistration(p)
      PROVE  identity[c] = "pending" /\ home' = home
  <2>1. home' = home
    BY <1>3 DEF EndStep, CommitVerification, CommitFailedAttempt, CommitAuthentication,
       CommitGrant, Fail, history
  <2>2. identity[c] = "pending"
    BY <1>1, <1>3, StatusChange DEF TypeOK
  <2>3. QED BY <2>1, <2>2
<1>4. ASSUME NEW p \in Requests, CommitRegistration(p)
      PROVE  \/ identity[c] = "pending" /\ home'[c] = home[c]
             \/ /\ req[p].op = "register" /\ req[p].pc = "stored"
                /\ req[p].c = c /\ req[p].t \in Txns /\ home'[c] = req[p].t
  <2>1. InPhase(req[p])
    BY <1>1 DEF RequestsSound, Sound
  <2>2. QED BY <1>1, <1>4, <2>1 DEF CommitRegistration, TypeOK, InPhase
<1>5. QED BY <1>2, <1>3, <1>4, StepShapes
         DEF vars, rows, history, Tick, StartAuthorization, Begun, Quiet, Stores

(* Who is registered was registered before, or can be verified. *)
LEMMA RegistrationIsVerifiable ==
  ASSUME IInv, [Next]_vars, NEW t \in Txns, NEW c \in Contacts, Registered(t, c)'
  PROVE  Registered(t, c) \/ Verifiable(t, c)'
<1>1. TypeOK /\ RequestsSound
  BY DEF IInv
<1>2. CASE identity'[c] = "pending" /\ home'[c] = t
  BY <1>2, HomeOfRegistered DEF Registered
<1>3. ASSUME NEW q \in Requests,
             req'[q].op = "register", req'[q].pc = "stored", req'[q].t = t, req'[q].c = c
      PROVE  Registered(t, c) \/ Verifiable(t, c)'
  <2>1. CASE req'[q] = req[q]
    BY <1>3, <2>1 DEF Registered
  <2>2. ASSUME Stores(q) PROVE Verifiable(t, c)'
    <3>1. /\ req[q].t = t /\ req[q].c = c /\ req[q].op = "register"
          /\ txn'[t] = req[q].write
          /\ Follows("register", c, req[q].seen, req[q].write)
      BY <1>1, <1>3, <2>2, IdleTyped DEF Stores, RequestsSound, Sound
    <3>2. txn'[t].identity = c /\ txn'[t].stage = "verification"
      BY <3>1 DEF Follows
    <3>3. QED BY <3>2 DEF Verifiable
  <2>3. ASSUME Begun(q) \/ Quiet(q) PROVE FALSE
    BY <1>3, <2>3 DEF Begun, Quiet
  <2>4. ASSUME EndStep(q) PROVE FALSE
    BY <1>3, <2>4, EndStepEnds, IdleTyped
  <2>5. ASSUME NEW p \in Requests \ {q}, Begun(p) \/ Quiet(p) \/ Stores(p) \/ EndStep(p)
        PROVE  req'[q] = req[q]
    BY <2>5, EndStepEnds DEF Begun, Quiet, Stores, Others
  <2>6. QED BY <2>1, <2>2, <2>3, <2>4, <2>5, StepShapes DEF vars, Tick, StartAuthorization
<1>4. QED BY <1>2, <1>3 DEF Registered

LEMMA AgreedStays ==
  ASSUME IInv, [Next]_vars, NEW x, Agreed(x, consented)
  PROVE  Agreed(x, consented')
<1>1. \A c \in Contacts : consented[c] \subseteq consented'[c]
  <2>1. CASE Txns = {}
    <3>1. \/ UNCHANGED vars \/ Tick
          \/ \E p \in Requests : (QuietStep(p) /\ Quiet(p)) \/ EndStep(p)
      BY <2>1, StepShapes DEF Begun, Stores
    <3>2. QED BY <3>1, EndStepEnds DEF vars, Tick, history, Quiet
  <2>2. CASE Txns # {}
    BY <2>2, GhostsGrow
  <2>3. QED BY <2>1, <2>2
<1>2. QED BY <1>1 DEF Agreed

LEMMA ConsentsPreserved ==
  ASSUME IInv, TypeOK', [Next]_vars
  PROVE  ConsentsAgreed'
<1>1. TypeOK /\ RequestsSound /\ ConsentsAgreed
  BY DEF IInv
<1>2. Agreed(NoTxn, consented') /\ NoTxn.source = "none"
  BY DEF Agreed, NoTxn
<1>3. /\ \A t \in Txns : Agreed(txn[t], consented')
      /\ \A q \in Requests : Agreed(req[q].seen, consented') /\ Agreed(req[q].write, consented')
  BY <1>1, AgreedStays DEF ConsentsAgreed
<1>4. \A q \in Requests :
         /\ req[q].op = "remember" => req[q].c \in Contacts
         /\ req[q].seen \in Txn /\ req[q].write \in Txn
  BY <1>1 DEF RequestsSound, Sound, InPhase, TypeOK, Request
<1>5. ASSUME UNCHANGED <<txn, req, grant>>, \A c \in Contacts : consented'[c] = consented[c]
      PROVE  ConsentsAgreed'
  BY <1>1, <1>3, <1>4, <1>5 DEF ConsentsAgreed
<1>6. CASE UNCHANGED vars \/ Tick
  BY <1>5, <1>6 DEF vars, Tick, rows, history
<1>7. ASSUME NEW t \in Txns, StartAuthorization(t) PROVE ConsentsAgreed'
  <2>1. PICK requested \in SUBSET Scopes \ {{}} :
          txn' = [txn EXCEPT ![t] = New(requested, now + TxnLifetime)]
    BY <1>7 DEF StartAuthorization
  <2>2. Agreed(New(requested, now + TxnLifetime), consented')
    BY <1>1, NewTyped, FlowAssumption DEF TypeOK, Agreed
  <2>3. \A u \in Txns : Agreed(txn'[u], consented')
    BY <1>1, <1>3, <2>1, <2>2 DEF TypeOK
  <2>4. UNCHANGED <<req, grant, consented>>
    BY <1>7 DEF StartAuthorization, rows, history
  <2>5. QED BY <1>1, <1>3, <2>3, <2>4 DEF ConsentsAgreed
(* A step of one request that leaves the grants alone. *)
<1>8. ASSUME NEW p \in Requests, Others(p), grant' = grant,
             \A c \in Contacts : consented[c] \subseteq consented'[c],
             \A t \in Txns : Agreed(txn'[t], consented'),
             Agreed(req'[p].seen, consented'), Agreed(req'[p].write, consented'),
             req'[p].op = "remember" /\ req'[p].pc \in {"inserting", "updating", "stored"}
                => req'[p].write.granted \subseteq consented'[req'[p].c]
      PROVE  ConsentsAgreed'
  <2>1. \A c \in Contacts : grant'[c].scopes \subseteq consented'[c]
    BY <1>1, <1>8 DEF ConsentsAgreed
  <2>2. ASSUME NEW q \in Requests
        PROVE  /\ Agreed(req'[q].seen, consented')
               /\ Agreed(req'[q].write, consented')
               /\ req'[q].op = "remember" /\ req'[q].pc \in {"inserting", "updating", "stored"}
                     => req'[q].write.granted \subseteq consented'[req'[q].c]
    <3>1. CASE q = p
      BY <1>8, <3>1
    <3>2. CASE q # p
      <4>1. req'[q] = req[q]
        BY <1>8, <3>2 DEF Others
      <4>2. req[q].op = "remember" /\ req[q].pc \in {"inserting", "updating", "stored"}
               => req[q].write.granted \subseteq consented[req[q].c]
        BY <1>1 DEF ConsentsAgreed
      <4>3. QED BY <1>3, <1>4, <1>8, <4>1, <4>2
    <3>3. QED BY <3>1, <3>2
  <2>3. QED BY <1>8, <2>1, <2>2 DEF ConsentsAgreed
<1>9. ASSUME NEW p \in Requests, Begun(p) PROVE ConsentsAgreed'
  <2> DEFINE s == req'[p]
  <2>1. /\ Others(p) /\ UNCHANGED <<grant, txn, consented>>
        /\ s.pc = "read" /\ s.op # "none"
        /\ s.t \in Txns /\ s.seen = txn[s.t]
        /\ s.op # "password" => Follows(s.op, s.c, s.seen, s.write)
        /\ \/ s.write.source # "remembered_grant"
           \/ /\ s.op # "password"
              /\ s.write.source = s.seen.source
              /\ s.op = "continue" => s.write.granted = s.seen.granted
        /\ s \in Request
    BY <1>9 DEF Begun, rows, history
  <2> HIDE DEF s
  <2>2. Agreed(s.seen, consented')
    BY <1>3, <2>1
  <2>3. Agreed(s.write, consented')
    <3>1. CASE s.write.source # "remembered_grant"
      BY <3>1 DEF Agreed
    <3>2. CASE s.write.source = "remembered_grant"
      <4>1. /\ s.seen.stage \in {"ready", "completed"}
            /\ s.seen.identity \in Contacts
            /\ s.seen.granted \subseteq consented'[s.seen.identity]
        BY <2>1, <2>2, <3>2 DEF Agreed
      <4>2. s.op = "continue"
        BY <2>1, <3>2, <4>1 DEF Follows, Pending, Request, Operation
      <4>3. s.write.stage = "completed" /\ s.write.identity = s.seen.identity
            /\ s.write.granted = s.seen.granted
        BY <2>1, <3>2, <4>2 DEF Follows
      <4>4. QED BY <4>1, <4>3 DEF Agreed
    <3>3. QED BY <3>1, <3>2
  <2>4. \A t \in Txns : Agreed(txn'[t], consented')
    BY <1>3, <2>1
  <2>5. QED BY <1>8, <2>1, <2>2, <2>3, <2>4 DEF s
<1>10. ASSUME NEW p \in Requests, QuietStep(p), Quiet(p) PROVE ConsentsAgreed'
  <2> DEFINE r == req[p]
             s == req'[p]
  <2>1. /\ Others(p) /\ UNCHANGED <<grant, txn>>
        /\ \A c \in Contacts : consented[c] \subseteq consented'[c]
        /\ s.pc \notin {"idle", "stored"} /\ s.op = r.op /\ s.c = r.c
        /\ s.seen = r.seen \/ s.seen = NoTxn
        /\ Sound(r, now, identity)
    BY <1>1, <1>10 DEF Quiet, rows, RequestsSound
  <2>2. Agreed(s.seen, consented')
    BY <1>2, <1>3, <2>1
  <2>3. \A t \in Txns : Agreed(txn'[t], consented')
    BY <1>3, <2>1
  <2>4. CASE ReadPassword(p)
    <3>1. r.op = "password" /\ r.c \in Contacts
      BY <2>1, <2>4 DEF ReadPassword, Sound, InPhase
    <3>2. \/ s.write = NoTxn
          \/ /\ Follows("password", r.c, r.seen, s.write)
             /\ s.write.source = r.seen.source
      BY <1>1, <2>4, <3>1, PasswordRead
    <3>3. CASE s.write = NoTxn
      BY <1>2, <1>8, <2>1, <2>2, <2>3, <3>1, <3>3
    <3>4. CASE Follows("password", r.c, r.seen, s.write) /\ s.write.source = r.seen.source
      <4>1. s.write.source # "remembered_grant"
        BY <1>3, <3>4 DEF Agreed, Follows
      <4>2. Agreed(s.write, consented')
        BY <4>1 DEF Agreed
      <4>3. QED BY <1>8, <2>1, <2>2, <2>3, <3>1, <4>2
    <3>5. QED BY <3>2, <3>3, <3>4
  <2>5. CASE ReadFacts(p)
    <3>1. /\ r.op = "skip" /\ r.pc = "read"
          /\ \/ s.write = r.write
             \/ /\ s.write.stage = "ready"
                /\ s.write.identity = r.write.identity
                /\ s.write.source = "remembered_grant" =>
                      s.write.granted \subseteq grant[r.c].scopes
      BY <1>1, <2>5, FactsRead
    <3>2. r.c \in Contacts /\ r.write.identity = r.c
      BY <2>1, <3>1 DEF Sound, InPhase, Decided, Follows
    <3>3. grant[r.c].scopes \subseteq consented'[r.c]
      BY <1>1, <2>1, <3>2 DEF ConsentsAgreed
    <3>4. Agreed(s.write, consented')
      BY <1>3, <3>1, <3>2, <3>3 DEF Agreed
    <3>5. QED BY <1>8, <2>1, <2>2, <2>3, <3>1, <3>4
  <2>6. CASE LoadGrant(p)
    <3>1. s.write = r.write /\ r.op = "remember"
          /\ consented' = [consented EXCEPT ![r.c] = @ \cup r.write.granted]
      BY <2>6, QuietGrant DEF LoadGrant
    <3>2. r.c \in Contacts
      BY <1>4, <3>1
    <3>3. s.write.granted \subseteq consented'[s.c]
      BY <1>1, <2>1, <3>1, <3>2 DEF TypeOK
    <3>4. QED BY <1>3, <1>8, <2>1, <2>2, <2>3, <3>1, <3>3
  <2>7. CASE StoreCode(p)
    <3>1. s.write = r.write /\ r.op = "continue"
      BY <2>7, QuietCode DEF StoreCode
    <3>2. QED BY <1>3, <1>8, <2>1, <2>2, <2>3, <3>1
  <2>8. QED BY <1>10, <2>4, <2>5, <2>6, <2>7 DEF QuietStep
<1>11. ASSUME NEW p \in Requests, Stores(p) PROVE ConsentsAgreed'
  <2> DEFINE r == req[p]
             s == req'[p]
  <2>1. /\ Others(p) /\ grant' = grant /\ consented' = consented
        /\ r.t \in Txns /\ txn'[r.t] = r.write
        /\ \A t \in Txns \ {r.t} : txn'[t] = txn[t]
    BY <1>11 DEF Stores, rows
  <2>2. \A t \in Txns : Agreed(txn'[t], consented')
    BY <1>3, <2>1
  <2>3. CASE s = Idle
    BY <1>2, <1>8, <2>1, <2>2, <2>3, IdleTyped
  <2>4. CASE s # Idle
    <3>1. /\ s.pc = "stored" /\ s.op = r.op /\ s.c = r.c /\ s.seen = NoTxn
          /\ s.write.source = "none" /\ s.write.granted = r.write.granted
          /\ r.op = "remember" => r.pc \in {"inserting", "updating"}
      BY <1>11, <2>4 DEF Stores
    <3>2. Agreed(s.write, consented')
      BY <3>1 DEF Agreed
    <3>3. r.op = "remember" => s.write.granted \subseteq consented'[s.c]
      BY <1>1, <2>1, <3>1 DEF ConsentsAgreed
    <3>4. QED BY <1>2, <1>8, <2>1, <2>2, <3>1, <3>2, <3>3
  <2>5. QED BY <2>3, <2>4
<1>12. ASSUME NEW p \in Requests, EndStep(p) PROVE ConsentsAgreed'
  <2>1. Others(p) /\ req'[p] = Idle /\ txn' = txn /\ consented' = consented
    BY <1>12, EndStepEnds
  <2>2. CASE grant' = grant
    BY <1>2, <1>3, <1>8, <2>1, <2>2, IdleTyped
  <2>3. CASE CommitGrant(p)
    <3> DEFINE r == req[p]
    <3>1. /\ r.op = "remember" /\ r.pc = "stored" /\ r.c \in Contacts
          /\ grant' = [grant EXCEPT ![r.c] = [scopes |-> r.write.granted, updated |-> r.at]]
      BY <1>4, <2>3 DEF CommitGrant
    <3>2. r.write.granted \subseteq consented[r.c]
      BY <1>1, <3>1 DEF ConsentsAgreed
    <3>3. \A c \in Contacts : grant'[c].scopes \subseteq consented'[c]
      BY <1>1, <2>1, <3>1, <3>2 DEF ConsentsAgreed, TypeOK
    <3>4. \A q \in Requests :
             req'[q].op = "remember" /\ req'[q].pc \in {"inserting", "updating", "stored"}
                => req'[q].write.granted \subseteq consented'[req'[q].c]
      BY <1>1, <2>1, IdleTyped DEF ConsentsAgreed, Others
    <3>5. \A q \in Requests : Agreed(req'[q].seen, consented') /\ Agreed(req'[q].write, consented')
      BY <1>2, <1>3, <2>1, IdleTyped DEF Others
    <3>6. QED BY <1>3, <2>1, <3>3, <3>4, <3>5 DEF ConsentsAgreed
  <2>4. QED BY <1>12, <2>2, <2>3 DEF EndStep, CommitRegistration, CommitVerification,
           CommitFailedAttempt, CommitAuthentication, Fail, rows
<1>13. QED BY <1>6, <1>7, <1>9, <1>10, <1>11, <1>12, StepShapes

LEMMA MintingFinite ==
  ASSUME NEW t \in Txns
  PROVE  /\ IsFiniteSet(Minting(t)) /\ Cardinality(Minting(t)) \in Nat
         /\ IsFiniteSet(Minting(t)') /\ Cardinality(Minting(t)') \in Nat
<1>1. Minting(t) \in SUBSET Requests /\ Minting(t)' \in SUBSET Requests
  BY DEF Minting
<1>2. IsFiniteSet(Requests)
  BY FlowAssumption
<1>3. QED BY <1>1, <1>2, FS_Subset, FS_CardinalityType

(* The codes of a transaction that nothing has happened to. *)
CodesOf(t) ==
    ~late[t] /\ ~lost[t] =>
        codes[t] <= Cardinality(Minting(t)) + (IF txn[t].stage = "completed" THEN 1 ELSE 0)

LEMMA CodesPreserved ==
  ASSUME IInv, TypeOK', [Next]_vars
  PROVE  CodesAccountedFor'
<1>1. /\ TypeOK /\ RequestsSound
      /\ \A t \in Txns : CodesOf(t)
  BY DEF IInv, CodesAccountedFor, CodesOf
<1> SUFFICES ASSUME NEW t \in Txns PROVE CodesOf(t)'
  BY DEF CodesAccountedFor, CodesOf
<1>2. codes[t] \in Nat /\ codes'[t] \in Nat
  BY <1>1 DEF TypeOK
<1>3. /\ late[t] => late'[t]
      /\ lost[t] => lost'[t]
  BY GhostsGrow
<1>4. ASSUME codes'[t] = codes[t], Minting(t)' = Minting(t),
             txn[t].stage = "completed" => txn'[t].stage = "completed"
      PROVE  CodesOf(t)'
  BY <1>1, <1>2, <1>3, <1>4, MintingFinite DEF CodesOf
(* A request that is not minting before nor after changes nothing here. *)
<1>5. ASSUME NEW p \in Requests, Others(p), codes' = codes, txn'[t] = txn[t],
             req[p].pc # "minted", req'[p].pc # "minted"
      PROVE  CodesOf(t)'
  <2>1. Minting(t)' = Minting(t)
    BY <1>5 DEF Minting, Others
  <2>2. QED BY <1>4, <1>5, <2>1
<1>6. CASE UNCHANGED vars \/ Tick
  <2>1. codes' = codes /\ txn' = txn /\ Minting(t)' = Minting(t)
    BY <1>6 DEF vars, Tick, history, Minting
  <2>2. QED BY <1>4, <2>1
<1>7. ASSUME NEW u \in Txns, StartAuthorization(u) PROVE CodesOf(t)'
  <2>1. codes' = codes /\ Minting(t)' = Minting(t)
    BY <1>7 DEF StartAuthorization, history, Minting
  <2>2. txn[t].stage = "completed" => txn'[t] = txn[t]
    BY <1>1, <1>7 DEF StartAuthorization, TypeOK
  <2>3. QED BY <1>4, <2>1, <2>2
<1>8. ASSUME NEW p \in Requests, Begun(p) PROVE CodesOf(t)'
  BY <1>5, <1>8 DEF Begun, history
<1>9. ASSUME NEW p \in Requests, QuietStep(p), Quiet(p) PROVE CodesOf(t)'
  <2>1. Others(p) /\ txn' = txn /\ late' = late /\ lost' = lost
    BY <1>9 DEF Quiet
  <2>2. CASE StoreCode(p)
    <3>1. /\ req[p].pc = "read" /\ req[p].op = "continue"
          /\ Step(p, "minted")
          /\ codes' = IF late[req[p].t] \/ lost[req[p].t] THEN codes
                      ELSE [codes EXCEPT ![req[p].t] = @ + 1]
      BY <2>2 DEF StoreCode
    <3>2. req'[p].pc = "minted" /\ req'[p].t = req[p].t
      BY <1>1, <3>1, StepMoves
    <3>3. CASE req[p].t = t
      <4>1. Minting(t)' = Minting(t) \cup {p} /\ p \notin Minting(t)
        BY <2>1, <3>1, <3>2, <3>3 DEF Minting, Others
      <4>2. Cardinality(Minting(t)') = Cardinality(Minting(t)) + 1
        BY <4>1, MintingFinite, FS_AddElement
      <4>3. ~late[t] /\ ~lost[t] => codes'[t] = codes[t] + 1
        BY <1>1, <3>1, <3>3 DEF TypeOK
      <4>4. QED BY <1>1, <1>2, <2>1, <4>2, <4>3, MintingFinite DEF CodesOf
    <3>4. CASE req[p].t # t
      <4>1. Minting(t)' = Minting(t)
        BY <2>1, <3>1, <3>2, <3>4 DEF Minting, Others
      <4>2. codes'[t] = codes[t]
        BY <1>1, <3>1, <3>4 DEF TypeOK
      <4>3. QED BY <1>4, <2>1, <4>1, <4>2
    <3>5. QED BY <3>3, <3>4
  <2>3. CASE ~StoreCode(p)
    <3>1. /\ codes' = codes
          /\ req[p].pc = "read" /\ req'[p].pc \in {"updating", "informed", "inserting"}
      <4>1. CASE ReadPassword(p)
        <5>1. req[p].c \in Contacts
          BY <1>1, <4>1 DEF ReadPassword, RequestsSound, Sound, InPhase
        <5>2. QED BY <1>1, <4>1, <5>1, PasswordRead DEF ReadPassword, history
      <4>2. CASE ReadFacts(p)
        BY <1>1, <4>2, FactsRead DEF ReadFacts, history
      <4>3. CASE LoadGrant(p)
        BY <1>1, <4>3, StepMoves DEF LoadGrant
      <4>4. QED BY <1>9, <2>3, <4>1, <4>2, <4>3 DEF QuietStep
    <3>2. QED BY <1>5, <2>1, <3>1
  <2>4. QED BY <2>2, <2>3
<1>10. ASSUME NEW p \in Requests, Stores(p) PROVE CodesOf(t)'
  <2> DEFINE r == req[p]
  <2>1. /\ Others(p) /\ codes' = codes /\ lost' = lost /\ Decided(r)
        /\ \A u \in Txns \ {r.t} : txn'[u] = txn[u] /\ late'[u] = late[u]
        /\ r.op = "continue" => r.pc = "minted"
        /\ req'[p].pc # "minted"
    BY <1>10, IdleTyped DEF Stores
  <2>2. InPhase(r) /\ Follows(r.op, r.c, r.seen, r.write)
    BY <1>1, <2>1 DEF RequestsSound, Sound
  <2>3. CASE r.t # t
    <3>1. Minting(t)' = Minting(t)
      BY <2>1, <2>3 DEF Minting, Others
    <3>2. txn'[t] = txn[t]
      BY <2>1, <2>3
    <3>3. QED BY <1>4, <2>1, <3>1, <3>2
  <2>4. CASE r.t = t /\ (late'[t] \/ lost'[t])
    BY <2>4 DEF CodesOf
  <2>5. CASE r.t = t /\ ~late'[t] /\ ~lost'[t]
    <3>1. txn[t] = r.seen /\ txn'[t] = r.write /\ ~late[t] /\ ~lost[t]
      BY <1>3, <1>10, <2>5 DEF Stores
    <3>2. CASE r.op = "continue"
      <4>1. txn[t].stage = "ready" /\ txn'[t].stage = "completed"
        BY <2>2, <3>1, <3>2 DEF Follows
      <4>2. Minting(t)' = Minting(t) \ {p} /\ p \in Minting(t)
        BY <2>1, <2>5, <3>2 DEF Minting, Others
      <4>3. Cardinality(Minting(t)') = Cardinality(Minting(t)) - 1
        BY <4>2, MintingFinite, FS_RemoveElement
      <4>4. codes[t] <= Cardinality(Minting(t))
        BY <1>1, <1>2, <3>1, <4>1, MintingFinite DEF CodesOf
      <4>5. codes'[t] <= Cardinality(Minting(t)') + 1
        BY <1>2, <2>1, <4>3, <4>4, MintingFinite
      <4>6. QED BY <4>1, <4>5 DEF CodesOf
    <3>3. CASE r.op # "continue"
      <4>1. txn[t].stage # "completed"
        BY <1>1, <2>1, <2>2, <3>1, <3>3
           DEF Follows, Pending, InPhase, Decided, TypeOK, Request, Operation
      <4>2. Minting(t)' = Minting(t)
        BY <2>1, <2>2, <3>3 DEF Minting, Others, InPhase
      <4>3. QED BY <1>4, <2>1, <4>1, <4>2
    <3>4. QED BY <3>2, <3>3
  <2>6. QED BY <2>3, <2>4, <2>5
<1>11. ASSUME NEW p \in Requests, EndStep(p) PROVE CodesOf(t)'
  <2>1. /\ Others(p) /\ req'[p] = Idle /\ codes' = codes /\ txn' = txn
    BY <1>11, EndStepEnds
  <2>2. CASE req[p].pc # "minted"
    BY <1>5, <2>1, <2>2, IdleTyped
  <2>3. CASE req[p].pc = "minted" /\ req[p].t = t
    <3>1. Fail(p)
      BY <1>11, <2>3 DEF EndStep, CommitRegistration, CommitVerification,
         CommitFailedAttempt, CommitAuthentication, CommitGrant
    <3>2. lost'[t]
      BY <1>1, <2>3, <3>1 DEF Fail, TypeOK
    <3>3. QED BY <3>2 DEF CodesOf
  <2>4. CASE req[p].pc = "minted" /\ req[p].t # t
    <3>1. Minting(t)' = Minting(t)
      BY <2>1, <2>4, IdleTyped DEF Minting, Others
    <3>2. QED BY <1>4, <2>1, <3>1
  <2>5. QED BY <2>2, <2>3, <2>4
<1>12. QED BY <1>6, <1>7, <1>8, <1>9, <1>10, <1>11, StepShapes

----------------------------------------------------------------------------

LEMMA InitialInvariant == Init => IInv
<1> SUFFICES ASSUME Init PROVE IInv
  OBVIOUS
<1>1. TypeOK
  BY InitialTypes
<1>2. /\ \A p \in Requests : req[p] = Idle
      /\ \A t \in Txns : txn[t] = NoTxn /\ codes[t] = 0
      /\ \A c \in Contacts : identity[c] # "pending"
      /\ \A c \in Contacts : consented[c] = grant[c].scopes
      /\ NoTxn.stage = "absent" /\ NoTxn.source = "none" /\ NoTxn.identity = None
  BY DEF Init, NoTxn
<1>3. RequestsSound
  BY <1>1, <1>2, IdleSound DEF RequestsSound, TypeOK
<1>4. RecordsWellFormed /\ StoredAlone
  BY <1>2, IdleTyped DEF RecordsWellFormed, WellFormed, Past, StoredAlone
<1>5. AbsentIsUnlocked
  <2>1. \A c \in Contacts : identity[c] = "absent" => password[c] = Unlocked(0)
    BY DEF Init
  <2>2. QED BY <2>1, UnlockedTyped DEF AbsentIsUnlocked
<1>6. IdentityConfirmed
  BY <1>2, IdleTyped DEF IdentityConfirmed, Past
<1>7. ConsentsAgreed
  BY <1>2, IdleTyped DEF ConsentsAgreed, Agreed
<1>8. CodesAccountedFor
  BY <1>2, MintingFinite DEF CodesAccountedFor
<1>9. QED BY <1>1, <1>3, <1>4, <1>5, <1>6, <1>7, <1>8 DEF IInv

(* IInv holds in every reachable state: the requests, the records and the  *)
(* rows stay together through every interleaving of                        *)
(* usecase/authentication and usecase/oauth.                               *)
THEOREM Invariant == Spec => []IInv
<1>1. ASSUME IInv, [Next]_vars PROVE IInv'
  <2>1. TypeOK'
    BY <1>1, TypePreserved DEF IInv
  <2>2. RequestsSound'
    BY <1>1, <2>1, RequestsPreserved
  <2>3. QED BY <1>1, <2>1, <2>2, RecordsPreserved, StoredAlonePreserved, AbsentPreserved,
           ConfirmedPreserved, ConsentsPreserved, CodesPreserved DEF IInv
<1>2. QED BY <1>1, InitialInvariant, PTL DEF Spec

(* Every row, record and request keeps its type.                           *)
THEOREM TypeCorrect == Spec => []TypeOK
<1>1. IInv => TypeOK
  BY DEF IInv
<1>2. QED BY <1>1, Invariant, PTL

(* Without a request that overwrites what it has not seen, or fails in     *)
(* between, a transaction gives one code: continue_authorization.go:35-73. *)
THEOREM OneCode == Spec => []CodesAccountedFor
<1>1. IInv => CodesAccountedFor
  BY DEF IInv
<1>2. QED BY <1>1, Invariant, PTL

(* Behind every authenticated transaction there is an active identity, but *)
(* for a verification that has not committed: verify_email.go:76-87.       *)
THEOREM AuthenticationIsBacked == Spec => []AuthenticatedIdentityIsActive
<1>1. IInv => AuthenticatedIdentityIsActive
  <2> SUFFICES ASSUME IInv, NEW t \in Txns, txn[t].stage \in Past
               PROVE  \/ identity[txn[t].identity] = "active"
                      \/ \E p \in Requests :
                            req[p].op = "verify" /\ req[p].pc = "stored" /\ req[p].t = t
                      \/ lost[t]
    BY DEF AuthenticatedIdentityIsActive, Past
  <2>1. txn[t].identity \in Contacts
    BY DEF IInv, RecordsWellFormed, WellFormed
  <2>2. Confirmed(t, txn[t].identity)
    BY <2>1 DEF IInv, IdentityConfirmed
  <2>3. QED BY <2>2 DEF Confirmed, Verifying
<1>2. QED BY <1>1, Invariant, PTL

(* The transaction a contact is registered in leads to its verification    *)
(* until the user denies it, a verification fails to commit, or a request  *)
(* overwrites a record it has not seen: register_identity.go:98-139,       *)
(* deny_consent.go:39.                                                     *)
THEOREM VerificationIsReachable == Spec => VerificationLostByCause
<1>1. ASSUME IInv, IInv', [Next]_vars, NEW t \in Txns, NEW c \in Contacts,
             Registered(t, c)', ~Verifiable(t, c)'
      PROVE  \/ Registered(t, c) /\ ~Verifiable(t, c)
             \/ \E p \in Requests : CutsOff(p, t)
  <2>1. Registered(t, c)
    BY <1>1, RegistrationIsVerifiable
  <2>2. identity'[c] # "active"
    BY <1>1 DEF Registered, IInv, RequestsSound, Sound, RowsWait
  <2>3. QED BY <1>1, <2>1, <2>2, VerifiableStays
<1>2. IInv /\ IInv' /\ [Next]_vars =>
        [\A t \in Txns, c \in Contacts :
            Registered(t, c)' /\ ~Verifiable(t, c)' =>
               \/ Registered(t, c) /\ ~Verifiable(t, c)
               \/ \E p \in Requests : CutsOff(p, t)]_vars
  BY <1>1
<1>3. QED BY <1>2, Invariant, PTL DEF Spec, VerificationLostByCause

(* What is granted without a question was agreed to:                       *)
(* authenticationflow/get.go:78-97, skip_mfa_enrollment.go:41-56.          *)
THEOREM ImpliedConsentWasGiven == Spec => []AutomaticConsentWasGiven
<1>1. IInv => AutomaticConsentWasGiven
  BY DEF IInv, ConsentsAgreed, Agreed, AutomaticConsentWasGiven
<1>2. QED BY <1>1, Invariant, PTL

(* A record only moves forward, but for a request that had not seen it:    *)
(* repository/authorizationtransaction/update.go:12-34.                    *)
THEOREM RecordsMoveForward == Spec => StepsNeverRegress
<1>1. ASSUME IInv, [Next]_vars, NEW t \in Txns, txn'[t] # txn[t]
      PROVE  \/ Advances(txn[t], txn'[t])
             \/ \E p \in Requests : req[p].t = t /\ req[p].seen # txn[t] /\ req'[p] # req[p]
  <2>1. TypeOK /\ RecordsWellFormed /\ RequestsSound
    BY <1>1 DEF IInv
  <2>2. ASSUME NEW u \in Txns, StartAuthorization(u) PROVE Advances(txn[t], txn'[t])
    <3>1. PICK requested \in SUBSET Scopes \ {{}} :
            /\ txn[u].stage = "absent"
            /\ txn' = [txn EXCEPT ![u] = New(requested, now + TxnLifetime)]
      BY <2>2 DEF StartAuthorization
    <3>2. u = t /\ txn[t].stage = "absent" /\ txn[t].identity = None
      BY <1>1, <2>1, <3>1 DEF TypeOK, RecordsWellFormed, WellFormed
    <3>3. txn'[t].stage = "choose"
      BY <2>1, <3>1, <3>2, NewTyped, FlowAssumption DEF TypeOK
    <3>4. QED BY <3>2, <3>3 DEF Advances, Rank
  <2>3. ASSUME NEW p \in Requests, Stores(p)
        PROVE  Advances(txn[t], txn'[t]) \/ (req[p].t = t /\ req[p].seen # txn[t]
                                             /\ req'[p] # req[p])
    <3>1. req[p].t = t /\ txn'[t] = req[p].write
      BY <1>1, <2>3 DEF Stores
    <3>2. req'[p] # req[p]
      BY <2>3, IdleTyped DEF Stores, Decided
    <3>3. ASSUME req[p].seen = txn[t] PROVE Advances(txn[t], txn'[t])
      <4>1. /\ req[p].op \in Operation \ {"none"}
            /\ req[p].seen \in Txn /\ req[p].write \in Txn
            /\ req[p].op \notin {"deny", "continue"} => req[p].c \in Contacts
            /\ WellFormed(req[p].seen)
            /\ Follows(req[p].op, req[p].c, req[p].seen, req[p].write)
        BY <2>1, <2>3 DEF Stores, Decided, RequestsSound, Sound, InPhase, TypeOK, Request
      <4>2. QED BY <3>1, <3>3, <4>1, FollowsAdvances
    <3>4. QED BY <3>1, <3>2, <3>3
  <2>4. QED BY <1>1, <2>2, <2>3, StepShapes, EndStepEnds DEF vars, Tick, Begun, Quiet
<1>2. IInv /\ [Next]_vars =>
        [\A t \in Txns :
            txn'[t] # txn[t] =>
               \/ Advances(txn[t], txn'[t])
               \/ \E p \in Requests :
                     req[p].t = t /\ req[p].seen # txn[t] /\ req'[p] # req[p]]_vars
  BY <1>1
<1>3. QED BY <1>2, Invariant, PTL DEF Spec, StepsNeverRegress

(* A lock is taken away early only by an attempt that itself read another  *)
(* row, before the lock: authenticate_with_password.go:71-81, 136.         *)
THEOREM LocksHold == Spec => LockSurvivesLaterAttempts
<1>1. ASSUME IInv, [Next]_vars, NEW c \in Contacts, password'[c] # password[c],
             now < password[c].lockedUntil
      PROVE  \E p \in Requests :
                /\ req'[p] # req[p]
                /\ req[p].op = "password" /\ req[p].c = c
                /\ req[p].pc \in {"updating", "stored"}
                /\ req[p].row # password[c]
  <2>1. TypeOK /\ RequestsSound /\ AbsentIsUnlocked
    BY <1>1 DEF IInv
  <2>2. PICK p \in Requests : EndStep(p)
    BY <1>1, StepShapes DEF vars, Tick, StartAuthorization, Begun, Quiet, Stores, rows
  <2>3. req[p] \in Request /\ Sound(req[p], now, identity) /\ now \in Nat
    BY <2>1 DEF TypeOK, RequestsSound
  <2>4. CASE CommitRegistration(p)
    <3>1. c = req[p].c /\ identity[c] = "absent"
      BY <1>1, <2>1, <2>3, <2>4 DEF CommitRegistration, TypeOK, Sound, RowsWait
    <3>2. password[c].lockedUntil = 0
      BY <2>1, <3>1 DEF AbsentIsUnlocked
    <3>3. QED BY <1>1, <2>3, <3>2
  <2>5. CASE CommitFailedAttempt(p) \/ CommitAuthentication(p)
    <3>1. c = req[p].c /\ req[p].op = "password" /\ req[p].pc \in {"updating", "stored"}
      BY <1>1, <2>1, <2>5 DEF CommitFailedAttempt, CommitAuthentication, TypeOK
    <3>2. req[p].row.lockedUntil <= req[p].at /\ req[p].at <= now
      BY <2>3, <3>1 DEF Sound, AttemptWasAllowed
    <3>3. /\ req[p].row.lockedUntil \in Nat /\ req[p].at \in Nat
          /\ password[c].lockedUntil \in Nat
      BY <2>1, <2>3 DEF TypeOK, Request, AuthState
    <3>4. req[p].row # password[c]
      BY <1>1, <2>3, <3>2, <3>3
    <3>5. req'[p] # req[p]
      BY <1>1, <2>2, <3>1, EndStepEnds, IdleTyped
    <3>6. QED BY <3>1, <3>4, <3>5
  <2>6. QED BY <1>1, <2>2, <2>4, <2>5
           DEF EndStep, CommitVerification, CommitGrant, Fail, rows
<1>2. IInv /\ [Next]_vars =>
        [\A c \in Contacts :
            password'[c] # password[c] /\ now < password[c].lockedUntil =>
               \E p \in Requests :
                  /\ req'[p] # req[p]
                  /\ req[p].op = "password" /\ req[p].c = c
                  /\ req[p].pc \in {"updating", "stored"}
                  /\ req[p].row # password[c]]_vars
  BY <1>1
<1>3. QED BY <1>2, Invariant, PTL DEF Spec, LockSurvivesLaterAttempts
=============================================================================
