------------------------ MODULE RefreshTokensProofs ------------------------
(***************************************************************************)
(* What holds of RefreshTokens for any number of requests and tokens, any  *)
(* lifetimes, and both kinds of client.                                    *)
(***************************************************************************)
EXTENDS RefreshTokens, TLAPS

(* Each request is at a step of its own handler and, where it presents a     *)
(* refresh token, at one that was issued: tokens are never deleted.          *)
HandlerOf(p) ==
  /\ pc[p] = "rotate" => op[p] = "refresh"
  /\ pc[p] = "revokeFamily" => op[p] = "revokeRefresh"
  /\ pc[p] = "revokeSession" => op[p] = "revokeAccess"
  /\ pc[p] = "lockFamily" => op[p] \in {"refresh", "revokeRefresh"}
  /\ pc[p] = "readSession" => op[p] \in {"refresh", "revokeAccess"}
  /\ op[p] \in {"refresh", "revokeRefresh"} => presented[p] \in Issued(tokens)

StepMatchesHandler == \A p \in Procs : HandlerOf(p)

(* The code is gone once an exchange holds it or the session exists, one      *)
(* exchange holds it, there is no family before the session, and a request that *)
(* works on the session found one.                                             *)
CodeHeldOnce ==
  /\ code = "stored" => ~Exists(session)
  /\ ~Exists(session) => family = NoFamily /\ tokens = NoTokens
  /\ \A p \in Procs : pc[p] = "create" =>
       /\ code = "gone"
       /\ ~Exists(session)
       /\ \A q \in Procs \ {p} : pc[q] # "create"
  /\ \A p \in Procs : op[p] = "revokeAccess" => Exists(session)
  /\ \A p \in Procs : pc[p] \in {"rotate", "revokeSession"} => Exists(sesCopy[p])

IInv ==
  /\ TypeOK
  /\ StepMatchesHandler
  /\ CodeHeldOnce
  /\ LockedFamilyIsCurrent
  /\ SingleCurrentToken
  /\ RotationChain
  /\ ReuseRevokesAll

----------------------------------------------------------------------------
(* The domain objects stay well typed. *)

(* A request that ends without writing does what Rollback does, whatever made *)
(* it end: a code not found, a rejected grant, a token revoked before.        *)
LEMMA NoWriteIsRollback ==
  ASSUME NEW p \in Procs,
         \/ CodeNotFound(p) \/ ExchangeRejected(p) \/ RefreshRejected(p)
         \/ TokensExhausted(p) \/ RevokeRefreshUnchanged(p) \/ RevokeAccessUnchanged(p)
  PROVE  Rollback(p)
BY DEF CodeNotFound, ExchangeRejected, RefreshRejected, TokensExhausted,
       RevokeRefreshUnchanged, RevokeAccessUnchanged, Rollback

(* The steps of Next, the ones that end without writing taken together: what   *)
(* every invariant of the token endpoint has to survive.                       *)
LEMMA NextCases ==
  ASSUME Next
  PROVE  \/ \E p \in Procs : \/ \E o \in Operations, t \in Tokens \cup {None} : Begin(p, o, t)
                             \/ AuthenticatePublic(p) \/ AuthenticateConfidential(p)
                             \/ ConsumeCode(p)
                             \/ \E w \in BOOLEAN, t \in Tokens : CreateSession(p, w, t)
                             \/ LockFamily(p) \/ ReadSession(p)
                             \/ DetectReuse(p)
                             \/ \E t \in Tokens : RotateToken(p, t)
                             \/ RevokeRefresh(p) \/ RevokeAccess(p)
                             \/ Rollback(p)
         \/ CodeExpires
         \/ Tick
BY NoWriteIsRollback DEF Next, Proceed

(* NULL-aware maximum: one of its arguments, and at least both.                *)
LEMMA LaterOfTwo ==
  ASSUME NEW a \in Int, NEW b \in Int
  PROVE  Later(a, b) \in {a, b} /\ Later(a, b) >= a /\ Later(a, b) >= b
BY DEF Later

(* A session stays a session row through New, RecordActivity and Revoke.       *)
LEMMA SessionOps ==
  ASSUME NEW s \in Session, NEW at \in Time
  PROVE  /\ NewSession(at) \in Session
         /\ RecordActivity(s, at) \in Session
         /\ RevokeSession(s, at) \in Session
<1>1. at \in MaybeTime /\ NoTime \in MaybeTime
  BY ClockAssumption DEF Time, MaybeTime, NoTime
<1>2. at + IdleLifetime \in Deadline /\ at + SessionLifetime \in Deadline
  BY ClockAssumption, LifetimeAssumption DEF Time, Deadline
<1>3. Later(s.idleExpiresAt, MinimumTime(at + IdleLifetime, s.absoluteExpiresAt)) \in Deadline
  BY <1>2 DEF Session, Deadline, Later, MinimumTime
<1>4. NewSession(at) \in Session
  BY <1>1, <1>2 DEF NewSession, Session
<1>5. RecordActivity(s, at) \in Session
  BY <1>1, <1>3 DEF RecordActivity, Session
<1>6. RevokeSession(s, at) \in Session
  BY <1>1 DEF RevokeSession, Session
<1> QED BY <1>4, <1>5, <1>6

(* The blank rows are rows, and so are the ones New and newRefreshToken build.  *)
LEMMA NewRows ==
  ASSUME NEW at \in Time, NEW parent \in Tokens \cup {None}, NEW deadline \in Int
  PROVE  /\ NoSession \in Session /\ NoFamily \in Family /\ NoTokens \in [Tokens -> Token]
         /\ NewFamily(at) \in Family
         /\ NewToken(parent, at, deadline) \in Token
         /\ NewToken(parent, at, deadline).parent = parent
         /\ NewToken(parent, at, deadline).issuedAt = at
         /\ NewToken(parent, at, deadline).rotatedAt = NoTime
<1>1. at \in MaybeTime /\ NoTime \in MaybeTime /\ NoTime \in Deadline
  BY ClockAssumption DEF Time, MaybeTime, NoTime, Deadline
<1>2. at + FamilyLifetime \in Deadline /\ MinimumTime(at + TokenLifetime, deadline) \in Deadline
  BY ClockAssumption, LifetimeAssumption DEF Time, Deadline, MinimumTime
<1>3. NoSession \in Session /\ NoFamily \in Family
  BY <1>1 DEF NoSession, Session, NoFamily, Family
<1>4. NoTokens \in [Tokens -> Token]
  BY <1>1 DEF NoTokens, NoToken, Token
<1>5. NewFamily(at) \in Family
  BY <1>1, <1>2 DEF NewFamily, NoFamily, Family
<1>6. NewToken(parent, at, deadline) \in Token
  BY <1>1, <1>2 DEF NewToken, Token
<1> QED BY <1>3, <1>4, <1>5, <1>6 DEF NewToken

(* family.revoke revokes every issued token and touches nothing else of it.    *)
LEMMA RevokeAllTokens ==
  ASSUME NEW table \in [Tokens -> Token], NEW at \in Time
  PROVE  /\ RevokeAll(table, at) \in [Tokens -> Token]
         /\ Issued(RevokeAll(table, at)) = Issued(table)
         /\ \A t \in Tokens : /\ RevokeAll(table, at)[t].parent = table[t].parent
                              /\ RevokeAll(table, at)[t].issuedAt = table[t].issuedAt
                              /\ RevokeAll(table, at)[t].rotatedAt = table[t].rotatedAt
         /\ \A t \in Issued(table) : RevokeAll(table, at)[t].revokedAt # NoTime
<1>1. at \in MaybeTime /\ at # NoTime
  BY ClockAssumption DEF Time, MaybeTime, NoTime
<1>2. ASSUME NEW t \in Tokens
      PROVE  /\ RevokeToken(table[t], at) \in Token
             /\ RevokeToken(table[t], at).parent = table[t].parent
             /\ RevokeToken(table[t], at).issuedAt = table[t].issuedAt
             /\ RevokeToken(table[t], at).rotatedAt = table[t].rotatedAt
             /\ RevokeToken(table[t], at).revokedAt # NoTime
  BY <1>1 DEF RevokeToken, Token
<1>3. \A t \in Tokens : RevokeAll(table, at)[t] =
        IF t \in Issued(table) THEN RevokeToken(table[t], at) ELSE table[t]
  BY DEF RevokeAll
<1>4. RevokeAll(table, at) \in [Tokens -> Token]
  BY <1>2, <1>3 DEF RevokeAll
<1> QED BY <1>2, <1>3, <1>4 DEF Issued

(* Updating one token of a family leaves a table of tokens.                     *)
LEMMA MarkToken ==
  ASSUME NEW table \in [Tokens -> Token], NEW at \in Time, NEW t \in Tokens
  PROVE  /\ [table EXCEPT ![t].reuseDetectedAt = at] \in [Tokens -> Token]
         /\ [table EXCEPT ![t].rotatedAt = at] \in [Tokens -> Token]
BY ClockAssumption DEF Token, Time, MaybeTime

(* Saving the rows a lock holder read and changed makes the change the table:   *)
(* no other request wrote in between.                                           *)
LEMMA SavedTable ==
  ASSUME tokens \in [Tokens -> Token], NEW table \in [Tokens -> Token], NEW f,
         Issued(tokens) \subseteq Issued(table),
         \A t \in Tokens \ Issued(table) : tokens[t] = table[t],
         SaveFamily(f, table)
  PROVE  tokens' = table /\ family' = f
BY DEF SaveFamily

----------------------------------------------------------------------------
(* Type correctness *)

\* The variables only EndTx and the reading steps change, and those of the tables.
LocalsOK ==
  /\ famLock \in Procs \cup {None}
  /\ clientLock \in Procs \cup {None}
  /\ pc \in [Procs -> Steps]
  /\ op \in [Procs -> Operations]
  /\ presented \in [Procs -> Tokens \cup {None}]
  /\ now \in [Procs -> Time]
  /\ famCopy \in [Procs -> Family]
  /\ tokCopy \in [Procs -> [Tokens -> Token]]
  /\ sesCopy \in [Procs -> Session]

RowsOK ==
  /\ clock \in Time
  /\ code \in {"stored", "gone"}
  /\ session \in Session
  /\ family \in Family
  /\ tokens \in [Tokens -> Token]
  /\ outbox \in [EventTypes -> Nat]

(* The end of a transaction, committed or not, leaves well typed locals.       *)
LEMMA EndTxType ==
  ASSUME TypeOK, NEW p \in Procs, EndTx(p)
  PROVE  LocalsOK'
<1>1. 0 \in Time
  BY ClockAssumption DEF Time
<1>2. NoFamily \in Family /\ NoTokens \in [Tokens -> Token] /\ NoSession \in Session
  BY <1>1, NewRows
<1> QED BY <1>1, <1>2 DEF TypeOK, LocalsOK, EndTx, Goto, Release, Steps, Operations

(* Counting committed events keeps the counts natural.                         *)
LEMMA EmitType ==
  ASSUME TypeOK, NEW types, Emit(types)
  PROVE  outbox' \in [EventTypes -> Nat]
BY DEF TypeOK, Emit

(* Saving a typed family and a typed table leaves typed tables.                 *)
LEMMA SaveFamilyType ==
  ASSUME TypeOK, NEW f \in Family, NEW table \in [Tokens -> Token], SaveFamily(f, table)
  PROVE  family' \in Family /\ tokens' \in [Tokens -> Token]
BY DEF TypeOK, SaveFamily

(* Every row, copy and local keeps the type of its column or field.             *)
LEMMA TypeStep ==
  ASSUME TypeOK, StepMatchesHandler, [Next]_vars
  PROVE  TypeOK'
<1> USE DEF TypeOK
<1>1. SUFFICES RowsOK' /\ LocalsOK'
  BY DEF RowsOK, LocalsOK
<1>2. RowsOK /\ LocalsOK
  BY DEF RowsOK, LocalsOK
<1>3. ASSUME NEW p \in Procs, NEW o \in Operations, NEW t \in Tokens \cup {None}, Begin(p, o, t)
      PROVE  RowsOK' /\ LocalsOK'
  BY <1>2, <1>3 DEF Begin, Goto, Steps, RowsOK, LocalsOK, rows, locks, copies
<1>4. ASSUME NEW p \in Procs, AuthenticatePublic(p) \/ AuthenticateConfidential(p)
      PROVE  RowsOK' /\ LocalsOK'
  <2>1. FirstStep(op[p]) \in Steps
    BY DEF FirstStep, Steps
  <2> QED BY <2>1, <1>2, <1>4 DEF AuthenticatePublic, AuthenticateConfidential, Goto,
          RowsOK, LocalsOK, rows, locks, copies
<1>5. ASSUME NEW p \in Procs, ConsumeCode(p)
      PROVE  RowsOK' /\ LocalsOK'
  BY <1>2, <1>5 DEF ConsumeCode, Goto, Steps, RowsOK, LocalsOK, rows, locks, copies
<1>6. ASSUME NEW p \in Procs, NEW w \in BOOLEAN, NEW t \in Tokens, CreateSession(p, w, t)
      PROVE  RowsOK' /\ LocalsOK'
  <2>1. LocalsOK' /\ outbox' \in [EventTypes -> Nat] /\ UNCHANGED << clock, code >>
    BY <1>6, EndTxType, EmitType DEF CreateSession
  <2>2. now[p] \in Time
    OBVIOUS
  <2>3. session' \in Session
    BY <1>6, <2>2, SessionOps DEF CreateSession
  <2>4. NewFamily(now[p]) \in Family /\ NewFamily(now[p]).absoluteExpiresAt \in Int
    BY <2>2, NewRows DEF Family, Deadline
  <2>5. NewToken(None, now[p], NewFamily(now[p]).absoluteExpiresAt) \in Token
    BY <2>2, <2>4, NewRows
  <2>6. family' \in Family /\ tokens' \in [Tokens -> Token]
    BY <1>6, <2>4, <2>5 DEF CreateSession
  <2> QED BY <2>1, <2>3, <2>6 DEF RowsOK
<1>7. ASSUME NEW p \in Procs, LockFamily(p) \/ ReadSession(p)
      PROVE  RowsOK' /\ LocalsOK'
  <2>1. RowsOK'
    BY <1>2, <1>7 DEF LockFamily, ReadSession, RowsOK, rows
  <2>2. pc' \in [Procs -> Steps]
    BY <1>7 DEF LockFamily, ReadSession, Goto, Steps
  <2>3. CASE LockFamily(p)
    <3>1. famCopy' \in [Procs -> Family] /\ tokCopy' \in [Procs -> [Tokens -> Token]]
      BY <2>3 DEF LockFamily
    <3> QED BY <2>1, <2>2, <2>3, <3>1 DEF LockFamily, LocalsOK
  <2>4. CASE ReadSession(p)
    <3>1. sesCopy' \in [Procs -> Session]
      BY <2>4 DEF ReadSession
    <3> QED BY <2>1, <2>2, <2>4, <3>1 DEF ReadSession, LocalsOK, locks
  <2> QED BY <1>7, <2>3, <2>4
<1>8. ASSUME NEW p \in Procs, DetectReuse(p)
      PROVE  RowsOK' /\ LocalsOK'
  <2>1. LocalsOK' /\ outbox' \in [EventTypes -> Nat] /\ UNCHANGED << clock, code >>
    BY <1>8, EndTxType, EmitType DEF DetectReuse
  <2>2. now[p] \in Time /\ now[p] \in MaybeTime
    BY DEF MaybeTime
  <2>3. session' \in Session
    BY <1>8, <2>2, SessionOps DEF DetectReuse
  <2>4. presented[p] \in Tokens
    BY <1>8 DEF StepMatchesHandler, HandlerOf, DetectReuse, Issued
  <2>5. [tokCopy[p] EXCEPT ![presented[p]].reuseDetectedAt = now[p]] \in [Tokens -> Token]
    BY <2>2, <2>4, MarkToken
  <2>6. RevokeAll([tokCopy[p] EXCEPT ![presented[p]].reuseDetectedAt = now[p]], now[p])
          \in [Tokens -> Token]
    BY <2>2, <2>5, RevokeAllTokens
  <2>7. [famCopy[p] EXCEPT !.reuseDetectedAt = now[p], !.revokedAt = now[p]] \in Family
    BY <2>2 DEF Family
  <2>8. family' \in Family /\ tokens' \in [Tokens -> Token]
    BY <1>8, <2>6, <2>7, SaveFamilyType DEF DetectReuse
  <2> QED BY <2>1, <2>3, <2>8 DEF RowsOK
<1>9. ASSUME NEW p \in Procs, NEW t \in Tokens, RotateToken(p, t)
      PROVE  RowsOK' /\ LocalsOK'
  <2>1. LocalsOK' /\ outbox' \in [EventTypes -> Nat] /\ UNCHANGED << clock, code >>
    BY <1>9, EndTxType, EmitType DEF RotateToken
  <2>2. now[p] \in Time /\ now[p] \in MaybeTime
    BY DEF MaybeTime
  <2>3. session' \in Session
    BY <1>9, <2>2, SessionOps DEF RotateToken
  <2>4. presented[p] \in Tokens
    BY <1>9 DEF StepMatchesHandler, HandlerOf, RotateToken, Issued
  <2>5. [tokCopy[p] EXCEPT ![presented[p]].rotatedAt = now[p]] \in [Tokens -> Token]
    BY <2>2, <2>4, MarkToken
  <2>6. famCopy[p].absoluteExpiresAt \in Int
    BY DEF Family, Deadline
  <2>7. NewToken(presented[p], now[p], famCopy[p].absoluteExpiresAt) \in Token
    BY <2>2, <2>4, <2>6, NewRows
  <2>8. [tokCopy[p] EXCEPT ![presented[p]].rotatedAt = now[p],
              ![t] = NewToken(presented[p], now[p], famCopy[p].absoluteExpiresAt)]
          \in [Tokens -> Token]
    BY <2>5, <2>7
  <2>9. [famCopy[p] EXCEPT !.lastRotatedAt = now[p]] \in Family
    BY <2>2 DEF Family
  <2>10. family' \in Family /\ tokens' \in [Tokens -> Token]
    BY <1>9, <2>8, <2>9, SaveFamilyType DEF RotateToken
  <2> QED BY <2>1, <2>3, <2>10 DEF RowsOK
<1>10. ASSUME NEW p \in Procs, RevokeRefresh(p)
       PROVE  RowsOK' /\ LocalsOK'
  <2>1. LocalsOK' /\ outbox' \in [EventTypes -> Nat] /\ UNCHANGED << clock, code, session >>
    BY <1>10, EndTxType, EmitType DEF RevokeRefresh
  <2>2. now[p] \in Time /\ now[p] \in MaybeTime
    BY DEF MaybeTime
  <2>3. RevokeAll(tokCopy[p], now[p]) \in [Tokens -> Token]
    BY <2>2, RevokeAllTokens
  <2>4. [famCopy[p] EXCEPT !.revokedAt = now[p]] \in Family
    BY <2>2 DEF Family
  <2>5. family' \in Family /\ tokens' \in [Tokens -> Token]
    BY <1>10, <2>3, <2>4, SaveFamilyType DEF RevokeRefresh
  <2> QED BY <2>1, <2>5 DEF RowsOK
<1>11. ASSUME NEW p \in Procs, RevokeAccess(p)
       PROVE  RowsOK' /\ LocalsOK'
  <2>1. LocalsOK' /\ outbox' \in [EventTypes -> Nat]
        /\ UNCHANGED << clock, code, family, tokens >>
    BY <1>11, EndTxType, EmitType DEF RevokeAccess
  <2>2. session' \in Session
    BY <1>11, SessionOps DEF RevokeAccess
  <2> QED BY <2>1, <2>2 DEF RowsOK
<1>12. ASSUME NEW p \in Procs, Rollback(p)
       PROVE  RowsOK' /\ LocalsOK'
  BY <1>2, <1>12, EndTxType DEF Rollback, RowsOK, rows
<1>13. ASSUME CodeExpires \/ Tick
       PROVE  RowsOK' /\ LocalsOK'
  BY <1>2, <1>13, ClockAssumption
     DEF CodeExpires, Tick, RowsOK, LocalsOK, rows, locks, locals, copies, Time
<1>14. ASSUME UNCHANGED vars
       PROVE  RowsOK' /\ LocalsOK'
  BY <1>2, <1>14 DEF vars, RowsOK, LocalsOK, rows, locks, locals, copies
<1> QED BY <1>3, <1>4, <1>5, <1>6, <1>7, <1>8, <1>9, <1>10, <1>11, <1>12, <1>13, <1>14,
           NextCases

----------------------------------------------------------------------------
(* The inductive step, one conjunct of IInv at a time *)

(* What a commit does to the tokens: nothing, the first token, a revocation of  *)
(* the whole table, or one rotation.  The rest of the proof looks at no other   *)
(* detail of the handlers.                                                      *)
FirstTokenIssued(t) ==
  /\ tokens = NoTokens
  /\ family = NoFamily
  /\ \E k \in Token : /\ tokens' = [tokens EXCEPT ![t] = k]
                      /\ k.parent = None /\ k.issuedAt # NoTime /\ k.rotatedAt = NoTime
  /\ family'.reuseDetectedAt = NoTime

TokensRevoked ==
  /\ family.revokedAt = NoTime
  /\ family'.revokedAt # NoTime
  /\ Issued(tokens') = Issued(tokens)
  /\ \A t \in Tokens : /\ tokens'[t].parent = tokens[t].parent
                       /\ tokens'[t].issuedAt = tokens[t].issuedAt
                       /\ tokens'[t].rotatedAt = tokens[t].rotatedAt
  /\ \A t \in Issued(tokens) : tokens'[t].revokedAt # NoTime

TokenRotated(old, new, at) ==
  /\ family.revokedAt = NoTime
  /\ family'.reuseDetectedAt = family.reuseDetectedAt
  /\ old \in Issued(tokens) /\ new \in Tokens \ Issued(tokens)
  /\ tokens[old].rotatedAt = NoTime
  /\ at # NoTime
  /\ \E k \in Token : /\ tokens' = [tokens EXCEPT ![old].rotatedAt = at, ![new] = k]
                      /\ k.parent = old /\ k.issuedAt = at /\ k.rotatedAt = NoTime

(* Creating the session with a family issues the first token, without one it    *)
(* leaves the family and its tokens absent.                                      *)
LEMMA CreateEffect ==
  ASSUME IInv, NEW p \in Procs, NEW w \in BOOLEAN, NEW t \in Tokens, CreateSession(p, w, t)
  PROVE  UNCHANGED << family, tokens >> \/ FirstTokenIssued(t)
<1>1. CASE ~w
  BY <1>1 DEF CreateSession
<1>2. CASE w
  <2> DEFINE k == NewToken(None, now[p], NewFamily(now[p]).absoluteExpiresAt)
  <2>1. now[p] \in Time /\ now[p] # NoTime
    BY ClockAssumption DEF IInv, TypeOK, Time, NoTime
  <2>2. NewFamily(now[p]).absoluteExpiresAt \in Int
    BY <2>1, NewRows DEF Family, Deadline
  <2>3. k \in Token /\ k.parent = None /\ k.issuedAt # NoTime /\ k.rotatedAt = NoTime
    <3> DEFINE deadline == NewFamily(now[p]).absoluteExpiresAt
    <3>1. deadline \in Int /\ None \in Tokens \cup {None}
      BY <2>2
    <3> HIDE DEF deadline
    <3>2. NewToken(None, now[p], deadline) \in Token
      BY <2>1, <3>1, NewRows
    <3>3. /\ NewToken(None, now[p], deadline).parent = None
          /\ NewToken(None, now[p], deadline).issuedAt = now[p]
          /\ NewToken(None, now[p], deadline).rotatedAt = NoTime
      BY DEF NewToken
    <3> QED BY <2>1, <3>2, <3>3 DEF deadline
  <2>4. tokens = NoTokens /\ family = NoFamily
    BY DEF IInv, CodeHeldOnce, CreateSession
  <2>5. tokens' = [tokens EXCEPT ![t] = k] /\ family' = NewFamily(now[p])
    BY <1>2 DEF CreateSession
  <2>6. family'.reuseDetectedAt = NoTime
    BY <2>5 DEF NewFamily, NoFamily
  <2> QED BY <2>3, <2>4, <2>5, <2>6 DEF FirstTokenIssued
<1> QED BY <1>1, <1>2

(* The family a lock holder writes back is what it read, changed: what each of   *)
(* the three handlers that save it makes of the stored rows.                      *)
LEMMA ReuseSaves ==
  ASSUME IInv, NEW p \in Procs, DetectReuse(p)
  PROVE  /\ Reused(family, tokens, presented[p], now[p])
         /\ presented[p] \in Issued(tokens)
         /\ [tokens EXCEPT ![presented[p]].reuseDetectedAt = now[p]] \in [Tokens -> Token]
         /\ tokens' = RevokeAll([tokens EXCEPT ![presented[p]].reuseDetectedAt = now[p]], now[p])
         /\ family' = [family EXCEPT !.reuseDetectedAt = now[p], !.revokedAt = now[p]]
<1> DEFINE marked == [tokens EXCEPT ![presented[p]].reuseDetectedAt = now[p]]
           table == RevokeAll(marked, now[p])
           revoked == [family EXCEPT !.reuseDetectedAt = now[p], !.revokedAt = now[p]]
<1>1. now[p] \in Time
  BY DEF IInv, TypeOK
<1>2. famCopy[p] = family /\ tokCopy[p] = tokens
  BY DEF IInv, LockedFamilyIsCurrent, HolderIsCurrent, HoldsFamily, DetectReuse
<1>3. presented[p] \in Issued(tokens) /\ presented[p] \in Tokens
  BY DEF IInv, StepMatchesHandler, HandlerOf, DetectReuse, Issued
<1>4. tokens \in [Tokens -> Token]
  BY DEF IInv, TypeOK
<1>5. marked \in [Tokens -> Token]
  BY <1>1, <1>3, <1>4, MarkToken
<1>6. \A t \in Tokens : marked[t].issuedAt = tokens[t].issuedAt
  BY <1>4 DEF Token
<1>7. Issued(marked) = Issued(tokens) /\ \A t \in Tokens \ Issued(marked) : tokens[t] = marked[t]
  BY <1>3, <1>4, <1>6 DEF Issued
<1>8. SaveFamily(revoked, table) /\ Reused(family, tokens, presented[p], now[p])
  BY <1>2 DEF DetectReuse
<1> HIDE DEF marked
<1>9. table \in [Tokens -> Token] /\ Issued(table) = Issued(tokens)
  BY <1>1, <1>5, <1>7, RevokeAllTokens
<1>10. \A t \in Tokens \ Issued(table) : tokens[t] = table[t]
  BY <1>7, <1>9 DEF RevokeAll
<1> HIDE DEF table, revoked
<1>11. tokens' = table /\ family' = revoked
  BY <1>4, <1>8, <1>9, <1>10, SavedTable
<1> QED BY <1>3, <1>5, <1>8, <1>11 DEF marked, table, revoked

LEMMA RevokeRefreshSaves ==
  ASSUME IInv, NEW p \in Procs, RevokeRefresh(p)
  PROVE  /\ family.revokedAt = NoTime /\ now[p] >= FamilyChangedAt(family)
         /\ tokens' = RevokeAll(tokens, now[p])
         /\ family' = [family EXCEPT !.revokedAt = now[p]]
<1> DEFINE table == RevokeAll(tokens, now[p])
           revoked == [family EXCEPT !.revokedAt = now[p]]
<1>1. now[p] \in Time
  BY DEF IInv, TypeOK
<1>2. famCopy[p] = family /\ tokCopy[p] = tokens
  BY DEF IInv, LockedFamilyIsCurrent, HolderIsCurrent, HoldsFamily, RevokeRefresh
<1>3. tokens \in [Tokens -> Token]
  BY DEF IInv, TypeOK
<1>4. table \in [Tokens -> Token] /\ Issued(table) = Issued(tokens)
  BY <1>1, <1>3, RevokeAllTokens
<1>5. \A t \in Tokens \ Issued(table) : tokens[t] = table[t]
  BY <1>4 DEF RevokeAll
<1>6. SaveFamily(revoked, table) /\ family.revokedAt = NoTime /\ now[p] >= FamilyChangedAt(family)
  BY <1>2 DEF RevokeRefresh, CanRevokeFamily
<1> HIDE DEF table, revoked
<1>7. tokens' = table /\ family' = revoked
  BY <1>3, <1>4, <1>5, <1>6, SavedTable
<1> QED BY <1>6, <1>7 DEF table, revoked

LEMMA RotateSaves ==
  ASSUME IInv, NEW p \in Procs, NEW t \in Tokens, RotateToken(p, t)
  PROVE  /\ Rotatable(family, tokens, presented[p], now[p])
         /\ presented[p] \in Issued(tokens) /\ t \in Tokens \ Issued(tokens)
         /\ NewToken(presented[p], now[p], family.absoluteExpiresAt) \in Token
         /\ tokens' = [tokens EXCEPT ![presented[p]].rotatedAt = now[p],
                                     ![t] = NewToken(presented[p], now[p], family.absoluteExpiresAt)]
         /\ family' = [family EXCEPT !.lastRotatedAt = now[p]]
<1> DEFINE k == NewToken(presented[p], now[p], family.absoluteExpiresAt)
           marked == [tokens EXCEPT ![presented[p]].rotatedAt = now[p]]
           table == [tokens EXCEPT ![presented[p]].rotatedAt = now[p], ![t] = k]
<1>1. now[p] \in Time /\ now[p] # NoTime
  BY ClockAssumption DEF IInv, TypeOK, Time, NoTime
<1>2. famCopy[p] = family /\ tokCopy[p] = tokens
  BY DEF IInv, LockedFamilyIsCurrent, HolderIsCurrent, HoldsFamily, RotateToken
<1>3. presented[p] \in Issued(tokens) /\ presented[p] \in Tokens
  BY DEF IInv, StepMatchesHandler, HandlerOf, RotateToken, Issued
<1>4. tokens \in [Tokens -> Token] /\ family \in Family
  BY DEF IInv, TypeOK
<1>5. t \in Tokens \ Issued(tokens) /\ t # presented[p]
  BY <1>3 DEF RotateToken
<1>6. k \in Token /\ k.issuedAt = now[p]
  <2>1. family.absoluteExpiresAt \in Int
    BY <1>4 DEF Family, Deadline
  <2> QED BY <1>1, <1>3, <2>1, NewRows
<1>7. SaveFamily([family EXCEPT !.lastRotatedAt = now[p]], table)
      /\ Rotatable(family, tokens, presented[p], now[p])
  BY <1>2 DEF RotateToken
<1>8. marked \in [Tokens -> Token]
  BY <1>1, <1>3, <1>4, MarkToken
<1>9. table = [marked EXCEPT ![t] = k]
  OBVIOUS
<1> HIDE DEF k
<1>10. \A s \in Tokens : /\ s = t => table[s] = k
                         /\ s # t => table[s] = marked[s]
  BY <1>8, <1>9
<1>11. \A s \in Tokens : /\ marked[s].issuedAt = tokens[s].issuedAt
                         /\ s # presented[p] => marked[s] = tokens[s]
  BY <1>4 DEF Token
<1>12. table \in [Tokens -> Token]
  BY <1>6, <1>8, <1>9
<1> HIDE DEF marked, table
<1>13. Issued(tokens) \subseteq Issued(table)
  BY <1>5, <1>10, <1>11 DEF Issued
<1>14. \A s \in Tokens \ Issued(table) : tokens[s] = table[s]
  BY <1>1, <1>3, <1>6, <1>10, <1>11 DEF Issued
<1>15. tokens' = table /\ family' = [family EXCEPT !.lastRotatedAt = now[p]]
  BY <1>4, <1>7, <1>12, <1>13, <1>14, SavedTable
<1> QED BY <1>3, <1>5, <1>6, <1>7, <1>15 DEF k, table

(* Reuse detection revokes the whole table, with the session.                    *)
LEMMA ReuseEffect ==
  ASSUME IInv, NEW p \in Procs, DetectReuse(p)
  PROVE  TokensRevoked /\ session'.revokedAt # NoTime
<1> DEFINE marked == [tokens EXCEPT ![presented[p]].reuseDetectedAt = now[p]]
<1>1. now[p] \in Time /\ now[p] # NoTime
  BY ClockAssumption DEF IInv, TypeOK, Time, NoTime
<1>2. tokens \in [Tokens -> Token] /\ family \in Family
  BY DEF IInv, TypeOK
<1>3. marked \in [Tokens -> Token] /\ tokens' = RevokeAll(marked, now[p])
  BY ReuseSaves
<1>4. \A t \in Tokens : /\ marked[t].parent = tokens[t].parent
                        /\ marked[t].issuedAt = tokens[t].issuedAt
                        /\ marked[t].rotatedAt = tokens[t].rotatedAt
  BY <1>2 DEF Token
<1>5. Issued(marked) = Issued(tokens)
  BY <1>4 DEF Issued
<1> HIDE DEF marked
<1>6. /\ Issued(tokens') = Issued(tokens)
      /\ \A t \in Tokens : /\ tokens'[t].parent = tokens[t].parent
                           /\ tokens'[t].issuedAt = tokens[t].issuedAt
                           /\ tokens'[t].rotatedAt = tokens[t].rotatedAt
      /\ \A t \in Issued(tokens) : tokens'[t].revokedAt # NoTime
  BY <1>1, <1>3, <1>4, <1>5, RevokeAllTokens
<1>7. family'.revokedAt # NoTime
  BY <1>1, <1>2, ReuseSaves DEF Family
<1>8. family.revokedAt = NoTime
  BY ReuseSaves DEF Reused, RotationAllowed
<1>9. session'.revokedAt # NoTime
  BY <1>1 DEF IInv, TypeOK, Session, DetectReuse, RevokeSession
<1> QED BY <1>6, <1>7, <1>8, <1>9 DEF TokensRevoked

(* RevokeToken of a refresh token revokes the table without a trace of reuse.    *)
LEMMA RevokeRefreshEffect ==
  ASSUME IInv, NEW p \in Procs, RevokeRefresh(p)
  PROVE  TokensRevoked /\ family'.reuseDetectedAt = family.reuseDetectedAt
<1>1. now[p] \in Time /\ now[p] # NoTime
  BY ClockAssumption DEF IInv, TypeOK, Time, NoTime
<1>2. tokens \in [Tokens -> Token] /\ family \in Family
  BY DEF IInv, TypeOK
<1>3. /\ Issued(tokens') = Issued(tokens)
      /\ \A t \in Tokens : /\ tokens'[t].parent = tokens[t].parent
                           /\ tokens'[t].issuedAt = tokens[t].issuedAt
                           /\ tokens'[t].rotatedAt = tokens[t].rotatedAt
      /\ \A t \in Issued(tokens) : tokens'[t].revokedAt # NoTime
  BY <1>1, <1>2, RevokeRefreshSaves, RevokeAllTokens
<1>4. family'.revokedAt # NoTime /\ family'.reuseDetectedAt = family.reuseDetectedAt
  BY <1>1, <1>2, RevokeRefreshSaves DEF Family
<1> QED BY <1>3, <1>4, RevokeRefreshSaves DEF TokensRevoked

(* A committed refresh rotates the presented token into a fresh one.              *)
LEMMA RotateEffect ==
  ASSUME IInv, NEW p \in Procs, NEW t \in Tokens, RotateToken(p, t)
  PROVE  TokenRotated(presented[p], t, now[p])
<1> DEFINE k == NewToken(presented[p], now[p], family.absoluteExpiresAt)
<1>1. now[p] # NoTime /\ family \in Family
  BY ClockAssumption DEF IInv, TypeOK, Time, NoTime
<1>2. family.revokedAt = NoTime /\ tokens[presented[p]].rotatedAt = NoTime
  BY RotateSaves DEF Rotatable, RotationAllowed
<1>3. k.parent = presented[p] /\ k.issuedAt = now[p] /\ k.rotatedAt = NoTime
  BY DEF NewToken
<1>4. k \in Token /\ tokens' = [tokens EXCEPT ![presented[p]].rotatedAt = now[p], ![t] = k]
  BY RotateSaves
<1> HIDE DEF k
<1>5. \E new \in Token :
         /\ tokens' = [tokens EXCEPT ![presented[p]].rotatedAt = now[p], ![t] = new]
         /\ new.parent = presented[p] /\ new.issuedAt = now[p] /\ new.rotatedAt = NoTime
  BY <1>3, <1>4
<1>6. family'.reuseDetectedAt = family.reuseDetectedAt
  BY <1>1, RotateSaves DEF Family
<1> QED BY <1>1, <1>2, <1>5, <1>6, RotateSaves DEF TokenRotated

(* Every step of the endpoint is one of the four, for the family.                 *)
LEMMA FamilyEffect ==
  ASSUME IInv, [Next]_vars
  PROVE  \/ UNCHANGED << family, tokens >>
         \/ \E t \in Tokens : FirstTokenIssued(t)
         \/ TokensRevoked
         \/ \E old, new \in Tokens, at \in Time : TokenRotated(old, new, at)
<1>1. CASE UNCHANGED vars
  BY <1>1 DEF vars, rows
<1>2. ASSUME NEW p \in Procs, NEW t \in Tokens, RotateToken(p, t)
      PROVE  \E old, new \in Tokens, at \in Time : TokenRotated(old, new, at)
  <2>1. presented[p] \in Tokens /\ now[p] \in Time
    BY <1>2 DEF IInv, TypeOK, StepMatchesHandler, HandlerOf, RotateToken, Issued
  <2> QED BY <1>2, <2>1, RotateEffect
<1>3. ASSUME NEW p \in Procs,
             \/ \E o \in Operations, t \in Tokens \cup {None} : Begin(p, o, t)
             \/ AuthenticatePublic(p) \/ AuthenticateConfidential(p)
             \/ ConsumeCode(p) \/ LockFamily(p) \/ ReadSession(p)
             \/ RevokeAccess(p) \/ Rollback(p)
      PROVE  UNCHANGED << family, tokens >>
  BY <1>3 DEF Begin, AuthenticatePublic, AuthenticateConfidential, ConsumeCode, LockFamily,
              ReadSession, RevokeAccess, Rollback, rows
<1>4. CodeExpires \/ Tick => UNCHANGED << family, tokens >>
  BY DEF CodeExpires, Tick, rows
<1> QED BY <1>1, <1>2, <1>3, <1>4, NextCases, CreateEffect, ReuseEffect, RevokeRefreshEffect

(* Once issued, a token stays: nothing deletes from refresh_tokens.               *)
LEMMA IssuedGrows ==
  ASSUME IInv, [Next]_vars
  PROVE  Issued(tokens) \subseteq Issued(tokens')
<1>1. tokens \in [Tokens -> Token]
  BY DEF IInv, TypeOK
<1>2. ASSUME NEW t \in Tokens, FirstTokenIssued(t)
      PROVE  Issued(tokens) = {}
  BY <1>2 DEF FirstTokenIssued, NoTokens, NoToken, Issued
<1>3. ASSUME NEW old \in Tokens, NEW new \in Tokens, NEW at \in Time, TokenRotated(old, new, at)
      PROVE  Issued(tokens) \subseteq Issued(tokens')
  BY <1>1, <1>3 DEF TokenRotated, Issued, Token
<1> QED BY <1>2, <1>3, FamilyEffect DEF TokensRevoked

(* Handlers keep to their own steps, and presented tokens stay issued.            *)
LEMMA HandlerStep ==
  ASSUME IInv, [Next]_vars
  PROVE  StepMatchesHandler'
<1>1. TypeOK /\ StepMatchesHandler /\ Issued(tokens) \subseteq Issued(tokens')
  BY IssuedGrows DEF IInv
<1>2. SUFFICES ASSUME NEW q \in Procs PROVE HandlerOf(q)'
  BY DEF StepMatchesHandler
<1>3. CASE UNCHANGED << pc, op, presented >>
  BY <1>1, <1>3 DEF StepMatchesHandler, HandlerOf
<1>4. ASSUME NEW p \in Procs, EndTx(p)
      PROVE  HandlerOf(q)'
  BY <1>1, <1>4 DEF TypeOK, StepMatchesHandler, HandlerOf, EndTx, Goto
<1>5. ASSUME NEW p \in Procs, NEW o \in Operations, NEW t \in Tokens \cup {None}, Begin(p, o, t)
      PROVE  HandlerOf(q)'
  BY <1>1, <1>5 DEF TypeOK, StepMatchesHandler, HandlerOf, Begin, Goto
<1>6. ASSUME NEW p \in Procs, AuthenticatePublic(p) \/ AuthenticateConfidential(p)
      PROVE  HandlerOf(q)'
  BY <1>1, <1>6 DEF TypeOK, StepMatchesHandler, HandlerOf, AuthenticatePublic, AuthenticateConfidential,
                    Goto, FirstStep, Operations
<1>7. ASSUME NEW p \in Procs, ConsumeCode(p) \/ LockFamily(p) \/ ReadSession(p)
      PROVE  HandlerOf(q)'
  BY <1>1, <1>7 DEF TypeOK, StepMatchesHandler, HandlerOf, ConsumeCode, LockFamily, ReadSession, Goto
<1>8. ASSUME CodeExpires \/ Tick \/ UNCHANGED vars
      PROVE  UNCHANGED << pc, op, presented >>
  BY <1>8 DEF CodeExpires, Tick, vars, locals
<1> QED BY <1>3, <1>4, <1>5, <1>6, <1>7, <1>8, NextCases
        DEF CreateSession, DetectReuse, RotateToken, RevokeRefresh, RevokeAccess, Rollback

(* The family row changes only under its lock, so copies of the holder are it.    *)
LEMMA LockStep ==
  ASSUME IInv, [Next]_vars
  PROVE  LockedFamilyIsCurrent'
<1>1. TypeOK /\ StepMatchesHandler /\ CodeHeldOnce /\ LockedFamilyIsCurrent
  BY DEF IInv
<1>2. SUFFICES ASSUME NEW q \in Procs PROVE HolderIsCurrent(q)'
  BY DEF LockedFamilyIsCurrent
<1>3. ASSUME NEW p \in Procs, EndTx(p), p = q \/ ~HoldsFamily(q) \/ UNCHANGED << family, tokens >>
      PROVE  HolderIsCurrent(q)'
  BY <1>1, <1>3, NoneAssumption
     DEF TypeOK, LockedFamilyIsCurrent, HolderIsCurrent, HoldsFamily, EndTx, Goto, Release
<1>4. ASSUME NEW p \in Procs, HoldsFamily(p)
      PROVE  p = q \/ ~HoldsFamily(q)
  BY <1>1, <1>4 DEF LockedFamilyIsCurrent, HolderIsCurrent
<1>5. ASSUME NEW p \in Procs, DetectReuse(p) \/ RevokeRefresh(p) \/ \E t \in Tokens : RotateToken(p, t)
      PROVE  EndTx(p) /\ HoldsFamily(p)
  BY <1>5 DEF DetectReuse, RevokeRefresh, RotateToken, HoldsFamily
<1>6. ASSUME NEW p \in Procs, RevokeAccess(p) \/ Rollback(p)
      PROVE  EndTx(p) /\ UNCHANGED << family, tokens >>
  BY <1>6 DEF RevokeAccess, Rollback, rows
<1>7. ASSUME NEW p \in Procs, NEW w \in BOOLEAN, NEW t \in Tokens, CreateSession(p, w, t)
      PROVE  EndTx(p) /\ ~HoldsFamily(q)
  <2>1. tokens = NoTokens
    BY <1>1, <1>7 DEF CodeHeldOnce, CreateSession
  <2>2. Issued(tokens) = {}
    BY <2>1 DEF Issued, NoTokens, NoToken
  <2> QED BY <1>1, <1>7, <2>2 DEF CreateSession, HoldsFamily, StepMatchesHandler, HandlerOf
<1>8. ASSUME NEW p \in Procs, NEW o \in Operations, NEW t \in Tokens \cup {None}, Begin(p, o, t)
      PROVE  HolderIsCurrent(q)'
  BY <1>1, <1>8 DEF TypeOK, LockedFamilyIsCurrent, HolderIsCurrent, HoldsFamily, Begin, Goto, rows, locks, copies
<1>9. ASSUME NEW p \in Procs,
             AuthenticatePublic(p) \/ AuthenticateConfidential(p) \/ ConsumeCode(p)
      PROVE  HolderIsCurrent(q)'
  BY <1>1, <1>9 DEF TypeOK, LockedFamilyIsCurrent, HolderIsCurrent, HoldsFamily, AuthenticatePublic,
     AuthenticateConfidential, ConsumeCode, Goto, FirstStep, Operations, rows, locks, copies
<1>10. ASSUME NEW p \in Procs, LockFamily(p)
       PROVE  HolderIsCurrent(q)'
  BY <1>1, <1>10, NoneAssumption
     DEF TypeOK, StepMatchesHandler, HandlerOf, LockedFamilyIsCurrent, HolderIsCurrent, HoldsFamily, LockFamily, Goto, rows
<1>11. ASSUME NEW p \in Procs, ReadSession(p)
       PROVE  HolderIsCurrent(q)'
  BY <1>1, <1>11
     DEF TypeOK, StepMatchesHandler, HandlerOf, LockedFamilyIsCurrent, HolderIsCurrent, HoldsFamily, ReadSession, Goto,
         rows, locks
<1>12. ASSUME CodeExpires \/ Tick \/ UNCHANGED vars
       PROVE  HolderIsCurrent(q)'
  BY <1>1, <1>12 DEF LockedFamilyIsCurrent, HolderIsCurrent, HoldsFamily, CodeExpires, Tick, vars, rows, locks,
                     locals, copies
<1> QED BY <1>3, <1>4, <1>5, <1>6, <1>7, <1>8, <1>9, <1>10, <1>11, <1>12, NextCases

(* Redis hands the code to one exchange, which finds no session yet.              *)
LEMMA CodeStep ==
  ASSUME IInv, [Next]_vars
  PROVE  CodeHeldOnce'
<1>1. TypeOK /\ StepMatchesHandler /\ CodeHeldOnce /\ LockedFamilyIsCurrent
  BY DEF IInv
<1> DEFINE Kept == \A q \in Procs :
      /\ pc'[q] \in {"create", "rotate", "revokeSession"} =>
           pc'[q] = pc[q] /\ sesCopy'[q] = sesCopy[q]
      /\ op'[q] = "revokeAccess" => op[q] = "revokeAccess"
<1>9. ASSUME NEW p \in Procs, EndTx(p)
      PROVE  Kept /\ pc'[p] = "idle"
  BY <1>1, <1>9 DEF TypeOK, EndTx, Goto
<1>10. ASSUME UNCHANGED << code, session, family, tokens >>, Kept
       PROVE  CodeHeldOnce'
  BY <1>1, <1>10 DEF CodeHeldOnce, Exists
<1>2. ASSUME NEW p \in Procs, EndTx(p), UNCHANGED << code, session, family, tokens >>
      PROVE  CodeHeldOnce'
  BY <1>2, <1>9, <1>10
<1>3. ASSUME NEW p \in Procs, NEW w \in BOOLEAN, NEW t \in Tokens, CreateSession(p, w, t)
      PROVE  CodeHeldOnce'
  <2>1. Exists(session')
    BY <1>1, <1>3, ClockAssumption
       DEF TypeOK, Exists, CreateSession, NewSession, Time, NoTime
  <2>2. Kept /\ pc'[p] = "idle" /\ code' = code
    BY <1>3, <1>9 DEF CreateSession
  <2>3. code' = "gone" /\ \A q \in Procs : pc'[q] # "create"
    BY <1>1, <1>3, <2>2 DEF CodeHeldOnce, CreateSession
  <2> QED BY <1>1, <2>1, <2>2, <2>3 DEF CodeHeldOnce, Exists
<1>4. ASSUME NEW p \in Procs, ConsumeCode(p)
      PROVE  CodeHeldOnce'
  <2>1. /\ code = "stored" /\ code' = "gone"
        /\ UNCHANGED << session, family, tokens, op, sesCopy >>
    BY <1>4 DEF ConsumeCode, rows, copies
  <2>2. \A q \in Procs : pc'[q] = IF q = p THEN "create" ELSE pc[q]
    BY <1>1, <1>4 DEF TypeOK, ConsumeCode, Goto
  <2>3. ~Exists(session) /\ \A q \in Procs : pc[q] # "create"
    BY <1>1, <2>1 DEF CodeHeldOnce
  <2> QED BY <1>1, <2>1, <2>2, <2>3 DEF CodeHeldOnce, Exists
<1>5. ASSUME NEW p \in Procs,
             \/ \E o \in Operations, t \in Tokens \cup {None} : Begin(p, o, t)
             \/ AuthenticatePublic(p) \/ AuthenticateConfidential(p)
             \/ LockFamily(p) \/ ReadSession(p)
      PROVE  CodeHeldOnce'
  <2>1. UNCHANGED << code, session, family, tokens >>
    BY <1>5 DEF Begin, AuthenticatePublic, AuthenticateConfidential, LockFamily, ReadSession, rows
  <2>2. \A q \in Procs : /\ pc'[q] = "create" => pc[q] = "create"
                         /\ op'[q] = "revokeAccess" => Exists(session)
    BY <1>1, <1>5 DEF TypeOK, CodeHeldOnce, Begin, AuthenticatePublic, AuthenticateConfidential, LockFamily,
       ReadSession, Goto, FirstStep, Operations
  <2>3. ASSUME NEW q \in Procs, pc'[q] \in {"rotate", "revokeSession"}
        PROVE  Exists(sesCopy'[q])
    <3>1. CASE pc'[q] = pc[q] /\ sesCopy'[q] = sesCopy[q]
      BY <1>1, <2>3, <3>1 DEF CodeHeldOnce, Exists
    <3>2. CASE ReadSession(q)
      <4>1. tokens # NoTokens \/ op[q] = "revokeAccess"
        BY <1>1, <3>2 DEF StepMatchesHandler, HandlerOf, ReadSession, Issued, NoTokens, NoToken
      <4>2. Exists(session)
        BY <1>1, <4>1 DEF CodeHeldOnce
      <4> QED BY <1>1, <3>2, <4>2 DEF TypeOK, ReadSession, Exists
    <3> QED BY <1>1, <1>5, <2>3, <3>1, <3>2 DEF TypeOK, Begin, AuthenticatePublic,
            AuthenticateConfidential, LockFamily, ReadSession, Goto, FirstStep, Operations, copies
  <2>4. \A q \in Procs : pc'[q] = "create" =>
          /\ code' = "gone"
          /\ ~Exists(session')
          /\ \A r \in Procs \ {q} : pc'[r] # "create"
    BY <1>1, <2>1, <2>2 DEF CodeHeldOnce, Exists
  <2>5. /\ code' = "stored" => ~Exists(session')
        /\ ~Exists(session') => family' = NoFamily /\ tokens' = NoTokens
        /\ \A q \in Procs : op'[q] = "revokeAccess" => Exists(session')
    BY <1>1, <2>1, <2>2 DEF CodeHeldOnce, Exists
  <2> QED BY <2>3, <2>4, <2>5 DEF CodeHeldOnce, Exists
<1>6. ASSUME CodeExpires \/ Tick \/ UNCHANGED vars
      PROVE  CodeHeldOnce'
  <2>1. UNCHANGED << session, family, tokens, pc, op, sesCopy >> /\ (code' = code \/ code' = "gone")
    BY <1>6 DEF CodeExpires, Tick, vars, rows, locals, copies
  <2> QED BY <1>1, <2>1 DEF CodeHeldOnce, Exists
<1>7. ASSUME NEW p \in Procs, Rollback(p)
      PROVE  EndTx(p) /\ UNCHANGED << code, session, family, tokens >>
  BY <1>7 DEF Rollback, rows
\* The handlers that write a session or a family find one, so no exchange is under way.
<1>8. ASSUME NEW p \in Procs,
             \/ DetectReuse(p) \/ RevokeRefresh(p) \/ RevokeAccess(p)
             \/ \E t \in Tokens : RotateToken(p, t)
      PROVE  CodeHeldOnce'
  <2>1. EndTx(p) /\ code' = code
    BY <1>8 DEF DetectReuse, RevokeRefresh, RevokeAccess, RotateToken
  <2>2. Exists(session)
    <3>1. presented[p] \in Issued(tokens) \/ op[p] = "revokeAccess"
      BY <1>1, <1>8 DEF StepMatchesHandler, HandlerOf, DetectReuse, RevokeRefresh, RevokeAccess,
                        RotateToken
    <3>2. Issued(NoTokens) = {}
      BY DEF Issued, NoTokens, NoToken
    <3> QED BY <1>1, <3>1, <3>2 DEF CodeHeldOnce
  <2>3. Exists(session')
    BY <1>1, <1>8, <2>2 DEF TypeOK, Session, CodeHeldOnce, Exists, DetectReuse, RevokeRefresh,
       RevokeAccess, RotateToken, RevokeSession, RecordActivity
  <2>4. Kept
    BY <2>1, <1>9
  <2>5. code' = "gone" /\ \A q \in Procs : pc'[q] # "create"
    BY <1>1, <2>1, <2>2, <2>4 DEF TypeOK, CodeHeldOnce
  <2> QED BY <1>1, <2>3, <2>4, <2>5 DEF CodeHeldOnce, Exists
<1> QED BY <1>2, <1>3, <1>4, <1>5, <1>6, <1>7, <1>8, NextCases

(* The chain survives each of the four effects.                                   *)
LEMMA ChainStep ==
  ASSUME IInv, [Next]_vars
  PROVE  SingleCurrentToken' /\ RotationChain'
<1>1. SingleCurrentToken /\ RotationChain /\ tokens \in [Tokens -> Token]
  BY DEF IInv, TypeOK
<1>2. CASE UNCHANGED << family, tokens >>
  BY <1>1, <1>2 DEF SingleCurrentToken, RotationChain, Issued
<1>3. ASSUME NEW t \in Tokens, FirstTokenIssued(t)
      PROVE  SingleCurrentToken' /\ RotationChain'
  <2>1. Issued(tokens') = {t} /\ tokens'[t].parent = None /\ tokens'[t].rotatedAt = NoTime
    BY <1>1, <1>3 DEF FirstTokenIssued, Issued, NoTokens, NoToken
  <2> QED BY <2>1 DEF SingleCurrentToken, RotationChain
<1>4. CASE TokensRevoked
  BY <1>1, <1>4 DEF TokensRevoked, SingleCurrentToken, RotationChain, Issued
<1>5. ASSUME NEW old \in Tokens, NEW new \in Tokens, NEW at \in Time, TokenRotated(old, new, at)
      PROVE  SingleCurrentToken' /\ RotationChain'
  <2>1. Issued(tokens') = Issued(tokens) \cup {new} /\ old # new
    BY <1>1, <1>5 DEF TokenRotated, Issued, Token
  <2>2. \A t \in Issued(tokens) : /\ tokens'[t].parent = tokens[t].parent
                                  /\ tokens'[t].issuedAt = tokens[t].issuedAt
                                  /\ t # old => tokens'[t].rotatedAt = tokens[t].rotatedAt
    BY <1>1, <1>5 DEF TokenRotated, Issued, Token
  <2>3. /\ tokens'[new].parent = old /\ tokens'[new].issuedAt = at
        /\ tokens'[new].rotatedAt = NoTime
        /\ tokens'[old].rotatedAt = at /\ at # NoTime
        /\ old \in Issued(tokens) /\ new \notin Issued(tokens)
        /\ tokens[old].rotatedAt = NoTime
    BY <1>1, <1>5 DEF TokenRotated, Issued, Token
  (* old was the current token, so no token names it as its parent yet. *)
  <2>4. \A t \in Issued(tokens) : tokens[t].parent # old
    BY <1>1, <2>3, NoneAssumption DEF RotationChain, Issued
  <2>5. \A t \in Issued(tokens) : t # old => tokens[t].rotatedAt # NoTime
    BY <1>1, <2>3 DEF SingleCurrentToken
  <2>6. SingleCurrentToken'
    BY <1>1, <2>1, <2>2, <2>3, <2>4, <2>5 DEF SingleCurrentToken
  <2>7. \A t \in Issued(tokens') : tokens'[t].parent # None =>
          /\ tokens'[t].parent \in Issued(tokens') \ {t}
          /\ tokens'[tokens'[t].parent].rotatedAt = tokens'[t].issuedAt
    BY <1>1, <2>1, <2>2, <2>3, <2>4 DEF RotationChain
  <2>8. \A t \in Issued(tokens') :
          tokens'[t].rotatedAt # NoTime => \E c \in Issued(tokens') : tokens'[c].parent = t
    BY <1>1, <2>1, <2>2, <2>3 DEF RotationChain
  <2> QED BY <2>6, <2>7, <2>8 DEF RotationChain
<1> QED BY <1>2, <1>3, <1>4, <1>5, FamilyEffect

(* After reuse the family is revoked, so only RevokeToken of an access token can  *)
(* still write the session, and it writes it revoked.                             *)
LEMMA ReuseStep ==
  ASSUME IInv, [Next]_vars
  PROVE  ReuseRevokesAll'
<1>1. /\ TypeOK /\ CodeHeldOnce /\ ReuseRevokesAll
      /\ tokens \in [Tokens -> Token]
  BY DEF IInv, TypeOK
<1>2. ASSUME UNCHANGED << family, tokens >>, session' = session \/ session'.revokedAt # NoTime
      PROVE  ReuseRevokesAll'
  BY <1>1, <1>2 DEF ReuseRevokesAll, Issued
<1>3. ASSUME TokensRevoked,
             \/ session'.revokedAt # NoTime
             \/ family'.reuseDetectedAt = family.reuseDetectedAt
      PROVE  ReuseRevokesAll'
  BY <1>1, <1>3 DEF ReuseRevokesAll, TokensRevoked
<1>4. ASSUME NEW p \in Procs, NEW w \in BOOLEAN, NEW t \in Tokens, CreateSession(p, w, t)
      PROVE  ReuseRevokesAll'
  <2>1. family = NoFamily
    BY <1>1, <1>4 DEF CodeHeldOnce, CreateSession
  <2>2. family'.reuseDetectedAt = NoTime
    BY <1>4, <2>1, CreateEffect DEF NoFamily, FirstTokenIssued
  <2> QED BY <2>2 DEF ReuseRevokesAll
<1>5. ASSUME NEW p \in Procs, DetectReuse(p)
      PROVE  ReuseRevokesAll'
  BY <1>3, <1>5, ReuseEffect
<1>6. ASSUME NEW p \in Procs, NEW t \in Tokens, RotateToken(p, t)
      PROVE  ReuseRevokesAll'
  <2>1. family.revokedAt = NoTime /\ family'.reuseDetectedAt = family.reuseDetectedAt
    BY <1>6, RotateEffect DEF TokenRotated
  <2> QED BY <1>1, <2>1 DEF ReuseRevokesAll
<1>7. ASSUME NEW p \in Procs, RevokeRefresh(p)
      PROVE  ReuseRevokesAll'
  BY <1>3, <1>7, RevokeRefreshEffect
<1>8. ASSUME NEW p \in Procs, RevokeAccess(p)
      PROVE  ReuseRevokesAll'
  <2>1. session'.revokedAt # NoTime
    BY <1>1, <1>8, ClockAssumption DEF TypeOK, Session, Time, NoTime, RevokeAccess, RevokeSession
  <2> QED BY <1>2, <1>8, <2>1 DEF RevokeAccess
<1>9. ASSUME NEW p \in Procs,
             \/ \E o \in Operations, t \in Tokens \cup {None} : Begin(p, o, t)
             \/ AuthenticatePublic(p) \/ AuthenticateConfidential(p)
             \/ ConsumeCode(p) \/ LockFamily(p) \/ ReadSession(p) \/ Rollback(p)
      PROVE  ReuseRevokesAll'
  BY <1>2, <1>9 DEF Begin, AuthenticatePublic, AuthenticateConfidential, ConsumeCode, LockFamily,
                    ReadSession, Rollback, rows
<1>10. ASSUME CodeExpires \/ Tick \/ UNCHANGED vars
       PROVE  ReuseRevokesAll'
  BY <1>2, <1>10 DEF CodeExpires, Tick, vars, rows
<1> QED BY <1>4, <1>5, <1>6, <1>7, <1>8, <1>9, <1>10, NextCases

----------------------------------------------------------------------------
LEMMA InitIInv ==
  ASSUME Init
  PROVE  IInv
<1>1. 0 \in Time
  BY ClockAssumption DEF Time
<1>2. TypeOK
  BY <1>1, NewRows DEF Init, TypeOK, Steps, Operations
<1>3. Issued(tokens) = {}
  BY DEF Init, Issued, NoTokens, NoToken
<1>4. StepMatchesHandler /\ CodeHeldOnce /\ LockedFamilyIsCurrent
  BY NoneAssumption DEF Init, StepMatchesHandler, HandlerOf, CodeHeldOnce, LockedFamilyIsCurrent,
     HolderIsCurrent, HoldsFamily, Exists, NoSession
<1>5. SingleCurrentToken /\ RotationChain
  BY <1>3 DEF SingleCurrentToken, RotationChain
<1>6. ReuseRevokesAll
  BY DEF Init, ReuseRevokesAll, NoFamily
<1> QED BY <1>2, <1>4, <1>5, <1>6 DEF IInv

LEMMA IInvStep ==
  ASSUME IInv, [Next]_vars
  PROVE  IInv'
BY TypeStep, HandlerStep, CodeStep, LockStep, ChainStep, ReuseStep DEF IInv

(* The inductive invariant holds of every behaviour.                              *)
THEOREM Invariance == Spec => []IInv
BY InitIInv, IInvStep, PTL DEF Spec

(* The rows, copies and locals of the token endpoint are well typed.              *)
THEOREM TypeCorrect == Spec => []TypeOK
<1>1. IInv => TypeOK
  BY DEF IInv
<1> QED BY <1>1, Invariance, PTL

(* FOR UPDATE protects the whole-row Update of the family, for any number of      *)
(* concurrent requests of any client.                                             *)
THEOREM FamilyLockSuffices == Spec => []LockedFamilyIsCurrent
<1>1. IInv => LockedFamilyIsCurrent
  BY DEF IInv
<1> QED BY <1>1, Invariance, PTL

(* At most one token of the family is current: the unique indexes of              *)
(* refresh_tokens never refuse a write.                                           *)
THEOREM OneCurrentToken == Spec => []SingleCurrentToken
<1>1. IInv => SingleCurrentToken
  BY DEF IInv
<1> QED BY <1>1, Invariance, PTL

(* The tokens of the family form one chain of rotations.                          *)
THEOREM TokensFormChain == Spec => []RotationChain
<1>1. IInv => RotationChain
  BY DEF IInv
<1> QED BY <1>1, Invariance, PTL

(* Reuse of a rotated token takes the family, all its tokens and the session.     *)
THEOREM ReuseRevokesGrant == Spec => []ReuseRevokesAll
<1>1. IInv => ReuseRevokesAll
  BY DEF IInv
<1> QED BY <1>1, Invariance, PTL

(* A revoked family never changes again: of the four effects only "unchanged"     *)
(* finds the family revoked.                                                      *)
THEOREM RevokedFamilyUntouched == Spec => RevokedFamilyIsFinal
<1>1. ASSUME IInv, [Next]_vars
      PROVE  [family.revokedAt # NoTime => UNCHANGED << family, tokens >>]_vars
  <2>1. ASSUME NEW t \in Tokens, FirstTokenIssued(t)
        PROVE  family.revokedAt = NoTime
    BY <2>1 DEF FirstTokenIssued, NoFamily
  <2> QED BY <1>1, <2>1, FamilyEffect DEF TokensRevoked, TokenRotated
<1> QED BY <1>1, Invariance, PTL DEF Spec, RevokedFamilyIsFinal
============================================================================
