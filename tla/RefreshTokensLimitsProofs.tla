--------------------- MODULE RefreshTokensLimitsProofs ---------------------
(***************************************************************************)
(* Times, lifetimes, the code and the events of RefreshTokens, for any     *)
(* number of requests and tokens and any lifetimes, and what the lock on   *)
(* the client row does for the session of a confidential client.           *)
(***************************************************************************)
EXTENDS RefreshTokensProofs, FiniteSetTheorems

(* A session that was read without a lock may be out of date, but it is this   *)
(* session: what never changes of it is as stored.                              *)
CopiesAreOfSession ==
  \A p \in Procs :
    \/ sesCopy[p] = NoSession
    \/ /\ Exists(session)
       /\ sesCopy[p].createdAt = session.createdAt
       /\ sesCopy[p].absoluteExpiresAt = session.absoluteExpiresAt

(* However old a copy of the session is, its idle deadline is no later than     *)
(* the current token allows, so writing it back moves no deadline too far.      *)
IdleIsBounded ==
  \A t \in Issued(tokens) : tokens[t].rotatedAt = NoTime =>
    /\ session.idleExpiresAt <= tokens[t].issuedAt + IdleLifetime
    /\ \A p \in Procs : sesCopy[p].idleExpiresAt <= tokens[t].issuedAt + IdleLifetime

(* The family and its tokens are revoked together: none of them before it, and  *)
(* none is left when it is.                                                      *)
RevokedTogether ==
  \A t \in Issued(tokens) : tokens[t].revokedAt = NoTime <=> family.revokedAt = NoTime

LimitsInv ==
  /\ RevokedTogether
  /\ CopiesAreOfSession
  /\ TokenTimesWithinFamily
  /\ IdleIsBounded
  /\ TokensWithinLifetimes
  /\ CodeOpensOneSession
  /\ IsFiniteSet(Rotated(tokens)) /\ EventsMatchRows

----------------------------------------------------------------------------
(* Times of the domain objects. *)

LEMMA TimesAreNumbers ==
  /\ MaybeTime \subseteq Int
  /\ \A at \in Time : at \in Nat /\ at # NoTime
  /\ \A at \in MaybeTime : at # NoTime => at \in Nat
BY ClockAssumption DEF Time, MaybeTime, NoTime

LEMMA TokenTimes ==
  ASSUME NEW k \in Token
  PROVE  /\ k.issuedAt \in Int /\ k.rotatedAt \in Int /\ k.revokedAt \in Int
         /\ k.reuseDetectedAt \in Int /\ k.expiresAt \in Int
         /\ TokenChangedAt(k) \in Int
<1>1. /\ k.issuedAt \in Int /\ k.rotatedAt \in Int /\ k.revokedAt \in Int
      /\ k.reuseDetectedAt \in Int /\ k.expiresAt \in Int
  BY TimesAreNumbers DEF Token, Deadline
<1> QED BY <1>1, LaterOfTwo DEF TokenChangedAt, Later

LEMMA FamilyTimes ==
  ASSUME NEW f \in Family
  PROVE  /\ f.createdAt \in Int /\ f.lastRotatedAt \in Int /\ f.reuseDetectedAt \in Int
         /\ f.revokedAt \in Int /\ f.absoluteExpiresAt \in Int
         /\ FamilyChangedAt(f) \in Int
<1>1. /\ f.createdAt \in Int /\ f.lastRotatedAt \in Int /\ f.reuseDetectedAt \in Int
      /\ f.revokedAt \in Int /\ f.absoluteExpiresAt \in Int
  BY TimesAreNumbers DEF Family, Deadline
<1> QED BY <1>1 DEF FamilyChangedAt, Later

LEMMA SessionTimes ==
  ASSUME NEW s \in Session
  PROVE  /\ s.createdAt \in Int /\ s.lastSeenAt \in Int /\ s.revokedAt \in Int
         /\ s.idleExpiresAt \in Int /\ s.absoluteExpiresAt \in Int
         /\ SessionChangedAt(s) \in Int /\ SessionChangedAt(s) >= s.lastSeenAt
<1>1. /\ s.createdAt \in Int /\ s.lastSeenAt \in Int /\ s.revokedAt \in Int
      /\ s.idleExpiresAt \in Int /\ s.absoluteExpiresAt \in Int
  BY TimesAreNumbers DEF Session, Deadline
<1> QED BY <1>1 DEF SessionChangedAt, Later

(* A change of a token at a time is its last change, or an older one was later.  *)
LEMMA TokenChanges ==
  ASSUME NEW k \in Token, NEW at \in Time, NEW bound \in Int,
         TokenChangedAt(k) <= bound, at <= bound
  PROVE  /\ TokenChangedAt(RevokeToken(k, at)) <= bound
         /\ TokenChangedAt([k EXCEPT !.rotatedAt = at]) <= bound
         /\ TokenChangedAt([k EXCEPT !.reuseDetectedAt = at]) <= bound
<1>1. at \in Int /\ k.issuedAt \in Int /\ k.rotatedAt \in Int /\ k.revokedAt \in Int /\ k.reuseDetectedAt \in Int
  BY TimesAreNumbers, TokenTimes
<1>2. k.issuedAt <= bound /\ k.rotatedAt <= bound /\ k.revokedAt <= bound /\ k.reuseDetectedAt <= bound
  BY <1>1 DEF TokenChangedAt, Later
<1>3. ASSUME NEW j \in Token, j.issuedAt <= bound, j.rotatedAt <= bound, j.revokedAt <= bound,
             j.reuseDetectedAt <= bound
      PROVE  TokenChangedAt(j) <= bound
  BY <1>3, TokenTimes DEF TokenChangedAt, Later
<1>4. at \in MaybeTime
  BY DEF MaybeTime
<1>5. TokenChangedAt([k EXCEPT !.revokedAt = at]) <= bound
  <2> DEFINE j == [k EXCEPT !.revokedAt = at]
  <2>1. j \in Token /\ j.issuedAt <= bound /\ j.rotatedAt <= bound /\ j.revokedAt <= bound
        /\ j.reuseDetectedAt <= bound
    BY <1>2, <1>4 DEF Token
  <2> QED BY <2>1, <1>3
<1>6. TokenChangedAt([k EXCEPT !.rotatedAt = at]) <= bound
  <2> DEFINE j == [k EXCEPT !.rotatedAt = at]
  <2>1. j \in Token /\ j.issuedAt <= bound /\ j.rotatedAt <= bound /\ j.revokedAt <= bound
        /\ j.reuseDetectedAt <= bound
    BY <1>2, <1>4 DEF Token
  <2> QED BY <2>1, <1>3
<1>7. TokenChangedAt([k EXCEPT !.reuseDetectedAt = at]) <= bound
  <2> DEFINE j == [k EXCEPT !.reuseDetectedAt = at]
  <2>1. j \in Token /\ j.issuedAt <= bound /\ j.rotatedAt <= bound /\ j.revokedAt <= bound
        /\ j.reuseDetectedAt <= bound
    BY <1>2, <1>4 DEF Token
  <2> QED BY <2>1, <1>3
<1> QED BY <1>5, <1>6, <1>7 DEF RevokeToken

LEMMA FamilyChanges ==
  ASSUME NEW f \in Family, NEW at \in Time
  PROVE  /\ FamilyChangedAt([f EXCEPT !.lastRotatedAt = at]) >= at
         /\ FamilyChangedAt([f EXCEPT !.revokedAt = at]) >= at
         /\ FamilyChangedAt([f EXCEPT !.reuseDetectedAt = at, !.revokedAt = at]) >= at
         /\ FamilyChangedAt(NewFamily(at)) >= at
<1>1. at \in Int /\ at \in MaybeTime
  BY TimesAreNumbers DEF MaybeTime
<1>2. ASSUME NEW g \in Family
      PROVE  FamilyChangedAt(g) >= g.createdAt /\ FamilyChangedAt(g) >= g.lastRotatedAt
             /\ FamilyChangedAt(g) >= g.revokedAt
  BY FamilyTimes DEF FamilyChangedAt, Later
<1>3. /\ [f EXCEPT !.lastRotatedAt = at] \in Family
      /\ [f EXCEPT !.revokedAt = at] \in Family
      /\ [f EXCEPT !.reuseDetectedAt = at, !.revokedAt = at] \in Family
      /\ [f EXCEPT !.lastRotatedAt = at].lastRotatedAt = at
      /\ [f EXCEPT !.revokedAt = at].revokedAt = at
      /\ [f EXCEPT !.reuseDetectedAt = at, !.revokedAt = at].revokedAt = at
  BY <1>1 DEF Family
<1>4. NewFamily(at) \in Family /\ NewFamily(at).createdAt = at
  <2>1. NewFamily(at).createdAt = at
    BY DEF NewFamily, NoFamily
  <2>2. at + FamilyLifetime \in Int /\ NoTime \in MaybeTime /\ NoTime \in Int
    BY <1>1, LifetimeAssumption DEF MaybeTime, NoTime
  <2>3. NewFamily(at) \in Family
    BY <1>1, <2>2 DEF NewFamily, NoFamily, Family, Deadline
  <2> QED BY <2>1, <2>3
<1> QED BY <1>2, <1>3, <1>4

(* The first token, and every other, is new at its time and ends with its family. *)
LEMMA NewTokenTimes ==
  ASSUME NEW at \in Time, NEW parent \in Tokens \cup {None}, NEW deadline \in Int
  PROVE  /\ TokenChangedAt(NewToken(parent, at, deadline)) = at
         /\ NewToken(parent, at, deadline).expiresAt <= deadline
         /\ NewToken(parent, at, deadline).issuedAt = at
         /\ NewToken(parent, at, deadline).parent = parent
         /\ NewToken(parent, at, deadline).rotatedAt = NoTime
<1>1. at \in Nat
  BY TimesAreNumbers
<1>2. TokenChangedAt(NewToken(parent, at, deadline)) = at
  BY <1>1 DEF TokenChangedAt, NewToken, Later, NoTime
<1>3. NewToken(parent, at, deadline).expiresAt <= deadline
  BY <1>1, LifetimeAssumption DEF NewToken, MinimumTime
<1> QED BY <1>2, <1>3 DEF NewToken

----------------------------------------------------------------------------
(* What the steps do to the rows and to the copies of the session. *)

LEMMA RowWriters ==
  ASSUME [Next]_vars
  PROVE  \/ UNCHANGED rows
         \/ \E p \in Procs : \/ \E w \in BOOLEAN, t \in Tokens : CreateSession(p, w, t)
                             \/ DetectReuse(p)
                             \/ \E t \in Tokens : RotateToken(p, t)
                             \/ RevokeRefresh(p) \/ RevokeAccess(p)
<1>1. ASSUME NEW p \in Procs,
             \/ \E o \in Operations, t \in Tokens \cup {None} : Begin(p, o, t)
             \/ AuthenticatePublic(p) \/ AuthenticateConfidential(p)
             \/ ConsumeCode(p) \/ LockFamily(p) \/ ReadSession(p) \/ Rollback(p)
      PROVE  UNCHANGED rows
  BY <1>1 DEF Begin, AuthenticatePublic, AuthenticateConfidential, ConsumeCode, LockFamily, ReadSession, Rollback
<1>2. CodeExpires \/ Tick \/ UNCHANGED vars => UNCHANGED rows
  BY DEF CodeExpires, Tick, vars
<1> QED BY <1>1, <1>2, NextCases

(* The session read for a revocation or a refresh is there: an access token or a   *)
(* refresh token of it was presented.                                             *)
LEMMA ReadersFindSession ==
  ASSUME IInv, NEW p \in Procs, pc[p] \in {"readSession", "rotate", "revokeSession", "revokeFamily"}
  PROVE  Exists(session)
<1>1. op[p] = "revokeAccess" \/ presented[p] \in Issued(tokens)
  BY DEF IInv, StepMatchesHandler, HandlerOf
<1>2. Issued(NoTokens) = {}
  BY DEF Issued, NoTokens, NoToken
<1> QED BY <1>1, <1>2 DEF IInv, CodeHeldOnce

LEMMA EndTxCopies ==
  ASSUME IInv, NEW p \in Procs, EndTx(p)
  PROVE  \A q \in Procs : sesCopy'[q] \in {sesCopy[q], NoSession}
BY DEF EndTx, IInv, TypeOK

LEMMA CopiesRead ==
  ASSUME IInv, [Next]_vars
  PROVE  \A q \in Procs : \/ sesCopy'[q] \in {sesCopy[q], NoSession}
                          \/ Exists(session) /\ sesCopy'[q] = session /\ UNCHANGED rows
<1>1. ASSUME NEW p \in Procs, EndTx(p)
      PROVE  \A q \in Procs : sesCopy'[q] \in {sesCopy[q], NoSession}
  BY <1>1, EndTxCopies
<1>2. ASSUME NEW p \in Procs, ReadSession(p)
      PROVE  \A q \in Procs : \/ sesCopy'[q] = sesCopy[q]
                              \/ Exists(session) /\ sesCopy'[q] = session /\ UNCHANGED rows
  BY <1>2, ReadersFindSession DEF ReadSession, IInv, TypeOK
<1>3. ASSUME NEW p \in Procs,
             \/ \E o \in Operations, t \in Tokens \cup {None} : Begin(p, o, t)
             \/ AuthenticatePublic(p) \/ AuthenticateConfidential(p)
             \/ ConsumeCode(p) \/ LockFamily(p)
      PROVE  UNCHANGED sesCopy
  BY <1>3 DEF Begin, AuthenticatePublic, AuthenticateConfidential, ConsumeCode, LockFamily, copies
<1>4. CodeExpires \/ Tick \/ UNCHANGED vars => UNCHANGED sesCopy
  BY DEF CodeExpires, Tick, vars, locals, copies
<1>5. ASSUME NEW p \in Procs,
             \/ \E w \in BOOLEAN, t \in Tokens : CreateSession(p, w, t)
             \/ DetectReuse(p) \/ (\E t \in Tokens : RotateToken(p, t))
             \/ RevokeRefresh(p) \/ RevokeAccess(p) \/ Rollback(p)
      PROVE  EndTx(p)
  BY <1>5 DEF CreateSession, DetectReuse, RotateToken, RevokeRefresh, RevokeAccess, Rollback
<1> QED BY <1>1, <1>2, <1>3, <1>4, <1>5, NextCases

(* A request that writes a session back has a copy of the one that is stored.      *)
LEMMA WriterHasSession ==
  ASSUME IInv, CopiesAreOfSession, NEW p \in Procs, pc[p] \in {"rotate", "revokeSession"}
  PROVE  /\ Exists(session) /\ Exists(sesCopy[p])
         /\ sesCopy[p].createdAt = session.createdAt
         /\ sesCopy[p].absoluteExpiresAt = session.absoluteExpiresAt
<1>1. Exists(sesCopy[p])
  BY DEF IInv, CodeHeldOnce
<1>2. sesCopy[p] # NoSession
  BY <1>1 DEF Exists, NoSession
<1> QED BY <1>1, <1>2 DEF CopiesAreOfSession

(* What a write of a copy does to the session.                                     *)
LEMMA SessionWritten ==
  ASSUME IInv, CopiesAreOfSession, NEW p \in Procs,
         \/ DetectReuse(p) \/ RevokeAccess(p) \/ \E t \in Tokens : RotateToken(p, t)
  PROVE  /\ Exists(session) /\ Exists(session')
         /\ session'.createdAt = session.createdAt
         /\ session'.absoluteExpiresAt = session.absoluteExpiresAt
         /\ DetectReuse(p) \/ RevokeAccess(p) => session'.idleExpiresAt = sesCopy[p].idleExpiresAt
<1>1. pc[p] \in {"rotate", "revokeSession"}
  BY DEF DetectReuse, RevokeAccess, RotateToken
<1>2. sesCopy[p] \in Session
  BY DEF IInv, TypeOK
<1>3. session' = RevokeSession(sesCopy[p], now[p]) \/ session' = RecordActivity(sesCopy[p], now[p])
  BY DEF DetectReuse, RevokeAccess, RotateToken
<1>4. session'.createdAt = sesCopy[p].createdAt /\ session'.absoluteExpiresAt = sesCopy[p].absoluteExpiresAt
  BY <1>2, <1>3 DEF RevokeSession, RecordActivity, Session
<1>5. DetectReuse(p) \/ RevokeAccess(p) => session'.idleExpiresAt = sesCopy[p].idleExpiresAt
  BY <1>2 DEF DetectReuse, RevokeAccess, RevokeSession, Session
<1> QED BY <1>1, <1>4, <1>5, WriterHasSession DEF Exists

(* The session comes into being once.                                              *)
LEMMA SessionCreated ==
  ASSUME IInv, NEW p \in Procs, NEW w \in BOOLEAN, NEW t \in Tokens, CreateSession(p, w, t)
  PROVE  /\ now[p] \in Time /\ ~Exists(session) /\ Exists(session')
         /\ session' = NewSession(now[p]) /\ code' = "gone"
         /\ tokens = NoTokens /\ family = NoFamily
         /\ IF w THEN /\ family' = NewFamily(now[p])
                      /\ tokens' = [NoTokens EXCEPT ![t] = NewToken(None, now[p], now[p] + FamilyLifetime)]
                 ELSE UNCHANGED << family, tokens >>
<1>1. now[p] \in Time
  BY DEF IInv, TypeOK
<1>2. /\ ~Exists(session) /\ code = "gone" /\ tokens = NoTokens /\ family = NoFamily
  BY DEF IInv, CodeHeldOnce, CreateSession
<1>3. session' = NewSession(now[p]) /\ code' = code
  BY DEF CreateSession
<1>4. Exists(session')
  BY <1>1, <1>3, TimesAreNumbers DEF Exists, NewSession
<1>5. NewFamily(now[p]).absoluteExpiresAt = now[p] + FamilyLifetime
  BY DEF NewFamily, NoFamily
<1> QED BY <1>1, <1>2, <1>3, <1>4, <1>5 DEF CreateSession

LEMMA CopiesStep ==
  ASSUME IInv, CopiesAreOfSession, [Next]_vars
  PROVE  CopiesAreOfSession'
<1>1. CASE UNCHANGED rows
  BY <1>1, CopiesRead DEF CopiesAreOfSession, Exists, rows
<1>2. ASSUME Exists(session) => /\ Exists(session')
                                /\ session'.createdAt = session.createdAt
                                /\ session'.absoluteExpiresAt = session.absoluteExpiresAt,
             ~ UNCHANGED rows
      PROVE  CopiesAreOfSession'
  BY <1>2, CopiesRead DEF CopiesAreOfSession
<1>3. ASSUME NEW p \in Procs, NEW w \in BOOLEAN, NEW t \in Tokens, CreateSession(p, w, t)
      PROVE  ~Exists(session)
  BY <1>3, SessionCreated
<1>4. ASSUME NEW p \in Procs, RevokeRefresh(p)
      PROVE  UNCHANGED session
  BY <1>4 DEF RevokeRefresh
<1> QED BY <1>1, <1>2, <1>3, <1>4, SessionWritten, RowWriters DEF Exists

----------------------------------------------------------------------------
(* What the steps do to the tokens. *)

(* A revocation leaves of every token what the limits are about.                   *)
TokensKept ==
  /\ Issued(tokens') = Issued(tokens)
  /\ \A t \in Tokens : /\ tokens'[t].parent = tokens[t].parent
                       /\ tokens'[t].issuedAt = tokens[t].issuedAt
                       /\ tokens'[t].rotatedAt = tokens[t].rotatedAt
                       /\ tokens'[t].expiresAt = tokens[t].expiresAt
  /\ family'.createdAt = family.createdAt
  /\ family'.absoluteExpiresAt = family.absoluteExpiresAt

LEMMA RevokeAllRows ==
  ASSUME NEW table \in [Tokens -> Token], NEW at \in Time
  PROVE  \A t \in Tokens : /\ RevokeAll(table, at)[t] \in {table[t], RevokeToken(table[t], at)}
                           /\ RevokeAll(table, at)[t].parent = table[t].parent
                           /\ RevokeAll(table, at)[t].issuedAt = table[t].issuedAt
                           /\ RevokeAll(table, at)[t].rotatedAt = table[t].rotatedAt
                           /\ RevokeAll(table, at)[t].expiresAt = table[t].expiresAt
<1>1. \A t \in Tokens : RevokeAll(table, at)[t] \in {table[t], RevokeToken(table[t], at)}
  BY DEF RevokeAll
<1>2. ASSUME NEW k \in Token
      PROVE  /\ RevokeToken(k, at).parent = k.parent /\ RevokeToken(k, at).issuedAt = k.issuedAt
             /\ RevokeToken(k, at).rotatedAt = k.rotatedAt /\ RevokeToken(k, at).expiresAt = k.expiresAt
  BY DEF RevokeToken, Token
<1> QED BY <1>1, <1>2

LEMMA RevocationKeeps ==
  ASSUME IInv, NEW p \in Procs, DetectReuse(p) \/ RevokeRefresh(p)
  PROVE  TokensKept
<1>1. now[p] \in Time /\ tokens \in [Tokens -> Token] /\ family \in Family
  BY DEF IInv, TypeOK
<1>2. CASE RevokeRefresh(p)
  <2>1. tokens' = RevokeAll(tokens, now[p]) /\ family' = [family EXCEPT !.revokedAt = now[p]]
    BY <1>2, RevokeRefreshSaves
  <2>2. family'.createdAt = family.createdAt /\ family'.absoluteExpiresAt = family.absoluteExpiresAt
    BY <1>1, <2>1 DEF Family
  <2> QED BY <1>1, <2>1, <2>2, RevokeAllRows DEF TokensKept, Issued
<1>3. CASE DetectReuse(p)
  <2> DEFINE marked == [tokens EXCEPT ![presented[p]].reuseDetectedAt = now[p]]
  <2>1. /\ marked \in [Tokens -> Token] /\ tokens' = RevokeAll(marked, now[p])
        /\ family' = [family EXCEPT !.reuseDetectedAt = now[p], !.revokedAt = now[p]]
    BY <1>3, ReuseSaves
  <2>2. family'.createdAt = family.createdAt /\ family'.absoluteExpiresAt = family.absoluteExpiresAt
    BY <1>1, <2>1 DEF Family
  <2>3. \A t \in Tokens : /\ marked[t].parent = tokens[t].parent
                          /\ marked[t].issuedAt = tokens[t].issuedAt
                          /\ marked[t].rotatedAt = tokens[t].rotatedAt
                          /\ marked[t].expiresAt = tokens[t].expiresAt
    BY <1>1 DEF Token
  <2> HIDE DEF marked
  <2> QED BY <1>1, <2>1, <2>2, <2>3, RevokeAllRows DEF TokensKept, Issued
<1> QED BY <1>2, <1>3

(* A rotation marks the current token, adds its child and leaves the others alone.  *)
LEMMA RotationAdds ==
  ASSUME IInv, NEW p \in Procs, NEW t \in Tokens, RotateToken(p, t)
  PROVE  LET old == presented[p]
             new == NewToken(old, now[p], family.absoluteExpiresAt)
         IN  /\ now[p] \in Time /\ old \in Issued(tokens) /\ t \notin Issued(tokens) /\ old # t
             /\ Issued(tokens') = Issued(tokens) \cup {t}
             /\ tokens'[t] = new
             /\ tokens'[old] = [tokens[old] EXCEPT !.rotatedAt = now[p]]
             /\ \A s \in Tokens \ {old, t} : tokens'[s] = tokens[s]
             /\ family' = [family EXCEPT !.lastRotatedAt = now[p]]
             /\ family'.createdAt = family.createdAt
             /\ family'.absoluteExpiresAt = family.absoluteExpiresAt
<1> DEFINE old == presented[p]
           new == NewToken(old, now[p], family.absoluteExpiresAt)
<1>1. now[p] \in Time /\ tokens \in [Tokens -> Token] /\ family \in Family
  BY DEF IInv, TypeOK
<1>2. /\ old \in Issued(tokens) /\ t \notin Issued(tokens) /\ old # t /\ old \in Tokens
      /\ tokens' = [tokens EXCEPT ![old].rotatedAt = now[p], ![t] = new]
      /\ family' = [family EXCEPT !.lastRotatedAt = now[p]]
  BY RotateSaves DEF Issued
<1>3. new.issuedAt # NoTime
  BY <1>1, TimesAreNumbers DEF NewToken
<1> HIDE DEF new
<1>4. /\ tokens'[t] = new
      /\ tokens'[old] = [tokens[old] EXCEPT !.rotatedAt = now[p]]
      /\ \A s \in Tokens \ {old, t} : tokens'[s] = tokens[s]
  BY <1>1, <1>2
<1>5. tokens'[old].issuedAt = tokens[old].issuedAt
  BY <1>1, <1>2, <1>4 DEF Token
<1>6. Issued(tokens') = Issued(tokens) \cup {t}
  BY <1>2, <1>3, <1>4, <1>5 DEF Issued
<1>7. family'.createdAt = family.createdAt /\ family'.absoluteExpiresAt = family.absoluteExpiresAt
  BY <1>1, <1>2 DEF Family
<1> QED BY <1>1, <1>2, <1>4, <1>6, <1>7 DEF new

(* An exchange that opens the session issues one token, or none.                    *)
LEMMA FirstToken ==
  ASSUME IInv, NEW p \in Procs, NEW w \in BOOLEAN, NEW t \in Tokens, CreateSession(p, w, t)
  PROVE  /\ Issued(tokens) = {}
         /\ IF w THEN /\ Issued(tokens') = {t}
                      /\ tokens'[t] = NewToken(None, now[p], now[p] + FamilyLifetime)
                 ELSE Issued(tokens') = {}
<1>1. Issued(NoTokens) = {}
  BY DEF Issued, NoTokens, NoToken
<1>2. NewToken(None, now[p], now[p] + FamilyLifetime).issuedAt # NoTime
  BY SessionCreated, TimesAreNumbers DEF NewToken
<1> DEFINE k == NewToken(None, now[p], now[p] + FamilyLifetime)
<1>3. k.issuedAt # NoTime
  BY <1>2
<1> HIDE DEF k
<1>4. CASE w
  <2>1. tokens' = [NoTokens EXCEPT ![t] = k] /\ tokens = NoTokens
    BY <1>4, SessionCreated DEF k
  <2>2. tokens'[t] = k /\ \A s \in Tokens \ {t} : tokens'[s] = NoToken
    BY <2>1 DEF NoTokens
  <2>3. Issued(tokens') = {t}
    BY <1>3, <2>2 DEF Issued, NoToken
  <2> QED BY <1>1, <1>4, <2>1, <2>2, <2>3 DEF k
<1>5. CASE ~w
  BY <1>1, <1>5, SessionCreated
<1> QED BY <1>4, <1>5

(* A revocation comes no earlier than the last change of the family.                *)
LEMMA RevocationTimes ==
  ASSUME IInv, NEW p \in Procs, DetectReuse(p) \/ RevokeRefresh(p)
  PROVE  /\ now[p] \in Time /\ now[p] >= FamilyChangedAt(family) /\ family.revokedAt = NoTime
         /\ FamilyChangedAt(family') >= now[p]
<1>1. now[p] \in Time /\ family \in Family
  BY DEF IInv, TypeOK
<1>2. CASE DetectReuse(p)
  BY <1>1, <1>2, ReuseSaves, FamilyChanges DEF Reused, RotationAllowed
<1>3. CASE RevokeRefresh(p)
  BY <1>1, <1>3, RevokeRefreshSaves, FamilyChanges
<1> QED BY <1>2, <1>3

LEMMA TokenTimesStep ==
  ASSUME IInv, TokenTimesWithinFamily, [Next]_vars
  PROVE  TokenTimesWithinFamily'
<1>1. tokens \in [Tokens -> Token] /\ family \in Family
  BY DEF IInv, TypeOK
<1>2. TokenTimesWithinFamily' <=>
        \A t \in Issued(tokens') : TokenChangedAt(tokens'[t]) <= FamilyChangedAt(family')
  BY DEF TokenTimesWithinFamily
<1>3. /\ FamilyChangedAt(family) \in Int
      /\ IInv' /\ FamilyChangedAt(family') \in Int
      /\ \A t \in Tokens : tokens'[t] \in Token /\ TokenChangedAt(tokens'[t]) \in Int
  <2>1. IInv'
    BY IInvStep
  <2>2. family' \in Family /\ tokens' \in [Tokens -> Token]
    BY <2>1 DEF IInv, TypeOK
  <2> QED BY <1>1, <2>1, <2>2, FamilyTimes, TokenTimes
<1>4. CASE UNCHANGED << family, tokens >>
  BY <1>2, <1>4 DEF TokenTimesWithinFamily
<1>5. ASSUME NEW p \in Procs, NEW w \in BOOLEAN, NEW t \in Tokens, CreateSession(p, w, t)
      PROVE  TokenTimesWithinFamily'
  <2>1. now[p] \in Time /\ now[p] \in Int /\ now[p] + FamilyLifetime \in Int
    BY <1>5, SessionCreated, TimesAreNumbers, LifetimeAssumption
  <2>2. CASE w
    <3>1. family' = NewFamily(now[p]) /\ FamilyChangedAt(family') >= now[p]
      BY <1>1, <1>5, <2>1, <2>2, SessionCreated, FamilyChanges
    <3>2. Issued(tokens') = {t} /\ tokens'[t] = NewToken(None, now[p], now[p] + FamilyLifetime)
      BY <1>5, <2>2, FirstToken
    <3>3. TokenChangedAt(NewToken(None, now[p], now[p] + FamilyLifetime)) = now[p]
      <4>1. None \in Tokens \cup {None}
        OBVIOUS
      <4> QED BY <2>1, <4>1, NewTokenTimes
    <3>4. TokenChangedAt(tokens'[t]) <= FamilyChangedAt(family')
      BY <1>3, <2>1, <3>1, <3>2, <3>3
    <3> QED BY <1>2, <3>2, <3>4
  <2>3. CASE ~w
    BY <1>2, <1>5, <2>3, FirstToken
  <2> QED BY <2>2, <2>3
<1>6. ASSUME NEW p \in Procs, NEW t \in Tokens, RotateToken(p, t)
      PROVE  TokenTimesWithinFamily'
  <2> DEFINE old == presented[p]
             new == NewToken(old, now[p], family.absoluteExpiresAt)
             last == FamilyChangedAt(family')
  <2>1. /\ now[p] \in Time /\ old \in Issued(tokens) /\ old \in Tokens
        /\ Issued(tokens') = Issued(tokens) \cup {t}
        /\ tokens'[t] = new
        /\ tokens'[old] = [tokens[old] EXCEPT !.rotatedAt = now[p]]
        /\ \A s \in Tokens \ {old, t} : tokens'[s] = tokens[s]
        /\ family' = [family EXCEPT !.lastRotatedAt = now[p]]
    BY <1>6, RotationAdds DEF Issued
  <2>2. now[p] >= FamilyChangedAt(family)
    BY <1>6, RotateSaves DEF Rotatable, RotationAllowed
  <2>3. last >= now[p] /\ last \in Int /\ now[p] \in Int
    <3>1. FamilyChangedAt([family EXCEPT !.lastRotatedAt = now[p]]) >= now[p]
      BY <1>1, <2>1, FamilyChanges
    <3>2. now[p] \in Int
      BY <2>1, TimesAreNumbers
    <3> QED BY <1>3, <2>1, <3>1, <3>2
  <2>4. TokenChangedAt(tokens'[t]) <= last
    <3>1. family.absoluteExpiresAt \in Int /\ old \in Tokens \cup {None}
      BY <1>1, <2>1, FamilyTimes
    <3>2. TokenChangedAt(new) = now[p]
      BY <2>1, <3>1, NewTokenTimes
    <3> QED BY <2>1, <2>3, <3>2
  <2> HIDE DEF last, new
  <2>5. \A s \in Issued(tokens) : TokenChangedAt(tokens[s]) <= last
    <3>1. SUFFICES ASSUME NEW s \in Issued(tokens) PROVE TokenChangedAt(tokens[s]) <= last
      OBVIOUS
    <3>2. TokenChangedAt(tokens[s]) <= FamilyChangedAt(family) /\ TokenChangedAt(tokens[s]) \in Int
      BY <1>1, TokenTimes DEF TokenTimesWithinFamily, Issued
    <3> QED BY <1>3, <2>2, <2>3, <3>2
  <2>6. TokenChangedAt(tokens'[old]) <= last
    BY <1>1, <2>1, <2>3, <2>5, TokenChanges
  <2>7. \A s \in Issued(tokens') : TokenChangedAt(tokens'[s]) <= last
    BY <2>1, <2>4, <2>5, <2>6 DEF Issued
  <2> QED BY <1>2, <2>7 DEF last
<1>7. ASSUME NEW p \in Procs, DetectReuse(p) \/ RevokeRefresh(p)
      PROVE  TokenTimesWithinFamily'
  <2> DEFINE last == FamilyChangedAt(family')
  <2>1. /\ now[p] \in Time /\ now[p] \in Int /\ now[p] >= FamilyChangedAt(family)
        /\ last >= now[p] /\ last \in Int
    BY <1>3, <1>7, RevocationTimes, TimesAreNumbers
  <2> HIDE DEF last
  <2>2. \A s \in Issued(tokens) : TokenChangedAt(tokens[s]) <= last
    <3>1. SUFFICES ASSUME NEW s \in Issued(tokens) PROVE TokenChangedAt(tokens[s]) <= last
      OBVIOUS
    <3>2. TokenChangedAt(tokens[s]) <= FamilyChangedAt(family) /\ TokenChangedAt(tokens[s]) \in Int
      BY <1>1, TokenTimes DEF TokenTimesWithinFamily, Issued
    <3> QED BY <1>3, <2>1, <3>2
  <2>3. \E table \in [Tokens -> Token] :
          /\ tokens' = RevokeAll(table, now[p])
          /\ \A s \in Issued(tokens) : TokenChangedAt(table[s]) <= last
    <3>1. CASE RevokeRefresh(p)
      BY <1>1, <2>2, <3>1, RevokeRefreshSaves
    <3>2. CASE DetectReuse(p)
      <4> DEFINE marked == [tokens EXCEPT ![presented[p]].reuseDetectedAt = now[p]]
      <4>1. marked \in [Tokens -> Token] /\ tokens' = RevokeAll(marked, now[p])
        BY <3>2, ReuseSaves
      <4>2. \A s \in Issued(tokens) : TokenChangedAt(marked[s]) <= last
        <5>1. SUFFICES ASSUME NEW s \in Issued(tokens) PROVE TokenChangedAt(marked[s]) <= last
          OBVIOUS
        <5>2. s \in Tokens /\ TokenChangedAt(tokens[s]) <= last /\ tokens[s] \in Token
          BY <1>1, <2>2 DEF Issued
        <5>3. marked[s] = tokens[s] \/ marked[s] = [tokens[s] EXCEPT !.reuseDetectedAt = now[p]]
          BY <1>1, <5>2
        <5> QED BY <2>1, <5>2, <5>3, TokenChanges
      <4> QED BY <4>1, <4>2
    <3> QED BY <1>7, <3>1, <3>2
  <2>4. PICK table \in [Tokens -> Token] :
          /\ tokens' = RevokeAll(table, now[p])
          /\ \A s \in Issued(tokens) : TokenChangedAt(table[s]) <= last
    BY <2>3
  <2>5. \A s \in Issued(tokens) : TokenChangedAt(tokens'[s]) <= last
    <3>1. SUFFICES ASSUME NEW s \in Issued(tokens) PROVE TokenChangedAt(tokens'[s]) <= last
      OBVIOUS
    <3>2. s \in Tokens /\ table[s] \in Token /\ TokenChangedAt(table[s]) <= last
      BY <2>4 DEF Issued
    <3>3. tokens'[s] \in {table[s], RevokeToken(table[s], now[p])}
      BY <2>1, <2>4, <3>2, RevokeAllRows
    <3> QED BY <2>1, <3>2, <3>3, TokenChanges
  <2>6. Issued(tokens') = Issued(tokens)
    BY <1>7, RevocationKeeps DEF TokensKept
  <2> QED BY <1>2, <2>5, <2>6 DEF last
<1>8. ASSUME NEW p \in Procs, RevokeAccess(p)
      PROVE  UNCHANGED << family, tokens >>
  BY <1>8 DEF RevokeAccess
<1>9. UNCHANGED rows => UNCHANGED << family, tokens >>
  BY DEF rows
<1> QED BY <1>4, <1>5, <1>6, <1>7, <1>8, <1>9, RowWriters

(* What the steps other than an exchange and a rotation leave of the tokens.       *)
LEMMA TokensKeptOrAdded ==
  ASSUME IInv, [Next]_vars
  PROVE  \/ UNCHANGED rows
         \/ \E p \in Procs : \/ \E w \in BOOLEAN, t \in Tokens : CreateSession(p, w, t)
                             \/ \E t \in Tokens : RotateToken(p, t)
                             \/ TokensKept /\ (DetectReuse(p) \/ RevokeAccess(p))
                             \/ TokensKept /\ UNCHANGED session /\ RevokeRefresh(p)
<1>1. ASSUME NEW p \in Procs, DetectReuse(p)
      PROVE  TokensKept
  BY <1>1, RevocationKeeps
<1>2. ASSUME NEW p \in Procs, RevokeRefresh(p)
      PROVE  TokensKept /\ UNCHANGED session
  BY <1>2, RevocationKeeps DEF RevokeRefresh
<1>3. ASSUME NEW p \in Procs, RevokeAccess(p)
      PROVE  TokensKept
  BY <1>3 DEF RevokeAccess, TokensKept, Issued
<1> QED BY <1>1, <1>2, <1>3, RowWriters

(* The idle deadline of the row, and of every copy of it that a request may still  *)
(* write back, stays within the idle lifetime of the current token.                *)
LEMMA IdleStep ==
  ASSUME IInv, CopiesAreOfSession, IdleIsBounded, [Next]_vars
  PROVE  IdleIsBounded'
<1> DEFINE Bound(t) == tokens[t].issuedAt + IdleLifetime
           Within(t) == /\ session.idleExpiresAt <= Bound(t)
                        /\ \A p \in Procs : sesCopy[p].idleExpiresAt <= Bound(t)
<1>1. /\ tokens \in [Tokens -> Token] /\ session \in Session
      /\ \A p \in Procs : sesCopy[p] \in Session /\ sesCopy[p].idleExpiresAt \in Int
  BY SessionTimes DEF IInv, TypeOK
<1>2. \A t \in Issued(tokens) : tokens[t].rotatedAt = NoTime => Within(t)
  BY DEF IdleIsBounded
<1>3. SUFFICES ASSUME NEW t \in Issued(tokens'), tokens'[t].rotatedAt = NoTime PROVE Within(t)'
  BY DEF IdleIsBounded
<1> DEFINE b == tokens'[t].issuedAt + IdleLifetime
<1>4. b \in Nat /\ tokens'[t].issuedAt \in Nat /\ t \in Tokens
  <2>1. tokens' \in [Tokens -> Token]
    BY IInvStep DEF IInv, TypeOK
  <2>2. tokens'[t].issuedAt \in MaybeTime /\ tokens'[t].issuedAt # NoTime
    BY <2>1 DEF Token, Issued
  <2>3. t \in Tokens
    BY DEF Issued
  <2> QED BY <2>2, <2>3, TimesAreNumbers, LifetimeAssumption
<1> HIDE DEF b
<1>5. SUFFICES session'.idleExpiresAt <= b /\ \A p \in Procs : sesCopy[p].idleExpiresAt <= b
  <2>1. NoSession.idleExpiresAt <= b
    BY <1>4 DEF NoSession, NoTime
  <2>2. ASSUME NEW q \in Procs
        PROVE  sesCopy'[q].idleExpiresAt <= b
    BY <1>5, <2>1, CopiesRead DEF rows
  <2> QED BY <1>5, <2>2 DEF b
<1>6. ASSUME t \in Issued(tokens), tokens[t].rotatedAt = NoTime, tokens'[t].issuedAt = tokens[t].issuedAt
      PROVE  session.idleExpiresAt <= b /\ \A p \in Procs : sesCopy[p].idleExpiresAt <= b
  BY <1>2, <1>6 DEF b
<1>7. CASE UNCHANGED rows
  <2>1. tokens' = tokens /\ session' = session
    BY <1>7 DEF rows
  <2> QED BY <1>3, <1>6, <2>1
<1>8. ASSUME TokensKept
      PROVE  session.idleExpiresAt <= b /\ \A p \in Procs : sesCopy[p].idleExpiresAt <= b
  BY <1>3, <1>4, <1>6, <1>8 DEF TokensKept
<1>9. ASSUME NEW p \in Procs, TokensKept, DetectReuse(p) \/ RevokeAccess(p)
      PROVE  session'.idleExpiresAt <= b
  BY <1>8, <1>9, SessionWritten
<1>10. ASSUME NEW p \in Procs, NEW w \in BOOLEAN, NEW s \in Tokens, CreateSession(p, w, s)
       PROVE  session'.idleExpiresAt <= b /\ \A q \in Procs : sesCopy[q].idleExpiresAt <= b
  <2>1. w /\ t = s /\ tokens'[t] = NewToken(None, now[p], now[p] + FamilyLifetime)
    BY <1>10, FirstToken
  <2>2. tokens'[t].issuedAt = now[p]
    BY <2>1 DEF NewToken
  <2>3. session' = NewSession(now[p]) /\ ~Exists(session) /\ now[p] \in Int
    BY <1>10, SessionCreated, TimesAreNumbers
  <2>4. session'.idleExpiresAt = b
    BY <2>2, <2>3 DEF NewSession, b
  <2>5. \A q \in Procs : sesCopy[q] = NoSession
    BY <2>3 DEF CopiesAreOfSession
  <2> QED BY <1>4, <2>4, <2>5 DEF NoSession, NoTime
<1>11. ASSUME NEW p \in Procs, NEW s \in Tokens, RotateToken(p, s)
       PROVE  session'.idleExpiresAt <= b /\ \A q \in Procs : sesCopy[q].idleExpiresAt <= b
  <2> DEFINE old == presented[p]
             new == NewToken(old, now[p], family.absoluteExpiresAt)
  <2>1. /\ now[p] \in Time /\ old \in Issued(tokens) /\ old \in Tokens /\ old # s
        /\ Issued(tokens') = Issued(tokens) \cup {s}
        /\ tokens'[s] = new
        /\ tokens'[old] = [tokens[old] EXCEPT !.rotatedAt = now[p]]
        /\ \A r \in Tokens \ {old, s} : tokens'[r] = tokens[r]
    BY <1>11, RotationAdds DEF Issued
  <2>2. new.issuedAt = now[p]
    BY DEF NewToken
  <2> HIDE DEF new
  <2>3. /\ tokens[old].rotatedAt = NoTime /\ now[p] >= TokenChangedAt(tokens[old])
        /\ tokens[old] \in Token
    BY <1>1, <1>11, <2>1, RotateSaves DEF Rotatable
  <2>4. now[p] # NoTime /\ now[p] \in Int
    BY <2>1, TimesAreNumbers
  <2>5. tokens'[old].rotatedAt = now[p]
    BY <2>1, <2>3 DEF Token
  <2>6. t = s
    <3>1. ASSUME t # s PROVE FALSE
      <4>1. t # old
        BY <1>3, <2>4, <2>5
      <4>2. t \in Issued(tokens) /\ tokens[t].rotatedAt = NoTime
        BY <1>3, <1>4, <2>1, <3>1, <4>1
      <4> QED BY <2>1, <2>3, <4>1, <4>2 DEF IInv, SingleCurrentToken
    <3> QED BY <3>1
  <2>7. b = now[p] + IdleLifetime
    BY <2>1, <2>2, <2>6 DEF b
  <2>8. tokens[old].issuedAt <= now[p] /\ tokens[old].issuedAt \in Int
    BY <2>3, <2>4, TokenTimes DEF TokenChangedAt, Later
  <2>9. ASSUME NEW q \in Procs
        PROVE  sesCopy[q].idleExpiresAt <= b
    <3>1. sesCopy[q].idleExpiresAt <= tokens[old].issuedAt + IdleLifetime
      BY <1>2, <2>1, <2>3
    <3> QED BY <1>1, <2>4, <2>7, <2>8, <3>1, LifetimeAssumption
  <2>10. session'.idleExpiresAt <= b
    <3> DEFINE mine == sesCopy[p]
               idle == Later(mine.idleExpiresAt, MinimumTime(now[p] + IdleLifetime, mine.absoluteExpiresAt))
    <3>1. session' = RecordActivity(mine, now[p])
      BY <1>11 DEF RotateToken
    <3>2. session'.idleExpiresAt = idle
      BY <1>1, <3>1 DEF RecordActivity, Session
    <3>3. mine.idleExpiresAt <= b /\ mine.idleExpiresAt \in Int /\ mine.absoluteExpiresAt \in Int /\ b \in Int
      BY <1>1, <1>4, <2>9, SessionTimes
    <3>4. idle <= b
      BY <2>4, <2>7, <3>3, LifetimeAssumption DEF Later, MinimumTime
    <3> QED BY <3>2, <3>4
  <2> QED BY <2>9, <2>10
<1> QED BY <1>7, <1>8, <1>9, <1>10, <1>11, TokensKeptOrAdded

(* What the lifetimes say of one token.                                            *)
WithinLifetimes(t) ==
  /\ tokens[t].issuedAt < family.absoluteExpiresAt
  /\ tokens[t].issuedAt < session.absoluteExpiresAt
  /\ tokens[t].expiresAt <= family.absoluteExpiresAt
  /\ tokens[t].parent # None =>
       /\ tokens[t].issuedAt < tokens[tokens[t].parent].expiresAt
       /\ tokens[t].issuedAt < tokens[tokens[t].parent].issuedAt + IdleLifetime

LEMMA LifetimesStep ==
  ASSUME IInv, CopiesAreOfSession, IdleIsBounded, TokensWithinLifetimes, [Next]_vars
  PROVE  TokensWithinLifetimes'
<1>1. /\ tokens \in [Tokens -> Token] /\ session \in Session /\ family \in Family
      /\ \A t \in Issued(tokens) : WithinLifetimes(t)
      /\ \A t \in Issued(tokens) : tokens[t].parent # None => tokens[t].parent \in Issued(tokens)
  BY DEF IInv, TypeOK, TokensWithinLifetimes, WithinLifetimes, RotationChain
<1>2. SUFFICES ASSUME NEW t \in Issued(tokens') PROVE WithinLifetimes(t)'
  BY DEF TokensWithinLifetimes, WithinLifetimes
<1>3. ASSUME t \in Issued(tokens),
             session'.absoluteExpiresAt = session.absoluteExpiresAt,
             family'.absoluteExpiresAt = family.absoluteExpiresAt,
             \A r \in Issued(tokens) : /\ tokens'[r].parent = tokens[r].parent
                                       /\ tokens'[r].issuedAt = tokens[r].issuedAt
                                       /\ tokens'[r].expiresAt = tokens[r].expiresAt
      PROVE  WithinLifetimes(t)'
  BY <1>1, <1>3 DEF WithinLifetimes
<1>4. CASE UNCHANGED rows
  <2>1. session' = session /\ family' = family /\ tokens' = tokens
    BY <1>4 DEF rows
  <2> QED BY <1>2, <1>3, <2>1
<1>5. ASSUME TokensKept, session'.absoluteExpiresAt = session.absoluteExpiresAt
      PROVE  WithinLifetimes(t)'
  <2>1. t \in Issued(tokens) /\ Issued(tokens) \subseteq Tokens
    BY <1>2, <1>5 DEF TokensKept, Issued
  <2> QED BY <1>3, <1>5, <2>1 DEF TokensKept
<1>6. ASSUME NEW p \in Procs, NEW w \in BOOLEAN, NEW s \in Tokens, CreateSession(p, w, s)
      PROVE  WithinLifetimes(t)'
  <2> DEFINE deadline == now[p] + FamilyLifetime
             first == NewToken(None, now[p], deadline)
  <2>1. w /\ t = s /\ tokens'[t] = first
    BY <1>2, <1>6, FirstToken
  <2>2. /\ now[p] \in Time /\ session' = NewSession(now[p]) /\ family' = NewFamily(now[p])
    BY <1>6, <2>1, SessionCreated
  <2>3. session'.absoluteExpiresAt = now[p] + SessionLifetime /\ family'.absoluteExpiresAt = deadline
    BY <2>2 DEF NewSession, NewFamily, NoFamily
  <2>4. now[p] \in Int /\ deadline \in Int /\ now[p] < deadline /\ now[p] < now[p] + SessionLifetime
    BY <2>2, TimesAreNumbers, LifetimeAssumption
  <2>5. first.issuedAt = now[p] /\ first.parent = None /\ first.expiresAt <= deadline
    <3>1. None \in Tokens \cup {None}
      OBVIOUS
    <3> HIDE DEF deadline
    <3> QED BY <2>2, <2>4, <3>1, NewTokenTimes
  <2> HIDE DEF first, deadline
  <2> QED BY <2>1, <2>3, <2>4, <2>5 DEF WithinLifetimes
<1>7. ASSUME NEW p \in Procs, NEW s \in Tokens, RotateToken(p, s)
      PROVE  WithinLifetimes(t)'
  <2> DEFINE old == presented[p]
             new == NewToken(old, now[p], family.absoluteExpiresAt)
  <2>1. /\ now[p] \in Time /\ old \in Issued(tokens) /\ old \in Tokens /\ old # s
        /\ s \notin Issued(tokens)
        /\ Issued(tokens') = Issued(tokens) \cup {s}
        /\ tokens'[s] = new
        /\ tokens'[old] = [tokens[old] EXCEPT !.rotatedAt = now[p]]
        /\ \A r \in Tokens \ {old, s} : tokens'[r] = tokens[r]
        /\ family'.absoluteExpiresAt = family.absoluteExpiresAt
    BY <1>7, RotationAdds DEF Issued
  <2>2. /\ session'.absoluteExpiresAt = session.absoluteExpiresAt
        /\ pc[p] = "rotate" /\ SessionUsable(sesCopy[p], now[p])
    BY <1>7, SessionWritten DEF RotateToken
  <2>3. now[p] < session.absoluteExpiresAt /\ now[p] < sesCopy[p].idleExpiresAt
    BY <2>2, WriterHasSession DEF SessionUsable
  <2>4. /\ tokens[old].rotatedAt = NoTime /\ now[p] < tokens[old].expiresAt
        /\ now[p] < family.absoluteExpiresAt
    BY <1>7, RotateSaves DEF Rotatable, RotationAllowed
  <2>5. now[p] < tokens[old].issuedAt + IdleLifetime
    <3>1. sesCopy[p].idleExpiresAt <= tokens[old].issuedAt + IdleLifetime
      BY <2>1, <2>4 DEF IdleIsBounded
    <3>2. sesCopy[p].idleExpiresAt \in Int /\ tokens[old].issuedAt + IdleLifetime \in Int /\ now[p] \in Int
      BY <1>1, <2>1, SessionTimes, TokenTimes, TimesAreNumbers, LifetimeAssumption DEF IInv, TypeOK
    <3> QED BY <2>3, <3>1, <3>2
  <2>6. /\ new.issuedAt = now[p] /\ new.parent = old /\ new.expiresAt <= family.absoluteExpiresAt
    <3>1. family.absoluteExpiresAt \in Int /\ old \in Tokens \cup {None}
      BY <1>1, <2>1, FamilyTimes
    <3> QED BY <2>1, <3>1, NewTokenTimes
  <2> HIDE DEF new
  <2>7. \A r \in Issued(tokens) : /\ tokens'[r].parent = tokens[r].parent
                                  /\ tokens'[r].issuedAt = tokens[r].issuedAt
                                  /\ tokens'[r].expiresAt = tokens[r].expiresAt
    <3>1. /\ tokens'[old].parent = tokens[old].parent
          /\ tokens'[old].issuedAt = tokens[old].issuedAt
          /\ tokens'[old].expiresAt = tokens[old].expiresAt
      BY <1>1, <2>1 DEF Token
    <3>2. \A r \in Issued(tokens) : r \in Tokens /\ r # s
      BY <2>1 DEF Issued
    <3> QED BY <2>1, <3>1, <3>2
  <2>8. CASE t = s
    <3>1. /\ tokens'[old].expiresAt = tokens[old].expiresAt
          /\ tokens'[old].issuedAt = tokens[old].issuedAt
      BY <2>1, <2>7
    <3> QED BY <2>1, <2>2, <2>3, <2>4, <2>5, <2>6, <2>8, <3>1 DEF WithinLifetimes
  <2>9. CASE t # s
    BY <1>2, <1>3, <2>1, <2>2, <2>7, <2>9
  <2> QED BY <2>8, <2>9
<1>8. ASSUME NEW p \in Procs, DetectReuse(p) \/ RevokeAccess(p)
      PROVE  session'.absoluteExpiresAt = session.absoluteExpiresAt
  BY <1>8, SessionWritten
<1> QED BY <1>4, <1>5, <1>6, <1>7, <1>8, TokensKeptOrAdded

----------------------------------------------------------------------------
(* The code and the events. *)

(* A code that is gone does not come back.                                          *)
LEMMA CodeStaysGone ==
  ASSUME [Next]_vars, code = "gone"
  PROVE  code' = "gone"
<1>1. ASSUME NEW p \in Procs,
             \/ \E o \in Operations, t \in Tokens \cup {None} : Begin(p, o, t)
             \/ AuthenticatePublic(p) \/ AuthenticateConfidential(p)
             \/ \E w \in BOOLEAN, t \in Tokens : CreateSession(p, w, t)
             \/ LockFamily(p) \/ ReadSession(p)
             \/ DetectReuse(p) \/ (\E t \in Tokens : RotateToken(p, t))
             \/ RevokeRefresh(p) \/ RevokeAccess(p) \/ Rollback(p)
      PROVE  UNCHANGED code
  BY <1>1 DEF Begin, AuthenticatePublic, AuthenticateConfidential, CreateSession, LockFamily, ReadSession,
              DetectReuse, RotateToken, RevokeRefresh, RevokeAccess, Rollback
<1>2. ASSUME NEW p \in Procs, ConsumeCode(p)
      PROVE  code' = "gone"
  BY <1>2 DEF ConsumeCode
<1>3. CodeExpires => code' = "gone"
  BY DEF CodeExpires
<1>4. Tick \/ UNCHANGED vars => UNCHANGED code
  BY DEF Tick, vars
<1> QED BY <1>1, <1>2, <1>3, <1>4, NextCases

(* A commit adds one to the counts of its events.                                    *)
LEMMA Emitted ==
  ASSUME IInv, NEW types, Emit(types)
  PROVE  \A e \in EventTypes : /\ outbox[e] \in Nat
                               /\ outbox'[e] = IF e \in types THEN outbox[e] + 1 ELSE outbox[e]
BY DEF IInv, TypeOK, Emit

LEMMA CodeEventsStep ==
  ASSUME IInv, CopiesAreOfSession, CodeOpensOneSession, [Next]_vars
  PROVE  CodeOpensOneSession'
<1>1. ASSUME Exists(session') <=> Exists(session),
             session'.createdAt = session.createdAt, family'.createdAt = family.createdAt,
             Issued(tokens') = {} <=> Issued(tokens) = {},
             outbox'["session_created"] = outbox["session_created"],
             outbox'["family_created"] = outbox["family_created"]
      PROVE  CodeOpensOneSession'
  BY <1>1, CodeStaysGone DEF CodeOpensOneSession, Exists
<1>2. CASE UNCHANGED rows
  <2>1. session' = session /\ family' = family /\ tokens' = tokens /\ outbox' = outbox
    BY <1>2 DEF rows
  <2> QED BY <1>1, <2>1
<1>3. ASSUME NEW types, Emit(types), "session_created" \notin types, "family_created" \notin types
      PROVE  /\ outbox'["session_created"] = outbox["session_created"]
             /\ outbox'["family_created"] = outbox["family_created"]
  BY <1>3, Emitted DEF EventTypes
<1>4. ASSUME NEW p \in Procs,
             \/ DetectReuse(p) \/ RevokeRefresh(p) \/ RevokeAccess(p)
             \/ \E t \in Tokens : RotateToken(p, t)
      PROVE  /\ outbox'["session_created"] = outbox["session_created"]
             /\ outbox'["family_created"] = outbox["family_created"]
  <2>1. \/ Emit({"reuse_detected", "session_revoked"}) \/ Emit({"family_revoked"})
        \/ Emit({"session_revoked"}) \/ Emit({"token_rotated"})
    BY <1>4 DEF DetectReuse, RevokeRefresh, RevokeAccess, RotateToken
  <2> QED BY <1>3, <2>1
<1>5. ASSUME NEW p \in Procs, DetectReuse(p) \/ RevokeAccess(p), TokensKept
      PROVE  CodeOpensOneSession'
  BY <1>1, <1>4, <1>5, SessionWritten DEF TokensKept
<1>6. ASSUME NEW p \in Procs, RevokeRefresh(p), TokensKept, UNCHANGED session
      PROVE  CodeOpensOneSession'
  BY <1>1, <1>4, <1>6 DEF TokensKept
<1>7. ASSUME NEW p \in Procs, NEW t \in Tokens, RotateToken(p, t)
      PROVE  CodeOpensOneSession'
  <2>1. /\ Issued(tokens) # {} /\ Issued(tokens') # {}
        /\ family'.createdAt = family.createdAt
    BY <1>7, RotationAdds
  <2> QED BY <1>1, <1>4, <1>7, <2>1, SessionWritten
<1>8. ASSUME NEW p \in Procs, NEW w \in BOOLEAN, NEW t \in Tokens, CreateSession(p, w, t)
      PROVE  CodeOpensOneSession'
  <2>1. /\ now[p] \in Time /\ ~Exists(session) /\ Exists(session') /\ code' = "gone"
        /\ session' = NewSession(now[p]) /\ family = NoFamily
        /\ IF w THEN family' = NewFamily(now[p]) ELSE family' = family
    BY <1>8, SessionCreated
  <2>2. outbox["session_created"] = 0 /\ outbox["family_created"] = 0 /\ ~Exists(family)
    BY <2>1 DEF CodeOpensOneSession, Exists, NoFamily
  <2>3. session'.createdAt = now[p]
    BY <2>1 DEF NewSession
  <2>4. CASE w
    <3>1. Emit({"session_created", "family_created"})
      BY <1>8, <2>4 DEF CreateSession
    <3>2. outbox'["session_created"] = 1 /\ outbox'["family_created"] = 1
      BY <2>2, <3>1, Emitted DEF EventTypes
    <3>3. Issued(tokens') = {t}
      BY <1>8, <2>4, FirstToken
    <3>4. family'.createdAt = now[p] /\ now[p] # NoTime
      BY <2>1, <2>4, TimesAreNumbers DEF NewFamily, NoFamily
    <3> QED BY <2>1, <2>3, <3>2, <3>3, <3>4 DEF CodeOpensOneSession, Exists
  <2>5. CASE ~w
    <3>1. Emit({"session_created"})
      BY <1>8, <2>5 DEF CreateSession
    <3>2. outbox'["session_created"] = 1 /\ outbox'["family_created"] = 0
      BY <2>2, <3>1, Emitted DEF EventTypes
    <3>3. Issued(tokens') = {} /\ family' = family
      BY <1>8, <2>1, <2>5, FirstToken
    <3> QED BY <2>1, <2>2, <3>2, <3>3 DEF CodeOpensOneSession, Exists
  <2> QED BY <2>4, <2>5
<1> QED BY <1>2, <1>5, <1>6, <1>7, <1>8, TokensKeptOrAdded

EventsOfRows == IsFiniteSet(Rotated(tokens)) /\ EventsMatchRows

(* A rotation rotates one token more, a revocation none.                             *)
LEMMA RotatedGrows ==
  ASSUME IInv
  PROVE  /\ TokensKept => Rotated(tokens') = Rotated(tokens)
         /\ \A p \in Procs, t \in Tokens : RotateToken(p, t) =>
              /\ presented[p] \notin Rotated(tokens)
              /\ Rotated(tokens') = Rotated(tokens) \cup {presented[p]}
<1>1. TokensKept => Rotated(tokens') = Rotated(tokens)
  BY DEF TokensKept, Rotated, Issued
<1>2. ASSUME NEW p \in Procs, NEW t \in Tokens, RotateToken(p, t)
      PROVE  /\ presented[p] \notin Rotated(tokens)
             /\ Rotated(tokens') = Rotated(tokens) \cup {presented[p]}
  <2> DEFINE old == presented[p]
             new == NewToken(old, now[p], family.absoluteExpiresAt)
  <2>1. /\ now[p] # NoTime /\ old \in Issued(tokens) /\ old \in Tokens /\ old # t
        /\ t \notin Issued(tokens)
        /\ Issued(tokens') = Issued(tokens) \cup {t}
        /\ tokens'[t] = new
        /\ tokens'[old] = [tokens[old] EXCEPT !.rotatedAt = now[p]]
        /\ \A s \in Tokens \ {old, t} : tokens'[s] = tokens[s]
    BY <1>2, RotationAdds, TimesAreNumbers DEF Issued
  <2>2. new.rotatedAt = NoTime
    BY DEF NewToken
  <2> HIDE DEF new
  <2>3. tokens[old] \in Token /\ tokens[old].rotatedAt = NoTime
    BY <1>2, <2>1, RotateSaves DEF Rotatable, IInv, TypeOK
  <2>4. tokens'[old].rotatedAt # NoTime
    BY <2>1, <2>3 DEF Token
  <2>5. old \notin Rotated(tokens)
    BY <2>3 DEF Rotated
  <2>6. \A s \in Tokens : s \in Rotated(tokens') <=> s \in Rotated(tokens) \/ s = old
    BY <2>1, <2>2, <2>4 DEF Rotated
  <2>7. Rotated(tokens') \subseteq Tokens /\ Rotated(tokens) \subseteq Tokens
    BY DEF Rotated, Issued
  <2> QED BY <2>1, <2>5, <2>6, <2>7
<1> QED BY <1>1, <1>2

LEMMA EventsStep ==
  ASSUME IInv, CopiesAreOfSession, EventsOfRows, [Next]_vars
  PROVE  EventsOfRows'
<1> DEFINE n == Cardinality(Rotated(tokens))
<1>1. /\ IsFiniteSet(Rotated(tokens)) /\ outbox["token_rotated"] = n
      /\ outbox["reuse_detected"] + outbox["family_revoked"] =
           IF family.revokedAt = NoTime THEN 0 ELSE 1
      /\ outbox["reuse_detected"] = 1 <=> family.reuseDetectedAt # NoTime
      /\ session.revokedAt # NoTime => outbox["session_revoked"] > 0
      /\ outbox["reuse_detected"] \in Nat /\ outbox["family_revoked"] \in Nat
      /\ outbox["session_revoked"] \in Nat
  BY DEF EventsOfRows, EventsMatchRows, Rotated, IInv, TypeOK, EventTypes
<1>2. ASSUME IsFiniteSet(Rotated(tokens')),
             outbox'["token_rotated"] = Cardinality(Rotated(tokens')),
             outbox'["reuse_detected"] + outbox'["family_revoked"] =
               IF family'.revokedAt = NoTime THEN 0 ELSE 1,
             outbox'["reuse_detected"] = 1 <=> family'.reuseDetectedAt # NoTime,
             session'.revokedAt # NoTime => outbox'["session_revoked"] > 0
      PROVE  EventsOfRows'
  BY <1>2 DEF EventsOfRows, EventsMatchRows, Rotated
<1>3. family \in Family /\ session \in Session
  BY DEF IInv, TypeOK
<1>4. CASE UNCHANGED rows
  <2>1. session' = session /\ family' = family /\ tokens' = tokens /\ outbox' = outbox
    BY <1>4 DEF rows
  <2> QED BY <1>1, <1>2, <2>1
<1>5. ASSUME NEW p \in Procs, NEW w \in BOOLEAN, NEW t \in Tokens, CreateSession(p, w, t)
      PROVE  EventsOfRows'
  <2>1. /\ family = NoFamily /\ session' = NewSession(now[p])
        /\ IF w THEN family' = NewFamily(now[p]) ELSE family' = family
    BY <1>5, SessionCreated
  <2>2. Emit({"session_created", "family_created"}) \/ Emit({"session_created"})
    BY <1>5 DEF CreateSession
  <2>3. /\ outbox'["token_rotated"] = outbox["token_rotated"]
        /\ outbox'["reuse_detected"] = outbox["reuse_detected"]
        /\ outbox'["family_revoked"] = outbox["family_revoked"]
    BY <2>2, Emitted DEF EventTypes
  <2>4. /\ family'.revokedAt = NoTime /\ family'.reuseDetectedAt = NoTime
        /\ family.revokedAt = NoTime /\ family.reuseDetectedAt = NoTime
        /\ session'.revokedAt = NoTime
    <3>1. /\ NoFamily.revokedAt = NoTime /\ NoFamily.reuseDetectedAt = NoTime
          /\ NewSession(now[p]).revokedAt = NoTime
      BY DEF NoFamily, NewSession
    <3>2. NewFamily(now[p]).revokedAt = NoTime /\ NewFamily(now[p]).reuseDetectedAt = NoTime
      BY DEF NoFamily, NewFamily
    <3> QED BY <2>1, <3>1, <3>2
  <2>5. Rotated(tokens) = {} /\ Rotated(tokens') = {}
    <3>1. Issued(tokens) = {}
      BY <1>5, FirstToken
    <3>2. \A s \in Issued(tokens') : tokens'[s].rotatedAt = NoTime
      <4>1. NewToken(None, now[p], now[p] + FamilyLifetime).rotatedAt = NoTime
        BY DEF NewToken
      <4> QED BY <1>5, <4>1, FirstToken
    <3> QED BY <3>1, <3>2 DEF Rotated
  <2> QED BY <1>1, <1>2, <2>3, <2>4, <2>5
<1>6. ASSUME NEW p \in Procs, NEW t \in Tokens, RotateToken(p, t)
      PROVE  EventsOfRows'
  <2>1. Rotated(tokens') = Rotated(tokens) \cup {presented[p]} /\ presented[p] \notin Rotated(tokens)
    BY <1>6, RotatedGrows
  <2>2. IsFiniteSet(Rotated(tokens')) /\ Cardinality(Rotated(tokens')) = n + 1
    <3> DEFINE S == Rotated(tokens)
               x == presented[p]
    <3> HIDE DEF S, x
    <3>1. IsFiniteSet(S) /\ x \notin S /\ n = Cardinality(S)
      BY <1>1, <2>1 DEF S, x
    <3>2. IsFiniteSet(S \cup {x}) /\ Cardinality(S \cup {x}) = n + 1
      BY <3>1, FS_AddElement
    <3>3. Rotated(tokens') = S \cup {x}
      BY <2>1 DEF S, x
    <3> QED BY <3>2, <3>3
  <2>3. Emit({"token_rotated"})
    BY <1>6 DEF RotateToken
  <2>4. /\ outbox'["token_rotated"] = outbox["token_rotated"] + 1
        /\ outbox'["reuse_detected"] = outbox["reuse_detected"]
        /\ outbox'["family_revoked"] = outbox["family_revoked"]
    BY <2>3, Emitted DEF EventTypes
  <2>5. family'.revokedAt = family.revokedAt /\ family'.reuseDetectedAt = family.reuseDetectedAt
    BY <1>3, <1>6, RotationAdds DEF Family
  <2>6. session'.revokedAt = NoTime
    <3>1. session' = RecordActivity(sesCopy[p], now[p]) /\ sesCopy[p].revokedAt = NoTime
      BY <1>6 DEF RotateToken, SessionUsable
    <3>2. sesCopy[p] \in Session
      BY DEF IInv, TypeOK
    <3> QED BY <3>1, <3>2 DEF RecordActivity, Session
  <2> QED BY <1>1, <1>2, <2>2, <2>4, <2>5, <2>6
<1>7. ASSUME NEW p \in Procs, DetectReuse(p), TokensKept
      PROVE  EventsOfRows'
  <2>1. Emit({"reuse_detected", "session_revoked"})
    BY <1>7 DEF DetectReuse
  <2>2. /\ outbox'["token_rotated"] = outbox["token_rotated"]
        /\ outbox'["reuse_detected"] = outbox["reuse_detected"] + 1
        /\ outbox'["family_revoked"] = outbox["family_revoked"]
        /\ outbox'["session_revoked"] = outbox["session_revoked"] + 1
    BY <2>1, Emitted DEF EventTypes
  <2>3. family.revokedAt = NoTime /\ now[p] # NoTime
    BY <1>7, RevocationTimes, TimesAreNumbers
  <2>4. family'.revokedAt = now[p] /\ family'.reuseDetectedAt = now[p]
    BY <1>3, <1>7, ReuseSaves DEF Family
  <2>5. Rotated(tokens') = Rotated(tokens)
    BY <1>7, RotatedGrows
  <2>6. outbox["reuse_detected"] = 0 /\ outbox["family_revoked"] = 0
    BY <1>1, <2>3
  <2> QED BY <1>1, <1>2, <2>2, <2>3, <2>4, <2>5, <2>6
<1>8. ASSUME NEW p \in Procs, RevokeRefresh(p), TokensKept, UNCHANGED session
      PROVE  EventsOfRows'
  <2>1. Emit({"family_revoked"})
    BY <1>8 DEF RevokeRefresh
  <2>2. /\ outbox'["token_rotated"] = outbox["token_rotated"]
        /\ outbox'["reuse_detected"] = outbox["reuse_detected"]
        /\ outbox'["family_revoked"] = outbox["family_revoked"] + 1
        /\ outbox'["session_revoked"] = outbox["session_revoked"]
    BY <2>1, Emitted DEF EventTypes
  <2>3. family.revokedAt = NoTime /\ now[p] # NoTime
    BY <1>8, RevocationTimes, TimesAreNumbers
  <2>4. family'.revokedAt = now[p] /\ family'.reuseDetectedAt = family.reuseDetectedAt
    BY <1>3, <1>8, RevokeRefreshSaves DEF Family
  <2>5. Rotated(tokens') = Rotated(tokens)
    BY <1>8, RotatedGrows
  <2>6. outbox["reuse_detected"] = 0 /\ outbox["family_revoked"] = 0
    BY <1>1, <2>3
  <2> QED BY <1>1, <1>2, <1>8, <2>2, <2>3, <2>4, <2>5, <2>6
<1>9. ASSUME NEW p \in Procs, RevokeAccess(p), TokensKept
      PROVE  EventsOfRows'
  <2>1. Emit({"session_revoked"}) /\ family' = family
    BY <1>9 DEF RevokeAccess
  <2>2. /\ outbox'["token_rotated"] = outbox["token_rotated"]
        /\ outbox'["reuse_detected"] = outbox["reuse_detected"]
        /\ outbox'["family_revoked"] = outbox["family_revoked"]
        /\ outbox'["session_revoked"] = outbox["session_revoked"] + 1
    BY <2>1, Emitted DEF EventTypes
  <2>3. Rotated(tokens') = Rotated(tokens)
    BY <1>9, RotatedGrows
  <2> QED BY <1>1, <1>2, <2>1, <2>2, <2>3
<1> QED BY <1>4, <1>5, <1>6, <1>7, <1>8, <1>9, TokensKeptOrAdded

----------------------------------------------------------------------------
(* The family as one atomic object *)

(* What the steps that touch a family do to it, seen as TokenFamily sees it.       *)
FamilyIssued(t) ==
  /\ ~Exists(family) /\ Issued(tokens) = {}
  /\ Exists(family') /\ family'.revokedAt = NoTime
  /\ Issued(tokens') = {t}
  /\ tokens'[t].rotatedAt = NoTime /\ tokens'[t].revokedAt = NoTime

FamilyRotated(old, new) ==
  /\ Exists(family) /\ Exists(family')
  /\ family.revokedAt = NoTime /\ family'.revokedAt = NoTime
  /\ old \in Unspent(tokens) /\ new \notin Issued(tokens)
  /\ Issued(tokens') = Issued(tokens) \cup {new}
  /\ tokens'[old].rotatedAt # NoTime /\ tokens'[old].revokedAt = NoTime
  /\ tokens'[new].rotatedAt = NoTime /\ tokens'[new].revokedAt = NoTime
  /\ \A s \in Tokens \ {old, new} : tokens'[s] = tokens[s]

FamilyRevoked ==
  /\ Exists(family) /\ Exists(family')
  /\ family.revokedAt = NoTime /\ family'.revokedAt # NoTime
  /\ family'.reuseDetectedAt # NoTime => Rotated(tokens) # {}
  /\ Rotated(tokens') = Rotated(tokens)
  /\ \A t \in Issued(tokens') : tokens'[t].revokedAt # NoTime

LEMMA FamilyIssuedBy ==
  ASSUME IInv, LimitsInv, NEW p \in Procs, NEW w \in BOOLEAN, NEW t \in Tokens, CreateSession(p, w, t)
  PROVE  UNCHANGED << family, tokens >> \/ FamilyIssued(t)
<1>1. CASE ~w
  BY <1>1, SessionCreated
<1>2. CASE w
  <2>1. /\ Issued(tokens) = {} /\ Issued(tokens') = {t}
        /\ tokens'[t] = NewToken(None, now[p], now[p] + FamilyLifetime)
    BY <1>2, FirstToken
  <2>2. family = NoFamily /\ family' = NewFamily(now[p]) /\ now[p] # NoTime
    BY <1>2, SessionCreated, TimesAreNumbers
  <2>3. ~Exists(family) /\ Exists(family') /\ family'.revokedAt = NoTime
    BY <2>2 DEF Exists, NoFamily, NewFamily
  <2>4. tokens'[t].rotatedAt = NoTime /\ tokens'[t].revokedAt = NoTime
    BY <2>1 DEF NewToken
  <2> QED BY <2>1, <2>3, <2>4 DEF FamilyIssued
<1> QED BY <1>1, <1>2

LEMMA FamilyRotatedBy ==
  ASSUME IInv, LimitsInv, NEW p \in Procs, NEW t \in Tokens, RotateToken(p, t)
  PROVE  FamilyRotated(presented[p], t)
<1> DEFINE old == presented[p]
           new == NewToken(old, now[p], family.absoluteExpiresAt)
<1>1. /\ now[p] \in Time /\ old \in Issued(tokens) /\ t \notin Issued(tokens) /\ old # t
      /\ Issued(tokens') = Issued(tokens) \cup {t}
      /\ tokens'[t] = new
      /\ tokens'[old] = [tokens[old] EXCEPT !.rotatedAt = now[p]]
      /\ \A s \in Tokens \ {old, t} : tokens'[s] = tokens[s]
      /\ family' = [family EXCEPT !.lastRotatedAt = now[p]]
  BY RotationAdds
<1>2. new.rotatedAt = NoTime /\ new.revokedAt = NoTime
  BY DEF NewToken
<1> HIDE DEF new
<1>3. /\ family.revokedAt = NoTime
      /\ tokens[old].rotatedAt = NoTime /\ tokens[old].revokedAt = NoTime
  BY RotateSaves DEF Rotatable, RotationAllowed
<1>4. family \in Family /\ tokens[old] \in Token /\ now[p] # NoTime
  BY <1>1, TimesAreNumbers DEF IInv, TypeOK, Issued
<1>5. Exists(family) /\ Exists(family') /\ family'.revokedAt = NoTime
  <2>1. family'.createdAt = family.createdAt /\ family'.revokedAt = family.revokedAt
    BY <1>1, <1>4 DEF Family
  <2> QED BY <1>1, <1>3, <2>1 DEF LimitsInv, CodeOpensOneSession, Exists
<1>6. tokens'[old].rotatedAt # NoTime /\ tokens'[old].revokedAt = NoTime
  BY <1>1, <1>3, <1>4 DEF Token
<1> QED BY <1>1, <1>2, <1>3, <1>5, <1>6 DEF FamilyRotated, Unspent

LEMMA FamilyRevokedBy ==
  ASSUME IInv, LimitsInv, NEW p \in Procs, DetectReuse(p) \/ RevokeRefresh(p)
  PROVE  FamilyRevoked
<1>1. TokensRevoked /\ TokensKept
  BY ReuseEffect, RevokeRefreshEffect, RevocationKeeps
<1>2. Issued(tokens) # {}
  BY ReuseSaves DEF RevokeRefresh, IInv, StepMatchesHandler, HandlerOf
<1>3. Exists(family) /\ Exists(family')
  BY <1>1, <1>2 DEF LimitsInv, CodeOpensOneSession, Exists, TokensKept
<1>4. family'.reuseDetectedAt # NoTime => Rotated(tokens) # {}
  <2>1. CASE DetectReuse(p)
    BY <2>1, ReuseSaves DEF Reused, Rotated
  <2>2. CASE RevokeRefresh(p)
    <3>1. family'.reuseDetectedAt = family.reuseDetectedAt
      BY <2>2, RevokeRefreshEffect
    <3> QED BY <1>1, <3>1 DEF IInv, ReuseRevokesAll, TokensRevoked
  <2> QED BY <2>1, <2>2
<1>5. Rotated(tokens') = Rotated(tokens)
  BY <1>1, RotatedGrows
<1> QED BY <1>1, <1>3, <1>4, <1>5 DEF FamilyRevoked, TokensRevoked

(* Every step leaves the family alone or does one of the three.                    *)
LEMMA FamilySteps ==
  ASSUME IInv, LimitsInv, [Next]_vars
  PROVE  \/ UNCHANGED << family, tokens >>
         \/ \E t \in Tokens : FamilyIssued(t)
         \/ \E old, new \in Tokens : FamilyRotated(old, new)
         \/ FamilyRevoked
<1>1. ASSUME NEW p \in Procs, NEW t \in Tokens, RotateToken(p, t)
      PROVE  \E old, new \in Tokens : FamilyRotated(old, new)
  <2>1. FamilyRotated(presented[p], t)
    BY <1>1, FamilyRotatedBy
  <2>2. presented[p] \in Tokens
    BY <2>1 DEF FamilyRotated, Unspent, Issued
  <2> QED BY <2>1, <2>2
<1>2. ASSUME NEW p \in Procs, RevokeAccess(p)
      PROVE  UNCHANGED << family, tokens >>
  BY <1>2 DEF RevokeAccess
<1>3. UNCHANGED rows => UNCHANGED << family, tokens >>
  BY DEF rows
<1> QED BY <1>1, <1>2, <1>3, FamilyIssuedBy, FamilyRevokedBy, RowWriters

LEMMA TogetherStep ==
  ASSUME IInv, LimitsInv, [Next]_vars
  PROVE  RevokedTogether'
<1>1. RevokedTogether
  BY DEF LimitsInv
<1>2. CASE UNCHANGED << family, tokens >>
  BY <1>1, <1>2 DEF RevokedTogether
<1>3. ASSUME NEW t \in Tokens, FamilyIssued(t)
      PROVE  RevokedTogether'
  BY <1>3 DEF RevokedTogether, FamilyIssued
<1>4. ASSUME NEW old \in Tokens, NEW new \in Tokens, FamilyRotated(old, new)
      PROVE  RevokedTogether'
  <2>1. \A t \in Issued(tokens') : tokens'[t].revokedAt = NoTime
    BY <1>1, <1>4 DEF RevokedTogether, FamilyRotated, Issued
  <2> QED BY <1>4, <2>1 DEF RevokedTogether, FamilyRotated
<1>5. CASE FamilyRevoked
  BY <1>5 DEF FamilyRevoked, RevokedTogether
<1> QED BY <1>2, <1>3, <1>4, <1>5, FamilySteps

(* Each of the three is a step of TokenFamily.                                     *)
LEMMA GrantStep ==
  ASSUME IInv, LimitsInv, [Next]_vars
  PROVE  [Grant!Next]_<< Unspent(tokens), Rotated(tokens), FamilyStatus >>
<1>1. /\ SingleCurrentToken /\ RevokedTogether /\ ReuseRevokesAll
      /\ tokens \in [Tokens -> Token]
  BY DEF IInv, LimitsInv, TypeOK
<1>2. /\ Unspent(tokens)' = Unspent(tokens') /\ Rotated(tokens)' = Rotated(tokens')
      /\ FamilyStatus' = IF ~Exists(family') THEN "none"
                         ELSE IF family'.revokedAt = NoTime THEN "live"
                         ELSE IF family'.reuseDetectedAt = NoTime THEN "revoked" ELSE "reused"
  BY DEF Unspent, Rotated, Issued, Exists, FamilyStatus
<1>3. CASE UNCHANGED << family, tokens >>
  BY <1>2, <1>3 DEF FamilyStatus
<1>4. ASSUME NEW t \in Tokens, FamilyIssued(t)
      PROVE  Grant!Issue(t)
  <2>1. Unspent(tokens') = {t}
    BY <1>4 DEF FamilyIssued, Unspent
  <2>2. Rotated(tokens') = {} /\ Rotated(tokens) = {}
    BY <1>4 DEF FamilyIssued, Rotated
  <2>3. FamilyStatus = "none" /\ FamilyStatus' = "live"
    BY <1>2, <1>4 DEF FamilyIssued, FamilyStatus
  <2> QED BY <1>2, <2>1, <2>2, <2>3 DEF Grant!Issue
<1>5. ASSUME NEW old \in Tokens, NEW new \in Tokens, FamilyRotated(old, new)
      PROVE  Grant!Rotate(old, new)
  <2>1. FamilyStatus = "live" /\ FamilyStatus' = "live"
    BY <1>2, <1>5 DEF FamilyRotated, FamilyStatus
  <2>2. Unspent(tokens) = {old}
    BY <1>1, <1>5 DEF FamilyRotated, Unspent, SingleCurrentToken
  <2>3. Unspent(tokens') = {new}
    <3>1. old # new /\ new \in Unspent(tokens') /\ old \notin Unspent(tokens')
      BY <1>5 DEF FamilyRotated, Unspent
    <3>2. ASSUME NEW s \in Issued(tokens) \ {old}
          PROVE  s \notin Unspent(tokens')
      BY <1>5, <2>2, <3>2 DEF FamilyRotated, Unspent, Issued
    <3> QED BY <1>5, <3>1, <3>2 DEF FamilyRotated, Unspent
  <2>4. Rotated(tokens') = Rotated(tokens) \cup {old}
    <3>1. old \in Issued(tokens) /\ old \in Tokens /\ new \in Tokens /\ old # new
      BY <1>5 DEF FamilyRotated, Unspent
    <3>2. \A s \in Issued(tokens) \ {old} : tokens'[s] = tokens[s]
      BY <1>5 DEF FamilyRotated, Issued
    <3> QED BY <1>5, <3>1, <3>2 DEF FamilyRotated, Rotated
  <2>5. new \notin Rotated(tokens) \cup {old}
    BY <1>5 DEF FamilyRotated, Unspent, Rotated
  <2> QED BY <1>2, <2>1, <2>2, <2>3, <2>4, <2>5 DEF Grant!Rotate
<1>6. CASE FamilyRevoked
  <2>1. FamilyStatus = "live" /\ FamilyStatus' \in {"revoked", "reused"}
    BY <1>2, <1>6 DEF FamilyRevoked, FamilyStatus
  <2>2. FamilyStatus' = "reused" => Rotated(tokens) # {}
    BY <1>2, <1>6 DEF FamilyRevoked
  <2>3. Unspent(tokens') = {} /\ Rotated(tokens') = Rotated(tokens)
    BY <1>6 DEF FamilyRevoked, Unspent
  <2>4. Grant!End(FamilyStatus')
    BY <1>2, <2>1, <2>2, <2>3 DEF Grant!End
  <2> QED BY <2>1, <2>4 DEF Grant!Next
<1> QED BY <1>3, <1>4, <1>5, <1>6, FamilySteps DEF Grant!Next

LEMMA GrantInit ==
  ASSUME Init
  PROVE  Grant!Init
BY DEF Init, Grant!Init, Unspent, Rotated, Issued, NoTokens, NoToken, FamilyStatus, Exists, NoFamily

----------------------------------------------------------------------------
(* The invariants of every behaviour *)

LEMMA InitLimits ==
  ASSUME Init
  PROVE  LimitsInv
<1>1. Issued(tokens) = {} /\ Rotated(tokens) = {}
  BY DEF Init, Rotated, Issued, NoTokens, NoToken
<1>2. RevokedTogether /\ CopiesAreOfSession /\ TokenTimesWithinFamily /\ IdleIsBounded
      /\ TokensWithinLifetimes
  BY <1>1 DEF Init, RevokedTogether, CopiesAreOfSession, TokenTimesWithinFamily, IdleIsBounded, TokensWithinLifetimes
<1>3. CodeOpensOneSession
  BY <1>1 DEF Init, CodeOpensOneSession, Exists, NoSession, NoFamily, EventTypes
<1>4. IsFiniteSet(Rotated(tokens)) /\ Cardinality(Rotated(tokens)) = 0
  BY <1>1, FS_EmptySet
<1>5. EventsMatchRows
  BY <1>4 DEF Init, EventsMatchRows, Rotated, NoSession, NoFamily, EventTypes, NoTime
<1> QED BY <1>2, <1>3, <1>4, <1>5 DEF LimitsInv

LEMMA LimitsStep ==
  ASSUME IInv, LimitsInv, [Next]_vars
  PROVE  LimitsInv'
<1>1. CopiesAreOfSession' /\ TokenTimesWithinFamily'
  BY CopiesStep, TokenTimesStep DEF LimitsInv
<1>2. IdleIsBounded' /\ TokensWithinLifetimes'
  BY IdleStep, LifetimesStep DEF LimitsInv
<1>3. CodeOpensOneSession' /\ EventsOfRows'
  BY CodeEventsStep, EventsStep DEF LimitsInv, EventsOfRows
<1>4. RevokedTogether'
  BY TogetherStep
<1> QED BY <1>1, <1>2, <1>3, <1>4 DEF LimitsInv, EventsOfRows

(* The second inductive invariant, on top of the first, holds of every behaviour.   *)
THEOREM LimitsInvariance == Spec => []LimitsInv
BY InitLimits, LimitsStep, Invariance, PTL DEF Spec

(* No token is later than its family: revoke never stops half-way, however requests *)
(* with earlier times were delayed.                                                  *)
THEOREM RevocationIsWhole == Spec => []TokenTimesWithinFamily
<1>1. LimitsInv => TokenTimesWithinFamily
  BY DEF LimitsInv
<1> QED BY <1>1, LimitsInvariance, PTL

(* No chain of rotations outlives the family, the session or the idle lifetime,      *)
(* although the session row is written back from copies read without a lock.        *)
THEOREM LifetimesBindTokens == Spec => []TokensWithinLifetimes
<1>1. LimitsInv => TokensWithinLifetimes
  BY DEF LimitsInv
<1> QED BY <1>1, LimitsInvariance, PTL

(* One authorization code opens one session at most, with one family.                *)
THEOREM OneSessionPerCode == Spec => []CodeOpensOneSession
<1>1. LimitsInv => CodeOpensOneSession
  BY DEF LimitsInv
<1> QED BY <1>1, LimitsInvariance, PTL

(* The events in the outbox are those of the rows: one for each rotation, one for    *)
(* the end of the family.                                                            *)
THEOREM EventsTellRows == Spec => []EventsMatchRows
<1>1. LimitsInv => EventsMatchRows
  BY DEF LimitsInv
<1> QED BY <1>1, LimitsInvariance, PTL

(* The family implements TokenFamily: whatever requests do at once, each rotation,   *)
(* each detected reuse and each revocation is one atomic step of one family.         *)
THEOREM FamilyImplementsAtomicFamily == Spec => FamilyIsAtomic
<1> DEFINE abs == << Unspent(tokens), Rotated(tokens), FamilyStatus >>
<1>1. IInv /\ LimitsInv /\ [Next]_vars => [Grant!Next]_abs
  BY GrantStep
<1> HIDE DEF abs
<1>2. Spec => Grant!Init /\ [][Grant!Next]_abs
  BY <1>1, GrantInit, Invariance, LimitsInvariance, PTL DEF Spec
<1> QED BY <1>2 DEF abs, FamilyIsAtomic, Grant!Spec

----------------------------------------------------------------------------
(* The session of a confidential client *)

(* Recording the use of the secret locks the client row before anything is read,     *)
(* so what a request of a confidential client read of the session is still stored.   *)
ClientQueues ==
  \A p \in Procs :
    /\ pc[p] \notin {"idle", "authenticate"} => clientLock = p
    /\ pc[p] \in {"rotate", "revokeSession"} => sesCopy[p] = session

SessionKept ==
  Exists(session) =>
    /\ session.revokedAt # NoTime => UNCHANGED << session, outbox["session_revoked"] >>
    /\ session'.lastSeenAt >= session.lastSeenAt
    /\ session'.idleExpiresAt >= session.idleExpiresAt

LEMMA QueueStep ==
  ASSUME Confidential, IInv, ClientQueues, [Next]_vars
  PROVE  ClientQueues'
<1>1. TypeOK
  BY DEF IInv
<1>2. SUFFICES ASSUME NEW q \in Procs
               PROVE  /\ pc'[q] \notin {"idle", "authenticate"} => clientLock' = q
                      /\ pc'[q] \in {"rotate", "revokeSession"} => sesCopy'[q] = session'
  BY DEF ClientQueues
<1>3. CASE UNCHANGED << pc, clientLock, sesCopy, session >>
  BY <1>3 DEF ClientQueues
<1>4. ASSUME NEW p \in Procs, EndTx(p), UNCHANGED session \/ pc[p] \notin {"idle", "authenticate"}
      PROVE  /\ pc'[q] \notin {"idle", "authenticate"} => clientLock' = q
             /\ pc'[q] \in {"rotate", "revokeSession"} => sesCopy'[q] = session'
  <2>1. CASE p = q
    BY <1>1, <1>4, <2>1 DEF TypeOK, EndTx, Goto
  <2>2. CASE p # q
    <3>1. pc'[q] = pc[q] /\ sesCopy'[q] = sesCopy[q] /\ clientLock' = Release(clientLock, p)
      BY <1>1, <1>4, <2>2 DEF TypeOK, EndTx, Goto
    <3> QED BY <1>4, <2>2, <3>1 DEF ClientQueues, Release
  <2> QED BY <2>1, <2>2
<1>5. ASSUME NEW p \in Procs,
             \/ \E w \in BOOLEAN, t \in Tokens : CreateSession(p, w, t)
             \/ DetectReuse(p) \/ (\E t \in Tokens : RotateToken(p, t))
             \/ RevokeRefresh(p) \/ RevokeAccess(p)
      PROVE  EndTx(p) /\ pc[p] \notin {"idle", "authenticate"}
  BY <1>5 DEF CreateSession, DetectReuse, RotateToken, RevokeRefresh, RevokeAccess
<1>6. ASSUME NEW p \in Procs, Rollback(p)
      PROVE  EndTx(p) /\ UNCHANGED session
  BY <1>6 DEF Rollback, rows
<1>7. ASSUME NEW p \in Procs, NEW o \in Operations, NEW t \in Tokens \cup {None}, Begin(p, o, t)
      PROVE  /\ pc'[q] \notin {"idle", "authenticate"} => clientLock' = q
             /\ pc'[q] \in {"rotate", "revokeSession"} => sesCopy'[q] = session'
  BY <1>1, <1>7 DEF TypeOK, Begin, Goto, ClientQueues, rows, locks, copies
<1>8. ASSUME NEW p \in Procs, AuthenticateConfidential(p)
      PROVE  /\ pc'[q] \notin {"idle", "authenticate"} => clientLock' = q
             /\ pc'[q] \in {"rotate", "revokeSession"} => sesCopy'[q] = session'
  <2>1. pc[q] \in {"idle", "authenticate"}
    BY <1>8, NoneAssumption DEF AuthenticateConfidential, ClientQueues
  <2>2. FirstStep(op[p]) \notin {"rotate", "revokeSession"}
    BY DEF FirstStep
  <2> QED BY <1>1, <1>8, <2>1, <2>2 DEF TypeOK, AuthenticateConfidential, Goto
<1>9. ASSUME NEW p \in Procs, AuthenticatePublic(p)
      PROVE  FALSE
  BY <1>9 DEF AuthenticatePublic
<1>10. ASSUME NEW p \in Procs, ConsumeCode(p) \/ LockFamily(p) \/ ReadSession(p)
       PROVE  /\ pc'[q] \notin {"idle", "authenticate"} => clientLock' = q
              /\ pc'[q] \in {"rotate", "revokeSession"} => sesCopy'[q] = session'
  <2>1. clientLock = p /\ clientLock' = clientLock /\ session' = session
    BY <1>10 DEF ConsumeCode, LockFamily, ReadSession, ClientQueues, rows, locks
  <2>2. CASE p = q
    <3>1. ConsumeCode(p) \/ LockFamily(p) => pc'[p] \notin {"rotate", "revokeSession"}
      BY <1>1 DEF TypeOK, ConsumeCode, LockFamily, Goto
    <3>2. ReadSession(p) => sesCopy'[p] = session
      BY <1>1 DEF TypeOK, ReadSession
    <3> QED BY <1>10, <2>1, <2>2, <3>1, <3>2
  <2>3. CASE p # q
    <3>1. pc'[q] = pc[q]
      BY <1>1, <1>10, <2>3 DEF TypeOK, ConsumeCode, LockFamily, ReadSession, Goto
    <3> QED BY <2>1, <2>3, <3>1 DEF ClientQueues
  <2> QED BY <2>2, <2>3
<1>11. CodeExpires \/ Tick \/ UNCHANGED vars => UNCHANGED << pc, clientLock, sesCopy, session >>
  BY DEF CodeExpires, Tick, vars, rows, locks, locals, copies
<1> QED BY <1>3, <1>4, <1>5, <1>6, <1>7, <1>8, <1>9, <1>10, <1>11, NextCases

LEMMA SessionKeptStep ==
  ASSUME IInv, ClientQueues, [Next]_vars
  PROVE  SessionKept
<1>1. /\ session \in Session /\ session.lastSeenAt \in Int /\ session.idleExpiresAt \in Int
      /\ session.absoluteExpiresAt \in Int /\ SessionChangedAt(session) >= session.lastSeenAt
      /\ SessionChangedAt(session) \in Int
  BY SessionTimes DEF IInv, TypeOK
<1>2. UNCHANGED << session, outbox["session_revoked"] >> => SessionKept
  BY <1>1 DEF SessionKept
<1>3. ASSUME NEW p \in Procs, DetectReuse(p) \/ RevokeAccess(p)
      PROVE  SessionKept
  <2>1. session' = RevokeSession(session, now[p]) /\ session.revokedAt = NoTime
    BY <1>3 DEF DetectReuse, RevokeAccess, ClientQueues, SessionUsable, CanRevokeSession
  <2>2. session'.lastSeenAt = session.lastSeenAt /\ session'.idleExpiresAt = session.idleExpiresAt
    BY <1>1, <2>1 DEF RevokeSession, Session
  <2> QED BY <1>1, <2>1, <2>2 DEF SessionKept
<1>4. ASSUME NEW p \in Procs, NEW t \in Tokens, RotateToken(p, t)
      PROVE  SessionKept
  <2> DEFINE idle == Later(session.idleExpiresAt,
                           MinimumTime(now[p] + IdleLifetime, session.absoluteExpiresAt))
  <2>1. /\ session' = RecordActivity(session, now[p]) /\ session.revokedAt = NoTime
        /\ now[p] >= SessionChangedAt(session)
    BY <1>4 DEF RotateToken, ClientQueues, SessionUsable
  <2>2. now[p] \in Int
    BY TimesAreNumbers DEF IInv, TypeOK
  <2>3. session'.lastSeenAt = now[p] /\ session'.idleExpiresAt = idle
    BY <1>1, <2>1 DEF RecordActivity, Session
  <2>4. idle >= session.idleExpiresAt
    BY <1>1, <2>2, LifetimeAssumption DEF Later, MinimumTime
  <2> HIDE DEF idle
  <2> QED BY <1>1, <2>1, <2>2, <2>3, <2>4 DEF SessionKept
<1>5. ASSUME NEW p \in Procs, NEW w \in BOOLEAN, NEW t \in Tokens, CreateSession(p, w, t)
      PROVE  SessionKept
  BY <1>5, SessionCreated DEF SessionKept
<1>6. ASSUME NEW p \in Procs, RevokeRefresh(p)
      PROVE  UNCHANGED << session, outbox["session_revoked"] >>
  <2>1. Emit({"family_revoked"}) /\ UNCHANGED session
    BY <1>6 DEF RevokeRefresh
  <2> QED BY <2>1, Emitted DEF EventTypes
<1>7. UNCHANGED rows => UNCHANGED << session, outbox["session_revoked"] >>
  BY DEF rows
<1> QED BY <1>2, <1>3, <1>4, <1>5, <1>6, <1>7, RowWriters

(* Clients queue for the secret, and no row of a session is there without it.        *)
ConfidentialInv ==
  /\ Confidential => ClientQueues
  /\ ~Exists(session) => session = NoSession
  /\ \A p \in Procs : clientLock = p => Confidential /\ pc[p] \notin {"idle", "authenticate"}

LEMMA HolderStep ==
  ASSUME IInv, NEW q \in Procs, [Next]_vars,
         clientLock = q => Confidential /\ pc[q] \notin {"idle", "authenticate"},
         clientLock' = q
  PROVE  Confidential /\ pc'[q] \notin {"idle", "authenticate"}
<1>1. TypeOK
  BY DEF IInv
<1>2. ASSUME NEW p \in Procs, EndTx(p)
      PROVE  Confidential /\ pc'[q] \notin {"idle", "authenticate"}
  <2>1. q # p /\ clientLock = q
    BY <1>2, NoneAssumption DEF EndTx, Release
  <2> QED BY <1>1, <1>2, <2>1 DEF TypeOK, EndTx, Goto
<1>3. ASSUME NEW p \in Procs, NEW o \in Operations, NEW t \in Tokens \cup {None}, Begin(p, o, t)
      PROVE  Confidential /\ pc'[q] \notin {"idle", "authenticate"}
  BY <1>1, <1>3 DEF TypeOK, Begin, Goto, locks
<1>4. ASSUME NEW p \in Procs, AuthenticatePublic(p) \/ AuthenticateConfidential(p)
      PROVE  Confidential /\ pc'[q] \notin {"idle", "authenticate"}
  <2>1. FirstStep(op[p]) \notin {"idle", "authenticate"}
    BY DEF FirstStep
  <2>2. pc' = [pc EXCEPT ![p] = FirstStep(op[p])]
    BY <1>4 DEF AuthenticatePublic, AuthenticateConfidential, Goto
  <2>3. clientLock' = clientLock \/ (Confidential /\ p = q)
    BY <1>4 DEF AuthenticatePublic, AuthenticateConfidential, locks
  <2> QED BY <1>1, <2>1, <2>2, <2>3 DEF TypeOK
<1>5. ASSUME NEW p \in Procs, ConsumeCode(p) \/ LockFamily(p) \/ ReadSession(p)
      PROVE  Confidential /\ pc'[q] \notin {"idle", "authenticate"}
  BY <1>1, <1>5 DEF TypeOK, ConsumeCode, LockFamily, ReadSession, Goto, locks
<1>6. CodeExpires \/ Tick \/ UNCHANGED vars => UNCHANGED << pc, clientLock >>
  BY DEF CodeExpires, Tick, vars, locks, locals
<1>7. ASSUME NEW p \in Procs,
             \/ \E w \in BOOLEAN, t \in Tokens : CreateSession(p, w, t)
             \/ DetectReuse(p) \/ (\E t \in Tokens : RotateToken(p, t))
             \/ RevokeRefresh(p) \/ RevokeAccess(p) \/ Rollback(p)
      PROVE  EndTx(p)
  BY <1>7 DEF CreateSession, DetectReuse, RotateToken, RevokeRefresh, RevokeAccess, Rollback
<1> QED BY <1>2, <1>3, <1>4, <1>5, <1>6, <1>7, NextCases

LEMMA AbsentStep ==
  ASSUME IInv, LimitsInv, ~Exists(session) => session = NoSession, [Next]_vars, ~Exists(session')
  PROVE  session' = NoSession
<1>1. ASSUME NEW p \in Procs, RevokeRefresh(p)
      PROVE  session' = session
  BY <1>1 DEF RevokeRefresh
<1>2. UNCHANGED rows => session' = session
  BY DEF rows
<1>3. ASSUME NEW p \in Procs, \/ DetectReuse(p) \/ RevokeAccess(p)
                              \/ \E t \in Tokens : RotateToken(p, t)
      PROVE  FALSE
  BY <1>3, SessionWritten DEF LimitsInv
<1> QED BY <1>1, <1>2, <1>3, SessionCreated, RowWriters

THEOREM ConfidentialInvariance == Spec => []ConfidentialInv
<1>1. Init => ConfidentialInv
  BY NoneAssumption DEF Init, ConfidentialInv, ClientQueues
<1>2. IInv /\ LimitsInv /\ ConfidentialInv /\ [Next]_vars => ConfidentialInv'
  <2> SUFFICES ASSUME IInv, LimitsInv, ConfidentialInv, [Next]_vars PROVE ConfidentialInv'
    OBVIOUS
  <2>1. Confidential => ClientQueues'
    BY QueueStep DEF ConfidentialInv
  <2>2. ~Exists(session') => session' = NoSession
    BY AbsentStep DEF ConfidentialInv
  <2>3. \A p \in Procs : clientLock' = p => Confidential /\ pc'[p] \notin {"idle", "authenticate"}
    BY HolderStep DEF ConfidentialInv
  <2> QED BY <2>1, <2>2, <2>3 DEF ConfidentialInv, Exists
<1> QED BY <1>1, <1>2, Invariance, LimitsInvariance, PTL DEF Spec

(* The session of a confidential client stays revoked once revoked, is announced     *)
(* revoked once, and its activity never moves back, whatever the interleaving: the   *)
(* lock on the client row does what the unlocked read of the session does not.       *)
THEOREM ConfidentialSessionNeverRegresses ==
  ASSUME Confidential
  PROVE  Spec => SessionNeverRegresses
<1>1. IInv /\ ConfidentialInv /\ [Next]_vars => [SessionKept]_vars
  BY SessionKeptStep DEF ConfidentialInv
<1> QED BY <1>1, Invariance, ConfidentialInvariance, PTL DEF Spec, SessionNeverRegresses, SessionKept

(* What the documentation promises of every revocation holds for the clients that    *)
(* authenticate with a secret: a revoked session does not come back.                 *)
THEOREM ConfidentialSessionStaysRevoked ==
  ASSUME Confidential
  PROVE  Spec => RevokedSessionStaysRevoked
<1>1. ASSUME IInv, ConfidentialInv, [Next]_vars
      PROVE  [session.revokedAt # NoTime => session'.revokedAt # NoTime]_vars
  <2>1. SessionKept
    BY <1>1, SessionKeptStep DEF ConfidentialInv
  <2>2. session.revokedAt # NoTime => Exists(session)
    BY <1>1 DEF ConfidentialInv, NoSession
  <2> QED BY <2>1, <2>2 DEF SessionKept
<1> QED BY <1>1, Invariance, ConfidentialInvariance, PTL DEF Spec, RevokedSessionStaysRevoked

----------------------------------------------------------------------------
(* What the end of every request rests on *)

(* p can take no step before q lets go of a row lock.                                *)
WaitsFor(p, q) ==
  \/ pc[p] = "authenticate" /\ Confidential /\ clientLock = q
  \/ pc[p] = "lockFamily" /\ famLock = q

(* Whoever is waited for is in its handler and itself waits for nobody.              *)
HoldersRun ==
  \A p, q \in Procs : WaitsFor(p, q) => pc[q] # "idle" /\ \A r \in Procs : ~WaitsFor(q, r)

(* How many steps a handler has before it, at most.                                  *)
StepsLeft(step) ==
  CASE step = "authenticate"              -> 4
    [] step = "lockFamily"                -> 3
    [] step \in {"consume", "readSession"} -> 2
    [] step = "idle"                      -> 0
    [] OTHER                              -> 1

(* A request comes closer to its end with each of its steps, and no step of another  *)
(* request takes it back.                                                            *)
HandlersAdvance ==
  \A p \in Procs : pc[p] # "idle" => pc'[p] = pc[p] \/ StepsLeft(pc'[p]) < StepsLeft(pc[p])

(* Deadlock is impossible, for any number of requests: nobody waits for a finished   *)
(* transaction, for itself, or for one that waits (client row before family row).    *)
THEOREM LockHoldersRun == Spec => []HoldersRun
<1>1. ASSUME IInv, ConfidentialInv
      PROVE  HoldersRun
  <2>1. ASSUME NEW p \in Procs, NEW q \in Procs, pc[p] = "lockFamily", famLock = q
        PROVE  pc[q] # "idle" /\ \A r \in Procs : ~WaitsFor(q, r)
    <3>1. HoldsFamily(q)
      BY <1>1, <2>1 DEF IInv, LockedFamilyIsCurrent, HolderIsCurrent
    <3> QED BY <3>1 DEF HoldsFamily, WaitsFor
  <2>2. ASSUME NEW p \in Procs, NEW q \in Procs, pc[p] = "authenticate", Confidential, clientLock = q
        PROVE  pc[q] # "idle" /\ \A r \in Procs : ~WaitsFor(q, r)
    <3>1. pc[q] \notin {"idle", "authenticate"} /\ ClientQueues
      BY <1>1, <2>2 DEF ConfidentialInv
    <3>2. ASSUME NEW r \in Procs, pc[q] = "lockFamily", famLock = r
          PROVE  FALSE
      <4>1. HoldsFamily(r)
        BY <1>1, <3>2 DEF IInv, LockedFamilyIsCurrent, HolderIsCurrent
      <4>2. clientLock = r
        BY <3>1, <4>1 DEF ClientQueues, HoldsFamily
      <4> QED BY <2>2, <3>2, <4>1, <4>2 DEF HoldsFamily
    <3> QED BY <3>1, <3>2 DEF WaitsFor
  <2> QED BY <2>1, <2>2 DEF HoldersRun, WaitsFor
<1> QED BY <1>1, Invariance, ConfidentialInvariance, PTL

(* A handler takes at most four steps from its begin to its end: with LockHoldersRun, *)
(* all that RequestsFinish asks of the scheduler is to let each request go on.       *)
THEOREM HandlersTakeFewSteps == Spec => [][HandlersAdvance]_vars
<1>1. ASSUME IInv, [Next]_vars
      PROVE  [HandlersAdvance]_vars
  <2>1. TypeOK /\ StepMatchesHandler
    BY <1>1 DEF IInv
  <2>2. ASSUME NEW p \in Procs, NEW step \in Steps, pc' = [pc EXCEPT ![p] = step],
               pc[p] = "idle" \/ StepsLeft(step) < StepsLeft(pc[p])
        PROVE  HandlersAdvance
    BY <2>1, <2>2 DEF TypeOK, HandlersAdvance
  <2>3. ASSUME NEW p \in Procs, EndTx(p), pc[p] # "idle"
        PROVE  HandlersAdvance
    <3>1. pc' = [pc EXCEPT ![p] = "idle"] /\ "idle" \in Steps
      BY <2>3 DEF EndTx, Goto, Steps
    <3>2. StepsLeft("idle") < StepsLeft(pc[p])
      BY <2>3 DEF StepsLeft
    <3> QED BY <2>2, <3>1, <3>2
  <2>4. ASSUME NEW p \in Procs,
               \/ \E w \in BOOLEAN, t \in Tokens : CreateSession(p, w, t)
               \/ DetectReuse(p) \/ (\E t \in Tokens : RotateToken(p, t))
               \/ RevokeRefresh(p) \/ RevokeAccess(p) \/ Rollback(p)
        PROVE  EndTx(p) /\ pc[p] # "idle"
    BY <2>4 DEF CreateSession, DetectReuse, RotateToken, RevokeRefresh, RevokeAccess, Rollback
  <2>5. ASSUME NEW p \in Procs, NEW o \in Operations, NEW t \in Tokens \cup {None}, Begin(p, o, t)
        PROVE  HandlersAdvance
    BY <2>2, <2>5 DEF Begin, Goto, Steps
  <2>6. ASSUME NEW p \in Procs, AuthenticatePublic(p) \/ AuthenticateConfidential(p)
        PROVE  HandlersAdvance
    <3>1. FirstStep(op[p]) \in Steps /\ StepsLeft(FirstStep(op[p])) < StepsLeft("authenticate")
      BY DEF FirstStep, Steps, StepsLeft
    <3> QED BY <2>2, <2>6, <3>1 DEF AuthenticatePublic, AuthenticateConfidential, Goto
  <2>7. ASSUME NEW p \in Procs, ConsumeCode(p)
        PROVE  HandlersAdvance
    <3>1. "create" \in Steps /\ StepsLeft("create") < StepsLeft("consume")
      BY DEF Steps, StepsLeft
    <3> QED BY <2>2, <2>7, <3>1 DEF ConsumeCode, Goto
  <2>8. ASSUME NEW p \in Procs, LockFamily(p) \/ ReadSession(p)
        PROVE  HandlersAdvance
    <3>1. /\ {"readSession", "revokeFamily", "rotate", "revokeSession"} \subseteq Steps
          /\ StepsLeft("readSession") < StepsLeft("lockFamily")
          /\ StepsLeft("revokeFamily") < StepsLeft("lockFamily")
          /\ StepsLeft("rotate") < StepsLeft("readSession")
          /\ StepsLeft("revokeSession") < StepsLeft("readSession")
      BY DEF Steps, StepsLeft
    <3> QED BY <2>2, <2>8, <3>1 DEF LockFamily, ReadSession, Goto
  <2>9. CodeExpires \/ Tick \/ UNCHANGED vars => HandlersAdvance
    BY DEF CodeExpires, Tick, vars, locals, HandlersAdvance
  <2> QED BY <1>1, <2>3, <2>4, <2>5, <2>6, <2>7, <2>8, <2>9, NextCases
<1> QED BY <1>1, Invariance, PTL DEF Spec
============================================================================
