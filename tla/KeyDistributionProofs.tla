----------------------- MODULE KeyDistributionProofs -----------------------
(***************************************************************************)
(* What holds of KeyDistribution for any keys, any callers and any times   *)
(* the cache configuration allows.                                         *)
(*                                                                         *)
(* expiresAt - TTL is when the set was loaded.  A caller that is handed    *)
(* the set by a flight began before that moment plus the cooldown, and the *)
(* set was listed at most RefreshTimeout before that moment; the two       *)
(* together bound how far the answer lies behind the rows.                 *)
(***************************************************************************)
EXTENDS KeyDistribution, TLAPS

Published(k) == rows[k].status \in {"active", "retiring"}

WithdrawnKey(k) == rows[k].status \in {"retired", "compromised"}

(* No time that was written down lies ahead of the clock. *)
ClockLeads ==
    /\ \A k \in Keys : rows[k].since <= now /\ rows[k].withdrawn <= now
    /\ cache.expiresAt <= now + TTL
    /\ flight.startedAt <= now
    /\ flight.leader <= now
    /\ \A c \in Callers : calls[c].start <= now

(* A row is stored after the clock read that dates it. *)
CreatedBeforeStored == \A k \in Keys : rows[k].created <= rows[k].since

(* The set on its way: a key withdrawn since it was listed was withdrawn   *)
(* after the load began, and a key it does not have is newer than that.    *)
SetUnderWay ==
    flight.phase = "served" =>
        /\ \A k \in flight.keys : WithdrawnKey(k) => flight.startedAt <= rows[k].withdrawn
        /\ \A k \in Keys \ flight.keys : Published(k) => flight.startedAt <= rows[k].since

(* The same of the set in the cache, RefreshTimeout later. *)
SetInCache ==
    /\ \A k \in cache.keys :
          WithdrawnKey(k) => cache.expiresAt <= rows[k].withdrawn + RefreshTimeout + TTL
    /\ \A k \in Keys \ cache.keys :
          Published(k) => cache.expiresAt <= rows[k].since + RefreshTimeout + TTL

LoadInTime == Loading => now <= flight.startedAt + RefreshTimeout

(* After a refresh that did not fail, the cooldown starts with the set. *)
CooldownOfSet ==
    ~cache.failed => \/ cache.nextRefreshAt = 0
                     \/ cache.nextRefreshAt + TTL = cache.expiresAt + RefreshCooldown

(* Began before the set was loaded. *)
Outdated(t) == t + TTL <= cache.expiresAt

(* Began before the cooldown of the set ended. *)
Covered(t) == t + TTL < cache.expiresAt + RefreshCooldown

OldGeneration ==
    /\ \A c \in Callers :
          calls[c].pc = "looked" /\ calls[c].seen # cache.generation => Outdated(calls[c].start)
    /\ flight.phase = "deciding" /\ flight.observed # cache.generation
          => Outdated(flight.leader)

AnswerCovered ==
    /\ flight.phase = "done" /\ ~flight.failed => Covered(flight.leader)
    /\ \A c \in Callers : calls[c].pc = "woken" => Covered(calls[c].start)

(* A failure lies RefreshCooldown after the set, and so does every load    *)
(* that may still fail.                                                    *)
FailuresApart ==
    /\ cache.expiresAt = 0 \/ cache.expiresAt + RefreshCooldown <= cache.nextRefreshAt + TTL
    /\ Loading => cache.expiresAt + RefreshCooldown <= flight.startedAt + TTL
    /\ cache.failed \/ (flight.phase = "done" /\ flight.failed)
          => cache.expiresAt + RefreshCooldown <= now + TTL

IInv ==
    /\ TypeOK
    /\ ClockLeads
    /\ CreatedBeforeStored
    /\ SetUnderWay
    /\ SetInCache
    /\ LoadInTime
    /\ CooldownOfSet
    /\ OldGeneration
    /\ AnswerCovered
    /\ FailuresApart

----------------------------------------------------------------------------
(* The steps of Next, each with all it leaves alone. *)

LEMMA StepCases ==
  ASSUME [Next]_vars
  PROVE  \/ UNCHANGED vars
         \/ \E k \in Keys : /\ \/ CreateSigningKey(k)
                               \/ StartRetirement(k)
                               \/ Retire(k)
                               \/ MarkCompromised(k)
                            /\ UNCHANGED <<cache, flight, calls>>
         \/ ServeJWKS
         \/ Tick
         \/ \E c \in Callers : /\ \/ \E k \in Keys : Lookup(c, k)
                                  \/ Join(c)
                                  \/ GiveUp(c)
                                  \/ Return(c)
                               /\ UNCHANGED rows
         \/ Decide /\ UNCHANGED rows
         \/ LoadSucceeds /\ UNCHANGED rows
         \/ LoadFails /\ UNCHANGED rows
         \/ Deliver /\ UNCHANGED rows
BY DEF Next, KeysNext

LEMMA IdleCallTyped == NoCall \in Call
<1>1. (CHOOSE k \in Keys : TRUE) \in Keys
  BY CacheConfigAssumption
<1>2. QED BY <1>1 DEF NoCall, Call

LEMMA InitialTypes == Init => TypeOK
BY IdleCallTyped DEF Init, KeysInit, CacheInit, TypeOK, KeysTypeOK, CacheTypeOK,
   Row, NoRow, KeyStatus, Cache, Flight, NoFlight

LEMMA DoneFields ==
  ASSUME TypeOK, NEW failure \in BOOLEAN
  PROVE  /\ Done(failure) \in Flight
         /\ Done(failure).phase = "done"
         /\ Done(failure).leader = flight.leader
         /\ Done(failure).failed = failure
         /\ Done(failure).startedAt = 0
BY DEF Done, NoFlight, Flight, TypeOK, CacheTypeOK

LEMMA WithdrawnRow ==
  ASSUME TypeOK, NEW k \in Keys, NEW status \in {"retired", "compromised"}, NEW at \in Nat,
         Withdrawn(k, status, at)
  PROVE  /\ rows' \in [Keys -> Row]
         /\ rows'[k].status = status
         /\ rows'[k].withdrawn = at
         /\ rows'[k].since = 0
         /\ \A j \in Keys \ {k} : rows'[j] = rows[j]
BY DEF Withdrawn, NoRow, Row, KeyStatus, TypeOK, KeysTypeOK

LEMMA TypePreserved ==
ASSUME TypeOK, [Next]_vars
PROVE  TypeOK'
<1> USE DEF TypeOK, KeysTypeOK, CacheTypeOK
<1>1. CASE UNCHANGED vars
  BY <1>1 DEF vars
<1>2. ASSUME NEW k \in Keys, CreateSigningKey(k), UNCHANGED <<cache, flight, calls>>
      PROVE  TypeOK'
  BY <1>2 DEF CreateSigningKey, Row, KeyStatus
<1>3. ASSUME NEW k \in Keys, StartRetirement(k), UNCHANGED <<cache, flight, calls>>
      PROVE  TypeOK'
  BY <1>3 DEF StartRetirement, Row, KeyStatus
<1>4. ASSUME NEW k \in Keys, Retire(k) \/ MarkCompromised(k),
             UNCHANGED <<cache, flight, calls>>
      PROVE  TypeOK'
  <2>1. PICK status \in {"retired", "compromised"}, at \in Nat : Withdrawn(k, status, at)
    BY <1>4 DEF Retire, MarkCompromised, Row
  <2>2. QED BY <1>4, <2>1, WithdrawnRow DEF Retire, MarkCompromised
<1>5. CASE ServeJWKS
  <2>1. PICK listed \in SUBSET Keys : LoadAnswers(listed) /\ UNCHANGED rows
    BY <1>5 DEF ServeJWKS, PublishedKeys
  <2>2. QED BY <2>1 DEF LoadAnswers, Flight
<1>6. CASE Tick
  BY <1>6 DEF Tick
<1>7. ASSUME NEW c \in Callers, NEW k \in Keys, Lookup(c, k), UNCHANGED rows
      PROVE  TypeOK'
  BY <1>7 DEF Lookup, NoCall, Call, Cache
<1>8. ASSUME NEW c \in Callers, Join(c), UNCHANGED rows PROVE TypeOK'
  BY <1>8 DEF Join, NoFlight, Call, Flight
<1>9. ASSUME NEW c \in Callers, GiveUp(c) \/ Return(c), UNCHANGED rows PROVE TypeOK'
  BY <1>9, IdleCallTyped DEF GiveUp, Return
<1>10. CASE Decide /\ UNCHANGED rows
  <2>1. cache.failed \in BOOLEAN
    BY DEF Cache
  <2>2. CASE \E failure \in BOOLEAN : flight' = Done(failure)
    BY <1>10, <2>2, DoneFields DEF Decide
  <2>3. CASE flight' = [flight EXCEPT !.phase = "sent", !.observed = 0, !.startedAt = now]
    <3>1. flight' \in Flight
      BY <2>3 DEF Flight
    <3>2. QED BY <1>10, <3>1 DEF Decide
  <2>4. \/ \E failure \in BOOLEAN : flight' = Done(failure)
        \/ flight' = [flight EXCEPT !.phase = "sent", !.observed = 0, !.startedAt = now]
    <3>1. Decide
      BY <1>10
    <3>2. QED BY ONLY <3>1, <2>1 DEF Decide
  <2>5. QED BY <2>2, <2>3, <2>4
<1>11. CASE LoadSucceeds /\ UNCHANGED rows
  <2>1. flight' \in Flight
    BY <1>11, DoneFields DEF LoadSucceeds
  <2>2. cache' \in Cache
    BY <1>11, CacheConfigAssumption DEF LoadSucceeds, Flight, Cache
  <2>3. QED BY <1>11, <2>1, <2>2 DEF LoadSucceeds
<1>12. CASE LoadFails /\ UNCHANGED rows
  <2>1. flight' \in Flight
    BY <1>12, DoneFields DEF LoadFails
  <2>2. now + RefreshCooldown \in Nat
    BY CacheConfigAssumption
  <2>2a. cache' = [cache EXCEPT !.failed = TRUE, !.nextRefreshAt = now + RefreshCooldown]
    BY <1>12 DEF LoadFails
  <2>2b. cache' \in Cache
    BY <2>2, <2>2a DEF Cache
  <2>3. QED BY <1>12, <2>1, <2>2b DEF LoadFails
<1>13. CASE Deliver /\ UNCHANGED rows
  <2>1. flight' \in Flight
    BY <1>13 DEF Deliver, NoFlight, Flight
  <2>2. \A t \in Nat : Earlier(flight.leader, t) \in Nat
    BY DEF Earlier, Flight
  <2>3. calls' \in [Callers -> Call]
    BY <1>13, <2>2, IdleCallTyped DEF Deliver, Call
  <2>4. QED BY <1>13, <2>1, <2>3 DEF Deliver
<1>14. QED
  BY <1>1, <1>2, <1>3, <1>4, <1>5, <1>6, <1>7, <1>8, <1>9, <1>10, <1>11, <1>12, <1>13,
     StepCases

----------------------------------------------------------------------------
(* What a step does to the rows, the cache and the clock. *)

(* A key that is listed after a step was listed before it or is new, and a *)
(* key that is withdrawn after it was withdrawn before or is withdrawn now. *)
LEMMA RowSteps ==
  ASSUME TypeOK, [Next]_vars, NEW j \in Keys
  PROVE  /\ Published(j)' => \/ Published(j) /\ rows'[j].since = rows[j].since
                             \/ rows'[j].since = now /\ now' = now
         /\ WithdrawnKey(j)' => \/ WithdrawnKey(j) /\ rows'[j].withdrawn = rows[j].withdrawn
                                \/ rows'[j].withdrawn = now /\ now' = now
         /\ rows'[j].since \in {rows[j].since, 0, now}
         /\ rows'[j].withdrawn \in {rows[j].withdrawn, 0, now}
<1> USE DEF TypeOK, KeysTypeOK
<1>1. ASSUME NEW k \in Keys, CreateSigningKey(k)
      PROVE  /\ now' = now
             /\ \/ rows'[j] = rows[j]
                \/ /\ rows'[j].status = "active"
                   /\ rows'[j].since = now
                   /\ rows'[j].withdrawn = 0
  <2>1. PICK at \in 0 .. now :
           rows' = [rows EXCEPT ![k] = [status |-> "active", created |-> at, changed |-> at,
                                        withdrawn |-> 0, since |-> now]]
    BY <1>1 DEF CreateSigningKey
  <2>2. CASE j = k
    BY <1>1, <2>1, <2>2 DEF CreateSigningKey
  <2>3. CASE j # k
    BY <1>1, <2>1, <2>3 DEF CreateSigningKey
  <2>4. QED BY <2>2, <2>3
<1>2. ASSUME NEW k \in Keys, StartRetirement(k)
      PROVE  \/ rows'[j] = rows[j]
             \/ /\ rows[j].status = "active"
                /\ rows'[j].status = "retiring"
                /\ rows'[j].since = rows[j].since
                /\ rows'[j].withdrawn = rows[j].withdrawn
  <2>1. rows[k].status = "active" /\ rows[k] \in Row
    BY <1>2 DEF StartRetirement
  <2>2. rows' = [rows EXCEPT ![k] = [rows[k] EXCEPT !.status = "retiring", !.changed = now]]
    BY <1>2 DEF StartRetirement
  <2>3. CASE j = k
    BY <2>1, <2>2, <2>3 DEF Row
  <2>4. CASE j # k
    BY <2>2, <2>4
  <2>5. QED BY <2>3, <2>4
<1>3. ASSUME NEW k \in Keys, Retire(k) \/ MarkCompromised(k)
      PROVE  /\ now' = now
             /\ \/ rows'[j] = rows[j]
                \/ /\ rows'[j].status \in {"retired", "compromised"}
                   /\ rows'[j].since = 0
                   /\ \/ rows'[j].withdrawn = now
                      \/ /\ rows[j].status = "retired"
                         /\ rows'[j].withdrawn = rows[j].withdrawn
  <2>1. PICK status \in {"retired", "compromised"}, at \in {now, rows[k].withdrawn} :
           /\ Withdrawn(k, status, at)
           /\ at = now \/ rows[k].status = "retired"
    BY <1>3 DEF Retire, MarkCompromised
  <2>2. at \in Nat
    BY <2>1 DEF Row
  <2>3. now' = now
    BY <1>3 DEF Retire, MarkCompromised
  <2>4. /\ rows'[k].status = status
        /\ rows'[k].withdrawn = at
        /\ rows'[k].since = 0
        /\ \A i \in Keys \ {k} : rows'[i] = rows[i]
    BY <2>1, <2>2, WithdrawnRow
  <2>5. CASE j = k
    BY <2>1, <2>3, <2>4, <2>5
  <2>6. CASE j # k
    BY <2>3, <2>4, <2>6
  <2>7. QED BY <2>5, <2>6
<1>4. CASE UNCHANGED rows
  BY <1>4 DEF Published, WithdrawnKey
<1>5. \/ UNCHANGED rows
      \/ \E k \in Keys : CreateSigningKey(k) \/ StartRetirement(k) \/ Retire(k)
                            \/ MarkCompromised(k)
  BY StepCases DEF ServeJWKS, Tick, vars
<1>6. QED
  BY <1>1, <1>2, <1>3, <1>4, <1>5 DEF Published, WithdrawnKey

(* Only a load that ends writes the cache. *)
LEMMA CacheSteps ==
  ASSUME [Next]_vars
  PROVE  \/ cache' = cache
         \/ LoadSucceeds /\ UNCHANGED rows
         \/ LoadFails /\ UNCHANGED rows
BY StepCases DEF ServeJWKS, LoadAnswers, Tick, Lookup, Join, GiveUp, Return, Decide, Deliver, vars

LEMMA FailureKeepsSet ==
  ASSUME TypeOK, LoadFails
  PROVE  /\ cache'.keys = cache.keys
         /\ cache'.expiresAt = cache.expiresAt
         /\ cache'.generation = cache.generation
         /\ cache'.failed = TRUE
BY DEF LoadFails, TypeOK, CacheTypeOK, Cache

LEMMA ClockSteps ==
  ASSUME [Next]_vars
  PROVE  now' = now \/ Tick
BY StepCases DEF CreateSigningKey, StartRetirement, Retire, MarkCompromised, ServeJWKS,
   LoadAnswers, Lookup, Join, GiveUp, Return, Decide, LoadSucceeds, LoadFails, Deliver, vars

(* Every time in the state is a natural number. *)
LEMMA Times ==
  ASSUME TypeOK
  PROVE  /\ now \in Nat
         /\ \A k \in Keys : rows[k].since \in Nat /\ rows[k].withdrawn \in Nat
         /\ cache.expiresAt \in Nat /\ cache.nextRefreshAt \in Nat
         /\ cache.failed \in BOOLEAN
         /\ cache.keys \subseteq Keys
         /\ flight.leader \in Nat /\ flight.startedAt \in Nat
         /\ flight.keys \subseteq Keys
         /\ \A c \in Callers : calls[c].start \in Nat
BY DEF TypeOK, KeysTypeOK, CacheTypeOK, Row, Cache, Flight, Call

----------------------------------------------------------------------------
(* Each part of the invariant survives every step. *)

LEMMA ClockLeadsPreserved ==
  ASSUME TypeOK, ClockLeads, [Next]_vars
  PROVE  ClockLeads'
<1> USE Times, CacheConfigAssumption
<1>0. now' \in Nat /\ now <= now'
  BY ClockSteps DEF Tick
<1>1. \A k \in Keys : rows'[k].since <= now' /\ rows'[k].withdrawn <= now'
  BY <1>0, RowSteps DEF ClockLeads
<1>2. cache'.expiresAt <= now' + TTL
  <2>1. CASE cache' = cache
    BY <1>0, <2>1 DEF ClockLeads
  <2>2. CASE LoadSucceeds
    BY <2>2 DEF LoadSucceeds
  <2>3. CASE LoadFails
    BY <1>0, <2>3, FailureKeepsSet DEF ClockLeads
  <2>4. QED BY <2>1, <2>2, <2>3, CacheSteps
<1>3. /\ flight'.startedAt \in {flight.startedAt, 0, now}
      /\ \/ flight'.leader \in {flight.leader, 0}
         \/ \E c \in Callers : flight'.leader = calls[c].start
  <2>1. ASSUME NEW c \in Callers, Join(c)
        PROVE  \/ flight' = flight
               \/ flight'.startedAt = 0 /\ flight'.leader = calls[c].start
    BY <2>1 DEF Join, NoFlight
  <2>2. CASE Decide
    <3>1. CASE \E failure \in BOOLEAN : flight' = Done(failure)
      BY <3>1, DoneFields
    <3>2. CASE flight' = [flight EXCEPT !.phase = "sent", !.observed = 0, !.startedAt = now]
      BY <3>2 DEF TypeOK, CacheTypeOK, Flight
    <3>3. QED BY <2>2, <3>1, <3>2 DEF Decide
  <2>3. CASE LoadSucceeds \/ LoadFails
    BY <2>3, DoneFields DEF LoadSucceeds, LoadFails
  <2>4. CASE Deliver
    BY <2>4 DEF Deliver, NoFlight
  <2>5. CASE ServeJWKS
    BY <2>5 DEF ServeJWKS, LoadAnswers, TypeOK, CacheTypeOK, Flight
  <2>6. CASE flight' = flight
    BY <2>6
  <2>7. QED
    BY <2>1, <2>2, <2>3, <2>4, <2>5, <2>6, StepCases
       DEF Tick, Lookup, GiveUp, Return, vars
<1>4. \A c \in Callers : \/ calls'[c].start \in {calls[c].start, 0, now}
                         \/ calls'[c].start = flight.leader
  <2> SUFFICES ASSUME NEW d \in Callers
               PROVE  \/ calls'[d].start \in {calls[d].start, 0, now}
                      \/ calls'[d].start = flight.leader
    OBVIOUS
  <2> USE DEF TypeOK, CacheTypeOK
  <2>1. ASSUME NEW c \in Callers, NEW k \in Keys, Lookup(c, k)
        PROVE  calls'[d] = calls[d] \/ calls'[d].start = now
    BY <2>1 DEF Lookup, NoCall
  <2>2. ASSUME NEW c \in Callers, Join(c)
        PROVE  calls'[d].start = calls[d].start
    BY <2>2 DEF Join, Call
  <2>3. ASSUME NEW c \in Callers, GiveUp(c) \/ Return(c)
        PROVE  calls'[d] = calls[d] \/ calls'[d].start = 0
    BY <2>3 DEF GiveUp, Return, NoCall
  <2>4. CASE Deliver
    <3>1. calls'[d] \in {calls[d], NoCall, [calls[d] EXCEPT !.pc = "woken",
                                               !.start = Earlier(flight.leader, @)]}
      BY <2>4 DEF Deliver
    <3>2. NoCall.start = 0
      BY DEF NoCall
    <3>3. [calls[d] EXCEPT !.pc = "woken", !.start = Earlier(flight.leader, @)].start
             \in {flight.leader, calls[d].start}
      BY DEF Earlier, Call
    <3>4. QED BY <3>1, <3>2, <3>3
  <2>5. CASE calls' = calls
    BY <2>5
  <2>6. QED
    BY <2>1, <2>2, <2>3, <2>4, <2>5, StepCases
       DEF ServeJWKS, LoadAnswers, Tick, Decide, LoadSucceeds, LoadFails, vars
<1>5. QED BY <1>0, <1>1, <1>2, <1>3, <1>4 DEF ClockLeads

LEMMA CreatedBeforeStoredPreserved ==
  ASSUME TypeOK, CreatedBeforeStored, [Next]_vars
  PROVE  CreatedBeforeStored'
<1> SUFFICES ASSUME NEW j \in Keys PROVE rows'[j].created <= rows'[j].since
  BY DEF CreatedBeforeStored
<1> USE DEF TypeOK, KeysTypeOK
<1>1. rows[j] \in Row /\ rows[j].created <= rows[j].since
  BY DEF CreatedBeforeStored
<1>2. ASSUME NEW k \in Keys, CreateSigningKey(k)
      PROVE  rows'[j].created <= rows'[j].since
  <2>1. PICK at \in 0 .. now :
           rows' = [rows EXCEPT ![k] = [status |-> "active", created |-> at, changed |-> at,
                                        withdrawn |-> 0, since |-> now]]
    BY <1>2 DEF CreateSigningKey
  <2>2. CASE j = k
    BY <2>1, <2>2
  <2>3. CASE j # k
    BY <1>1, <2>1, <2>3
  <2>4. QED BY <2>2, <2>3
<1>3. ASSUME NEW k \in Keys, StartRetirement(k)
      PROVE  rows'[j].created <= rows'[j].since
  <2>1. rows' = [rows EXCEPT ![k] = [rows[k] EXCEPT !.status = "retiring", !.changed = now]]
    BY <1>3 DEF StartRetirement
  <2>2. CASE j = k
    BY <1>1, <2>1, <2>2 DEF Row
  <2>3. CASE j # k
    BY <1>1, <2>1, <2>3
  <2>4. QED BY <2>2, <2>3
<1>4. ASSUME NEW k \in Keys, Retire(k) \/ MarkCompromised(k)
      PROVE  rows'[j].created <= rows'[j].since
  <2>1. PICK status, at :
           rows' = [rows EXCEPT ![k] = [NoRow EXCEPT !.status = status, !.withdrawn = at]]
    BY <1>4 DEF Retire, MarkCompromised, Withdrawn
  <2>2. CASE j = k
    BY <2>1, <2>2 DEF NoRow
  <2>3. CASE j # k
    BY <1>1, <2>1, <2>3
  <2>4. QED BY <2>2, <2>3
<1>5. CASE UNCHANGED rows
  BY <1>1, <1>5
<1>6. QED
  BY <1>2, <1>3, <1>4, <1>5, StepCases DEF ServeJWKS, Tick, vars

(* How a flight gets to each of its phases. *)
LEMMA FlightSteps ==
  ASSUME TypeOK, [Next]_vars
  PROVE  \/ flight' = flight
         \/ /\ flight'.phase = "deciding"
            /\ cache' = cache
            /\ \E c \in Callers : /\ calls[c].pc = "looked"
                                  /\ flight'.leader = calls[c].start
                                  /\ flight'.observed = calls[c].seen
         \/ Decide /\ flight'.phase = "done"
         \/ Decide /\ flight'.phase = "sent" /\ flight'.startedAt = now
         \/ ServeJWKS /\ flight'.phase = "served" /\ flight'.startedAt = flight.startedAt
         \/ LoadSucceeds /\ flight'.phase = "done" /\ flight'.leader = flight.leader
         \/ LoadFails /\ flight'.phase = "done" /\ flight'.failed = TRUE
         \/ Deliver /\ flight'.phase = "none"
<1>1. ASSUME NEW c \in Callers, Join(c), flight' # flight
      PROVE  /\ flight'.phase = "deciding"
             /\ calls[c].pc = "looked"
             /\ flight'.leader = calls[c].start
             /\ flight'.observed = calls[c].seen
             /\ cache' = cache
  BY <1>1 DEF Join, NoFlight
<1>2. CASE Decide
  <2>1. CASE \E failure \in BOOLEAN : flight' = Done(failure)
    BY <1>2, <2>1, DoneFields
  <2>2. CASE flight' = [flight EXCEPT !.phase = "sent", !.observed = 0, !.startedAt = now]
    BY <1>2, <2>2 DEF TypeOK, CacheTypeOK, Flight
  <2>3. QED BY <1>2, <2>1, <2>2, Times DEF Decide
<1>3. CASE ServeJWKS
  BY <1>3 DEF ServeJWKS, LoadAnswers, TypeOK, CacheTypeOK, Flight
<1>4. CASE LoadSucceeds
  BY <1>4, DoneFields DEF LoadSucceeds
<1>5. CASE LoadFails
  BY <1>5, DoneFields DEF LoadFails
<1>6. CASE Deliver
  BY <1>6 DEF Deliver, NoFlight
<1>7. QED
  BY <1>1, <1>2, <1>3, <1>4, <1>5, <1>6, StepCases DEF Tick, Lookup, GiveUp, Return, vars

LEMMA SetUnderWayPreserved ==
  ASSUME IInv, [Next]_vars
  PROVE  SetUnderWay'
<1> USE DEF IInv
<1>1. CASE flight' = flight
  <2> SUFFICES ASSUME flight.phase = "served" PROVE SetUnderWay'
    BY <1>1 DEF SetUnderWay
  <2>1. ASSUME NEW k \in flight.keys, WithdrawnKey(k)'
        PROVE  flight.startedAt <= rows'[k].withdrawn
    BY <2>1, RowSteps, Times DEF SetUnderWay, ClockLeads
  <2>2. ASSUME NEW k \in Keys \ flight.keys, Published(k)'
        PROVE  flight.startedAt <= rows'[k].since
    BY <2>2, RowSteps, Times DEF SetUnderWay, ClockLeads
  <2>3. QED BY <1>1, <2>1, <2>2 DEF SetUnderWay
<1>2. CASE ServeJWKS
  <2>1. PICK readAt \in flight.startedAt .. now :
           LoadAnswers({k \in PublishedKeys : rows[k].created <= readAt}) /\ UNCHANGED rows
    BY <1>2 DEF ServeJWKS
  <2>2. /\ flight'.keys = {k \in PublishedKeys : rows[k].created <= readAt}
        /\ flight'.startedAt = flight.startedAt
    BY <2>1 DEF LoadAnswers, TypeOK, CacheTypeOK, Flight
  <2>3. ASSUME NEW k \in flight'.keys PROVE ~WithdrawnKey(k)'
    BY <2>1, <2>2 DEF PublishedKeys, WithdrawnKey
  <2>4. ASSUME NEW k \in Keys \ flight'.keys, Published(k)'
        PROVE  flight.startedAt <= rows'[k].since
    <3>1. rows[k].created \in Nat /\ rows[k].since \in Nat
      BY DEF TypeOK, KeysTypeOK, Row
    <3>2. ~(rows[k].created <= readAt)
      BY <2>1, <2>2, <2>4 DEF PublishedKeys, Published
    <3>3. rows[k].created <= rows[k].since
      BY DEF CreatedBeforeStored
    <3>4. QED BY <2>1, <3>1, <3>2, <3>3, Times
  <2>5. QED BY <2>2, <2>3, <2>4 DEF SetUnderWay
<1>3. CASE flight'.phase # "served"
  BY <1>3 DEF SetUnderWay
<1>4. QED BY <1>1, <1>2, <1>3, FlightSteps

LEMMA SetInCachePreserved ==
  ASSUME IInv, [Next]_vars
  PROVE  SetInCache'
<1> USE Times, CacheConfigAssumption DEF IInv
<1>1. CASE cache'.keys = cache.keys /\ cache'.expiresAt = cache.expiresAt
  <2>1. ASSUME NEW k \in cache.keys, WithdrawnKey(k)'
        PROVE  cache.expiresAt <= rows'[k].withdrawn + RefreshTimeout + TTL
    BY <2>1, RowSteps DEF SetInCache, ClockLeads
  <2>2. ASSUME NEW k \in Keys \ cache.keys, Published(k)'
        PROVE  cache.expiresAt <= rows'[k].since + RefreshTimeout + TTL
    BY <2>2, RowSteps DEF SetInCache, ClockLeads
  <2>3. QED BY <1>1, <2>1, <2>2 DEF SetInCache
<1>2. CASE LoadSucceeds /\ UNCHANGED rows
  <2>1. /\ cache'.keys = flight.keys
        /\ cache'.expiresAt = now + TTL
        /\ now <= flight.startedAt + RefreshTimeout
        /\ flight.phase = "served"
    BY <1>2 DEF LoadSucceeds, LoadInTime, Loading
  <2>2. ASSUME NEW k \in flight.keys, WithdrawnKey(k)
        PROVE  now + TTL <= rows[k].withdrawn + RefreshTimeout + TTL
    BY <2>1, <2>2 DEF SetUnderWay
  <2>3. ASSUME NEW k \in Keys \ flight.keys, Published(k)
        PROVE  now + TTL <= rows[k].since + RefreshTimeout + TTL
    BY <2>1, <2>3 DEF SetUnderWay
  <2>4. QED BY <1>2, <2>1, <2>2, <2>3 DEF SetInCache, WithdrawnKey, Published
<1>3. CASE LoadFails
  BY <1>1, <1>3, FailureKeepsSet
<1>4. QED BY <1>1, <1>2, <1>3, CacheSteps

LEMMA LoadInTimePreserved ==
  ASSUME IInv, [Next]_vars
  PROVE  LoadInTime'
<1> USE Times, CacheConfigAssumption DEF IInv, LoadInTime, Loading
<1>1. CASE flight' = flight
  BY <1>1, ClockSteps DEF Tick, TickAllowed, Loading
<1>2. CASE flight'.phase = "sent" /\ flight'.startedAt = now /\ Decide
  BY <1>2 DEF Decide
<1>3. CASE ServeJWKS /\ flight'.startedAt = flight.startedAt
  BY <1>3 DEF ServeJWKS, LoadAnswers
<1>4. CASE ~Loading'
  BY <1>4
<1>5. QED BY <1>1, <1>2, <1>3, <1>4, FlightSteps

LEMMA CooldownOfSetPreserved ==
  ASSUME IInv, [Next]_vars
  PROVE  CooldownOfSet'
<1> USE DEF IInv, CooldownOfSet
<1>1. CASE cache' = cache
  BY <1>1
<1>2. CASE LoadSucceeds
  BY <1>2, Times, CacheConfigAssumption DEF LoadSucceeds
<1>3. CASE LoadFails
  BY <1>3, FailureKeepsSet
<1>4. QED BY <1>1, <1>2, <1>3, CacheSteps

(* How a call gets to each of its steps. *)
LEMMA CallSteps ==
  ASSUME TypeOK, [Next]_vars, NEW d \in Callers
  PROVE  \/ calls'[d] = calls[d] /\ (calls[d].pc = "waiting" => ~Deliver)
         \/ calls'[d].pc = "idle"
         \/ /\ calls'[d].pc = "looked"
            /\ calls'[d].seen = cache.generation
            /\ cache' = cache
         \/ /\ calls'[d].pc = "waiting"
            /\ flight'.phase # "none"
         \/ /\ Deliver
            /\ ~flight.failed
            /\ calls'[d].pc = "woken"
            /\ calls'[d].start = Earlier(flight.leader, calls[d].start)
<1> USE DEF TypeOK, CacheTypeOK
<1>1. ASSUME NEW c \in Callers, NEW k \in Keys, Lookup(c, k)
      PROVE  \/ calls'[d] = calls[d]
             \/ calls'[d].pc = "looked" /\ calls'[d].seen = cache.generation /\ cache' = cache
  BY <1>1 DEF Lookup, NoCall
<1>2. ASSUME NEW c \in Callers, Join(c)
      PROVE  \/ calls'[d] = calls[d]
             \/ calls'[d].pc = "waiting" /\ flight'.phase # "none"
  BY <1>2 DEF Join, Call, NoFlight
<1>3. ASSUME NEW c \in Callers, GiveUp(c) \/ Return(c)
      PROVE  calls'[d] = calls[d] \/ calls'[d].pc = "idle"
  BY <1>3 DEF GiveUp, Return, NoCall
<1>4. CASE Deliver
  <2>1. CASE calls[d].pc # "waiting"
    BY <1>4, <2>1 DEF Deliver
  <2>2. CASE calls[d].pc = "waiting" /\ flight.failed
    BY <1>4, <2>2 DEF Deliver, NoCall
  <2>3. CASE calls[d].pc = "waiting" /\ ~flight.failed
    <3>1. calls'[d] = [calls[d] EXCEPT !.pc = "woken",
                                       !.start = Earlier(flight.leader, @)]
      BY <1>4, <2>3 DEF Deliver
    <3>2. QED BY <1>4, <2>3, <3>1 DEF Call
  <2>4. QED BY <2>1, <2>2, <2>3
<1>5. CASE calls' = calls /\ ~Deliver
  BY <1>5
<1>6. \/ Deliver
      \/ calls' = calls
      \/ \E c \in Callers : (\E k \in Keys : Lookup(c, k)) \/ Join(c) \/ GiveUp(c) \/ Return(c)
  BY StepCases DEF ServeJWKS, LoadAnswers, Tick, Decide, LoadSucceeds, LoadFails, vars
<1>7. QED BY <1>1, <1>2, <1>3, <1>4, <1>5, <1>6

LEMMA OldGenerationPreserved ==
  ASSUME IInv, [Next]_vars
  PROVE  OldGeneration'
<1> USE Times, CacheConfigAssumption DEF IInv, Outdated
<1>1. \A t \in Nat : Outdated(t) => Outdated(t)'
  <2>1. CASE cache' = cache
    BY <2>1
  <2>2. CASE LoadSucceeds
    BY <2>2 DEF LoadSucceeds, ClockLeads
  <2>3. CASE LoadFails
    BY <2>3, FailureKeepsSet
  <2>4. QED BY <2>1, <2>2, <2>3, CacheSteps
<1>2. \/ cache'.generation = cache.generation
      \/ \A t \in Nat : t <= now => Outdated(t)'
  <2>1. CASE LoadSucceeds
    BY <2>1 DEF LoadSucceeds
  <2>2. CASE LoadFails
    BY <2>2, FailureKeepsSet
  <2>3. QED BY <2>1, <2>2, CacheSteps
<1>3. ASSUME NEW d \in Callers, calls'[d].pc = "looked", calls'[d].seen # cache'.generation
      PROVE  Outdated(calls[d].start)'
  <2>1. calls'[d] = calls[d]
    BY <1>3, CallSteps
  <2>2. CASE cache'.generation = cache.generation
    BY <1>1, <1>3, <2>1, <2>2 DEF OldGeneration
  <2>3. CASE \A t \in Nat : t <= now => Outdated(t)'
    BY <2>1, <2>3 DEF ClockLeads
  <2>4. QED BY <1>2, <2>2, <2>3
<1>4. ASSUME flight'.phase = "deciding", flight'.observed # cache'.generation
      PROVE  Outdated(flight.leader)'
  <2>1. CASE flight' = flight
    <3>1. CASE cache'.generation = cache.generation
      BY <1>1, <1>4, <2>1, <3>1 DEF OldGeneration
    <3>2. CASE \A t \in Nat : t <= now => Outdated(t)'
      BY <2>1, <3>2 DEF ClockLeads
    <3>3. QED BY <1>2, <3>1, <3>2
  <2>2. CASE \E c \in Callers : /\ calls[c].pc = "looked"
                                /\ flight'.leader = calls[c].start
                                /\ flight'.observed = calls[c].seen
                                /\ cache' = cache
    BY <1>1, <1>4, <2>2 DEF OldGeneration
  <2>3. QED BY <1>4, <2>1, <2>2, FlightSteps
<1>5. QED BY <1>3, <1>4 DEF OldGeneration

LEMMA AnswerCoveredPreserved ==
  ASSUME IInv, [Next]_vars
  PROVE  AnswerCovered'
<1> USE Times, CacheConfigAssumption DEF IInv, Covered
<1>1. \A t \in Nat : Covered(t) => Covered(t)'
  <2>1. CASE cache' = cache
    BY <2>1
  <2>2. CASE LoadSucceeds
    BY <2>2 DEF LoadSucceeds, ClockLeads
  <2>3. CASE LoadFails
    BY <2>3, FailureKeepsSet
  <2>4. QED BY <2>1, <2>2, <2>3, CacheSteps
<1>2. ASSUME flight'.phase = "done", ~flight'.failed
      PROVE  Covered(flight.leader)'
  <2>1. CASE flight' = flight
    BY <1>1, <1>2, <2>1 DEF AnswerCovered
  <2>2. CASE Decide
    <3>1. CASE cache.generation # flight.observed
      <4>1. flight' = Done(FALSE) /\ cache' = cache /\ flight.phase = "deciding"
        BY <2>2, <3>1 DEF Decide
      <4>2. flight'.leader = flight.leader
        BY <4>1, DoneFields
      <4>3. Outdated(flight.leader)
        BY <3>1, <4>1 DEF OldGeneration
      <4>4. Covered(flight.leader)
        BY <4>3 DEF Outdated
      <4>5. QED BY <1>1, <4>2, <4>4
    <3>2. CASE cache.generation = flight.observed /\ now < cache.nextRefreshAt
      <4>1. flight' = Done(cache.failed) /\ cache' = cache
        BY <2>2, <3>2 DEF Decide
      <4>2. flight'.leader = flight.leader /\ flight'.failed = cache.failed
        BY <4>1, DoneFields
      <4>3. cache.nextRefreshAt + TTL = cache.expiresAt + RefreshCooldown
        BY <1>2, <3>2, <4>2 DEF CooldownOfSet
      <4>4. QED BY <3>2, <4>1, <4>2, <4>3 DEF ClockLeads
    <3>3. CASE cache.generation = flight.observed /\ ~(now < cache.nextRefreshAt)
      <4>1. flight' = [flight EXCEPT !.phase = "sent", !.observed = 0, !.startedAt = now]
        BY <2>2, <3>3 DEF Decide
      <4>2. QED BY <1>2, <4>1 DEF TypeOK, CacheTypeOK, Flight
    <3>4. QED BY <3>1, <3>2, <3>3
  <2>3. CASE LoadSucceeds /\ flight'.leader = flight.leader
    <3>1. cache'.expiresAt = now + TTL
      BY <2>3 DEF LoadSucceeds
    <3>2. flight.leader <= now
      BY DEF ClockLeads
    <3>3. flight.leader + TTL < now + TTL + RefreshCooldown
      BY <3>2
    <3>4. QED BY <2>3, <3>1, <3>3
  <2>4. QED BY <1>2, <2>1, <2>2, <2>3, FlightSteps
<1>3. ASSUME NEW d \in Callers, calls'[d].pc = "woken"
      PROVE  Covered(calls[d].start)'
  <2>1. CASE calls'[d] = calls[d]
    BY <1>1, <1>3, <2>1 DEF AnswerCovered
  <2>2. CASE /\ Deliver
             /\ ~flight.failed
             /\ calls'[d].start = Earlier(flight.leader, calls[d].start)
    <3>1. Covered(flight.leader) /\ cache' = cache
      BY <2>2 DEF Deliver, AnswerCovered
    <3>2. Earlier(flight.leader, calls[d].start) \in Nat
      BY DEF Earlier
    <3>3. Earlier(flight.leader, calls[d].start) <= flight.leader
      BY DEF Earlier
    <3>4. QED BY <2>2, <3>1, <3>2, <3>3
  <2>3. QED BY <1>3, <2>1, <2>2, CallSteps
<1>4. QED BY <1>2, <1>3 DEF AnswerCovered

LEMMA FailuresApartPreserved ==
  ASSUME IInv, [Next]_vars
  PROVE  FailuresApart'
<1> USE Times, CacheConfigAssumption DEF IInv
<1>0. TypeOK' /\ TypeOK
  BY TypePreserved
<1>1. \/ cache'.expiresAt = 0
      \/ cache'.expiresAt + RefreshCooldown <= cache'.nextRefreshAt + TTL
  <2>1. CASE LoadSucceeds
    BY <2>1 DEF LoadSucceeds
  <2>2. CASE LoadFails
    <3>1. cache'.nextRefreshAt = now + RefreshCooldown
      BY <2>2 DEF LoadFails, TypeOK, CacheTypeOK, Cache
    <3>2. QED BY <2>2, <3>1, FailureKeepsSet DEF ClockLeads
  <2>3. QED BY <2>1, <2>2, CacheSteps DEF FailuresApart
<1>2. ASSUME Loading'
      PROVE  cache'.expiresAt + RefreshCooldown <= flight'.startedAt + TTL
  <2>1. CASE Loading /\ flight'.startedAt = flight.startedAt /\ cache' = cache
    BY <2>1 DEF FailuresApart
  <2>2. CASE Decide /\ flight'.startedAt = now
    <3>1. now >= cache.nextRefreshAt /\ cache' = cache
      <4>1. ~(\E failure \in BOOLEAN : flight' = Done(failure))
        BY <1>2, DoneFields DEF Loading
      <4>2. cache.failed \in BOOLEAN /\ FALSE \in BOOLEAN
        BY DEF TypeOK, CacheTypeOK, Cache
      <4>3. flight' # Done(FALSE) /\ flight' # Done(cache.failed)
        BY <4>1, <4>2
      <4>4. ~(now < cache.nextRefreshAt) /\ cache' = cache
        BY <2>2, <4>3, Zenon DEF Decide
      <4>5. QED BY <4>4
    <3>2. QED BY <2>2, <3>1 DEF FailuresApart
  <2>3. CASE flight' = flight
    <3>1. cache' = cache
      BY <1>2, <2>3, CacheSteps, DoneFields DEF LoadSucceeds, LoadFails, Loading
    <3>2. QED BY <1>2, <2>1, <2>3, <3>1 DEF Loading
  <2>4. CASE ServeJWKS /\ flight'.startedAt = flight.startedAt
    BY <2>1, <2>4 DEF ServeJWKS, LoadAnswers, Loading
  <2>5. QED BY <1>2, <2>2, <2>3, <2>4, FlightSteps DEF Loading
<1>3. ASSUME cache'.failed \/ (flight'.phase = "done" /\ flight'.failed)
      PROVE  cache'.expiresAt + RefreshCooldown <= now' + TTL
  <2>1. now <= now' /\ now' \in Nat
    BY ClockSteps DEF Tick
  <2>2. CASE LoadFails
    BY <2>1, <2>2, FailureKeepsSet DEF LoadFails, FailuresApart, ClockLeads
  <2>3. CASE LoadSucceeds
    <3>1. cache'.failed = FALSE /\ flight' = Done(FALSE)
      BY <2>3 DEF LoadSucceeds
    <3>2. QED BY <1>3, <3>1, DoneFields
  <2>4. CASE cache' = cache /\ cache.failed
    BY <1>0, <2>1, <2>4 DEF FailuresApart
  <2>5. CASE cache' = cache /\ flight'.phase = "done" /\ flight'.failed
    <3>1. CASE flight' = flight
      BY <1>0, <2>1, <2>5, <3>1 DEF FailuresApart
    <3>2. CASE Decide
      <4>1. ASSUME flight' = [flight EXCEPT !.phase = "sent", !.observed = 0, !.startedAt = now]
            PROVE  FALSE
        <5>1. flight'.phase = "sent"
          BY <4>1 DEF TypeOK, CacheTypeOK, Flight
        <5>2. QED BY <2>5, <5>1
      <4>2. flight' = Done(FALSE) \/ flight' = Done(cache.failed)
        BY <3>2, <4>1 DEF Decide
      <4>3. QED BY <2>4, <2>5, <4>2, DoneFields
    <3>3. QED BY <2>2, <2>3, <2>5, <3>1, <3>2, FlightSteps
  <2>6. QED BY <1>3, <2>2, <2>3, <2>4, <2>5, CacheSteps
<1>4. QED BY <1>1, <1>2, <1>3 DEF FailuresApart

THEOREM Invariant == Spec => []IInv
<1>1. Init => IInv
  <2> SUFFICES ASSUME Init PROVE IInv
    OBVIOUS
  <2>1. TypeOK
    BY InitialTypes
  <2>2. /\ now = 0
        /\ \A k \in Keys : rows[k].since = 0 /\ rows[k].created = 0
                           /\ rows[k].withdrawn = 0 /\ rows[k].status = "absent"
        /\ cache.expiresAt = 0 /\ cache.nextRefreshAt = 0
        /\ flight.phase = "none" /\ flight.startedAt = 0 /\ flight.leader = 0
        /\ \A c \in Callers : calls[c].start = 0 /\ calls[c].pc = "idle"
    BY DEF Init, KeysInit, CacheInit, NoRow, NoFlight, NoCall
  <2>3. QED
    BY <2>1, <2>2, Times, CacheConfigAssumption
       DEF IInv, ClockLeads, CreatedBeforeStored, SetUnderWay, SetInCache, LoadInTime, Loading,
           CooldownOfSet, OldGeneration, AnswerCovered, FailuresApart, Published,
           WithdrawnKey
<1>2. IInv /\ [Next]_vars => IInv'
  <2> SUFFICES ASSUME IInv, [Next]_vars PROVE IInv'
    OBVIOUS
  <2>1. TypeOK /\ ClockLeads /\ CreatedBeforeStored
    BY DEF IInv
  <2>2. QED
    BY <2>1, TypePreserved, ClockLeadsPreserved, CreatedBeforeStoredPreserved,
       SetUnderWayPreserved, SetInCachePreserved, LoadInTimePreserved, CooldownOfSetPreserved,
       OldGenerationPreserved, AnswerCoveredPreserved, FailuresApartPreserved
       DEF IInv
<1>3. QED BY <1>1, <1>2, PTL DEF Spec

----------------------------------------------------------------------------
(* What the gateway may rely on. *)

(* The fields of every record are what the code can put there.             *)
THEOREM TypeCorrect == Spec => []TypeOK
<1>1. IInv => TypeOK
  BY DEF IInv
<1>2. QED BY <1>1, Invariant, PTL

(* A withdrawn key is accepted by no call that began TTL + RefreshTimeout   *)
(* after its withdrawal: jwks.go:71-90, 136-144.                            *)
THEOREM WithdrawalTakesEffect == Spec => []WithdrawnKeysExpire
<1>1. IInv => WithdrawnKeysExpire
  <2> SUFFICES ASSUME IInv PROVE WithdrawnKeysExpire
    OBVIOUS
  <2> USE Times, CacheConfigAssumption DEF IInv
  <2>1. ASSUME NEW k \in cache.keys \cap WithdrawnKeys, Fresh
        PROVE  now < rows[k].withdrawn + TTL + RefreshTimeout
    BY <2>1 DEF SetInCache, WithdrawnKeys, WithdrawnKey, Fresh
  <2>2. ASSUME NEW c \in Callers, ReturnsKey(c), calls[c].kid \in WithdrawnKeys
        PROVE  calls[c].start < rows[calls[c].kid].withdrawn + TTL + RefreshTimeout
    <3>1. Covered(calls[c].start)
      BY <2>2 DEF ReturnsKey, AnswerCovered
    <3>2. cache.expiresAt <= rows[calls[c].kid].withdrawn + RefreshTimeout + TTL
      BY <2>2 DEF ReturnsKey, Found, SetInCache, WithdrawnKeys, WithdrawnKey
    <3>3. calls[c].kid \in Keys
      BY <2>2 DEF WithdrawnKeys
    <3>4. QED BY <3>1, <3>2, <3>3 DEF Covered
  <2>3. QED BY <2>1, <2>2 DEF WithdrawnKeysExpire
<1>2. QED BY <1>1, Invariant, PTL

(* A call that begins RefreshCooldown + RefreshTimeout after the row of a    *)
(* key is not told that there is no such key: jwks.go:104-115.              *)
THEOREM PublicationTakesEffect == Spec => []PublishedKeysResolve
<1>1. IInv => PublishedKeysResolve
  <2> SUFFICES ASSUME IInv, NEW c \in Callers, ReturnsNotFound(c),
                      calls[c].kid \in PublishedKeys
               PROVE  calls[c].start
                        < rows[calls[c].kid].since + RefreshCooldown + RefreshTimeout
    BY DEF PublishedKeysResolve
  <2> USE Times, CacheConfigAssumption DEF IInv
  <2>1. Covered(calls[c].start)
    BY DEF ReturnsNotFound, AnswerCovered
  <2>2. calls[c].kid \in Keys
    BY DEF PublishedKeys
  <2>3. cache.expiresAt <= rows[calls[c].kid].since + RefreshTimeout + TTL
    BY <2>2 DEF ReturnsNotFound, Found, SetInCache, PublishedKeys, Published
  <2>4. QED BY <2>1, <2>2, <2>3 DEF Covered
<1>2. QED BY <1>1, Invariant, PTL

(* No call is told of a failure for RefreshCooldown after a set was loaded:  *)
(* jwks.go:104-118, 140-149.                                                *)
THEOREM FailuresAreForgotten == Spec => []SuccessSilencesFailures
<1>1. IInv => SuccessSilencesFailures
  BY Times, CacheConfigAssumption DEF IInv, FailuresApart, SuccessSilencesFailures
<1>2. QED BY <1>1, Invariant, PTL
============================================================================
