----------------------------- MODULE JWKSCache -----------------------------
(***************************************************************************)
(* The key set cache of the API gateway                                    *)
(* (services/api-gateway/internal/authn/jwks.go): a set of public keys     *)
(* with a deadline, refreshed through a singleflight group, with a         *)
(* cooldown after every refresh, failed ones too, and a generation that    *)
(* tells a caller that somebody refreshed the set after it looked.         *)
(*                                                                         *)
(* The loader is the identity service; the set it answers with is a        *)
(* parameter of LoadAnswers.  Reading the clock and writing the cache      *)
(* after a load, and handing the result to the waiters, take no time on    *)
(* this clock; a caller may be slow anywhere.                              *)
(***************************************************************************)
EXTENDS Integers

CONSTANTS
    Keys,             \* key identifiers
    Callers,          \* HTTP requests in progress at the gateway
    TTL,              \* JWKSCacheConfig.TTL
    RefreshTimeout,   \* JWKSCacheConfig.RefreshTimeout
    RefreshCooldown,  \* JWKSCacheConfig.RefreshCooldown
    MaxTime           \* bound: time stops here

VARIABLES
    now,
    cache,   \* the fields of JWKSCache under mu
    flight,  \* the call of the singleflight group, and the load it runs
    calls    \* calls[c]: the ResolvePublicKey call c

Cache == [keys : SUBSET Keys, expiresAt : Nat, nextRefreshAt : Nat,
          failed : BOOLEAN, generation : Nat]

(* deciding: the function was started and has not looked at the cache;     *)
(* sent, served: the load is out, the server answered with the set keys;   *)
(* done: the cache is written and the result is about to be sent.  leader  *)
(* is no variable of the code: the time at which the call that started the *)
(* flight had begun.                                                       *)
Flight == [phase     : {"none", "deciding", "sent", "served", "done"},
           leader    : Nat,
           observed  : Nat,
           startedAt : Nat,
           keys      : SUBSET Keys,
           failed    : BOOLEAN]

(* start: when the call began or, once it has the result of a flight, the  *)
(* beginning of the flight's leader if that was earlier.                   *)
Call == [pc     : {"idle", "looked", "waiting", "woken"},
         kid    : Keys,
         start  : Nat,
         seen   : Nat]

NoFlight == [phase |-> "none", leader |-> 0, observed |-> 0, startedAt |-> 0,
             keys |-> {}, failed |-> FALSE]

NoCall == [pc |-> "idle", kid |-> CHOOSE k \in Keys : TRUE, start |-> 0,
           seen |-> 0]

Loading == flight.phase \in {"sent", "served"}

CacheInit ==
    /\ cache = [keys |-> {}, expiresAt |-> 0, nextRefreshAt |-> 0,
                failed |-> FALSE, generation |-> 0]
    /\ flight = NoFlight
    /\ calls = [c \in Callers |-> NoCall]

---------------------------------------------------------------------------
(* ResolvePublicKey *)

Found(k) == k \in cache.keys

(* Mistake: After in the place of Before, so the set lives one instant     *)
(* longer.                                                                 *)
FreshAtDeadline == now <= cache.expiresAt

Fresh == now < cache.expiresAt

(* The first lookup.  A key that is found in a fresh set is returned at    *)
(* once, which changes nothing; this is any other call.                    *)
Lookup(c, k) ==
    /\ calls[c].pc = "idle"
    /\ ~(Found(k) /\ Fresh)
    /\ calls' = [calls EXCEPT ![c] = [NoCall EXCEPT !.pc = "looked", !.kid = k,
                                       !.start = now, !.seen = cache.generation]]
    /\ UNCHANGED <<now, cache, flight>>

(* refresh.DoChan: joins the flight, or starts one that carries the        *)
(* generation this caller saw.                                             *)
Join(c) ==
    /\ calls[c].pc = "looked"
    /\ calls' = [calls EXCEPT ![c].pc = "waiting", ![c].seen = 0]
    /\ flight' = IF flight.phase # "none" THEN flight
                 ELSE [NoFlight EXCEPT !.phase = "deciding",
                                       !.leader = calls[c].start,
                                       !.observed = calls[c].seen]
    /\ UNCHANGED <<now, cache>>

(* ctx.Done: the caller leaves, the flight goes on (WithoutCancel). *)
GiveUp(c) ==
    /\ calls[c].pc = "waiting"
    /\ calls' = [calls EXCEPT ![c] = NoCall]
    /\ UNCHANGED <<now, cache, flight>>

(* What the second lookup finds, which no longer asks whether the set is   *)
(* fresh.                                                                  *)
ReturnsKey(c) == calls[c].pc = "woken" /\ Found(calls[c].kid)

ReturnsNotFound(c) == calls[c].pc = "woken" /\ ~Found(calls[c].kid)

Return(c) ==
    /\ calls[c].pc = "woken"
    /\ calls' = [calls EXCEPT ![c] = NoCall]
    /\ UNCHANGED <<now, cache, flight>>

---------------------------------------------------------------------------
(* refreshJWKS: the function the singleflight group runs *)

(* The flight with its result: what only the load needs is dropped. *)
Done(failure) == [NoFlight EXCEPT !.phase = "done", !.leader = flight.leader,
                                  !.failed = failure]

(* Mistake: in the cooldown the last error is not returned.                *)
DecideForgetsFailure ==
    /\ flight.phase = "deciding"
    /\ flight' =
         IF cache.generation # flight.observed \/ now < cache.nextRefreshAt THEN Done(FALSE)
         ELSE [flight EXCEPT !.phase = "sent", !.observed = 0, !.startedAt = now]
    /\ UNCHANGED <<now, cache, calls>>

Decide ==
    /\ flight.phase = "deciding"
    /\ flight' =
         IF cache.generation # flight.observed THEN Done(FALSE)
         ELSE IF now < cache.nextRefreshAt     THEN Done(cache.failed)
         ELSE [flight EXCEPT !.phase = "sent", !.observed = 0, !.startedAt = now]
    /\ UNCHANGED <<now, cache, calls>>

(* The server answers. *)
LoadAnswers(listed) ==
    /\ flight.phase = "sent"
    /\ flight' = [flight EXCEPT !.phase = "served", !.keys = listed]
    /\ UNCHANGED <<now, cache, calls>>

(* Mistake: the error of an earlier refresh stays recorded.                *)
LoadSucceedsKeepsError ==
    /\ flight.phase = "served"
    /\ flight.keys # {}
    /\ cache' = [cache EXCEPT !.keys          = flight.keys,
                              !.expiresAt     = now + TTL,
                              !.nextRefreshAt = now + RefreshCooldown,
                              !.generation    = @ + 1]
    /\ flight' = Done(FALSE)
    /\ UNCHANGED <<now, calls>>

(* A load that answered in time replaces the set. *)
LoadSucceeds ==
    /\ flight.phase = "served"
    /\ flight.keys # {}
    /\ cache' = [keys          |-> flight.keys,
                 expiresAt     |-> now + TTL,
                 nextRefreshAt |-> now + RefreshCooldown,
                 failed        |-> FALSE,
                 generation    |-> cache.generation + 1]
    /\ flight' = Done(FALSE)
    /\ UNCHANGED <<now, calls>>

(* recordRefreshError: an error of the server or the network, an empty set *)
(* or the timeout leaves the set alone and starts a cooldown.              *)
LoadFails ==
    /\ Loading
    /\ cache' = [cache EXCEPT !.failed = TRUE,
                              !.nextRefreshAt = now + RefreshCooldown]
    /\ flight' = Done(TRUE)
    /\ UNCHANGED <<now, calls>>

Earlier(s, t) == IF s < t THEN s ELSE t

(* The group forgets the call and sends its result to every waiter, which  *)
(* returns the error of a refresh that failed.                             *)
Deliver ==
    /\ flight.phase = "done"
    /\ calls' = [c \in Callers |->
           IF calls[c].pc # "waiting" THEN calls[c]
           ELSE IF flight.failed      THEN NoCall
           ELSE [calls[c] EXCEPT !.pc = "woken", !.start = Earlier(flight.leader, @)]]
    /\ flight' = NoFlight
    /\ UNCHANGED <<now, cache>>

(* Time passes, but no load outlives RefreshTimeout. *)
TickAllowed ==
    /\ flight.phase \notin {"deciding", "done"}
    /\ Loading => now < flight.startedAt + RefreshTimeout
    /\ now < MaxTime

CacheTypeOK ==
    /\ cache \in Cache
    /\ flight \in Flight
    /\ calls \in [Callers -> Call]
============================================================================
