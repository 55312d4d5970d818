-------------------------- MODULE KeyDistribution --------------------------
(***************************************************************************)
(* From the signing key row to the request the API gateway lets through:   *)
(* SigningKeys and JWKSCache composed.  The gateway loads the key set from *)
(* the identity service, and keeps answering from its copy while the rows  *)
(* change.                                                                 *)
(***************************************************************************)
EXTENDS SigningKeys

CONSTANTS Callers, TTL, RefreshTimeout, RefreshCooldown

(* JWKSCacheConfig.Validate, and something to ask for. *)
ASSUME CacheConfigAssumption ==
    /\ Keys # {}
    /\ MaxTime \in Nat
    /\ TTL \in Nat \ {0}
    /\ RefreshTimeout \in Nat \ {0}
    /\ RefreshCooldown \in Nat \ {0}
    /\ RefreshCooldown <= TTL

VARIABLES cache, flight, calls

INSTANCE JWKSCache

vars == <<now, rows, cache, flight, calls>>

(* GetJSONWebKeySet takes its time, then lists the rows: keys that start   *)
(* after that time are not listed, and a listed row changed after it fails *)
(* the whole request (LoadFails).                                          *)
ServeJWKS ==
    \E readAt \in flight.startedAt .. now :
        LET listed == {k \in PublishedKeys : rows[k].created <= readAt} IN
        /\ \A k \in listed : rows[k].changed <= readAt
        /\ LoadAnswers(listed)
        /\ UNCHANGED rows

Tick ==
    /\ TickAllowed
    /\ now' = now + 1
    /\ UNCHANGED <<rows, cache, flight, calls>>

Init == KeysInit /\ CacheInit

Next ==
    \/ KeysNext /\ UNCHANGED <<cache, flight, calls>>
    \/ ServeJWKS
    \/ Tick
    \/ /\ \/ \E c \in Callers :
                \/ \E k \in Keys : Lookup(c, k)
                \/ Join(c)
                \/ GiveUp(c)
                \/ Return(c)
          \/ Decide
          \/ LoadSucceeds
          \/ LoadFails
          \/ Deliver
       /\ UNCHANGED rows

Spec == Init /\ [][Next]_vars

---------------------------------------------------------------------------

TypeOK == KeysTypeOK /\ CacheTypeOK

(* The gateway may accept a key after it was withdrawn, since its copy of  *)
(* the set, a load under way and a slow caller are all older than the row; *)
(* but never in a call that began TTL + RefreshTimeout or more after the   *)
(* withdrawal.  One exception is counted in: a call that joins the flight  *)
(* of a caller that looked before the last refresh gets the set as it is,  *)
(* expired or not, so it is as old as that caller (jwks.go:72-94,          *)
(* 104-118, 140-147).                                                      *)
WithdrawnKeysExpire ==
    /\ \A k \in cache.keys \cap WithdrawnKeys :
          Fresh => now < rows[k].withdrawn + TTL + RefreshTimeout
    /\ \A c \in Callers :
          ReturnsKey(c) /\ calls[c].kid \in WithdrawnKeys
             => calls[c].start < rows[calls[c].kid].withdrawn + TTL + RefreshTimeout

(* A new key is known within RefreshCooldown + RefreshTimeout of its       *)
(* row: a call that started later may fail with the loader's error, but    *)
(* it is not told that the key does not exist (jwks.go:106-118).  As       *)
(* above, a call that joined a flight is as old as the flight's leader.    *)
PublishedKeysResolve ==
    \A c \in Callers :
        ReturnsNotFound(c) /\ calls[c].kid \in PublishedKeys
            => calls[c].start < rows[calls[c].kid].since + RefreshCooldown + RefreshTimeout

(* For RefreshCooldown after a set was loaded no flight ends with an       *)
(* error: what failed before the set is forgotten, nothing is loaded in    *)
(* the meantime, and no load that was under way comes in late              *)
(* (jwks.go:104-118, 140-149).                                             *)
SuccessSilencesFailures ==
    flight.phase = "done" /\ flight.failed
        => cache.expiresAt - TTL + RefreshCooldown <= now
============================================================================
