---------------------------- MODULE CommandCache ----------------------------
(***************************************************************************)
(* The in-memory command cache (src/internal/agent/command_cache.go): a    *)
(* bounded map from command keys to stored responses, and a generation     *)
(* counter that every invalidation advances.  commandCache.mu makes each   *)
(* method one critical section, so each method is one action here.  The    *)
(* instant `now` is a parameter, as in the code: the caller reads the      *)
(* clock before the method takes the mutex.                                *)
(*                                                                         *)
(* The module holds the operations only; CacheCallers drives them with     *)
(* arbitrary callers and CommandServer with the request handler.           *)
(*                                                                         *)
(* In this and the other modules, a definition whose comment begins with   *)
(* "Fault" is a plausible mistake in the definition that follows it.  No   *)
(* specification uses it: it is there to show which property notices.      *)
(***************************************************************************)
EXTENDS Durations, FiniteSets, Functions

CONSTANTS MaxEntries,      \* maxCommandCacheEntries (256 in the code)
          MaxTTL           \* maxCommandCacheTTL (60 s), as a duration

ASSUME CacheLimits == /\ MaxEntries \in Nat \ {0}
                      /\ MaxTTL \in Nat \ {0}

VARIABLES entries,         \* key -> [storedAt, expiresAt, response]
          generation       \* number of invalidations so far

cacheVars == <<entries, generation>>

----------------------------------------------------------------------------

(* The handler accepts cache_ttl_seconds (server.go:217); one so large     *)
(* that the product wraps around may pass.                                 *)
TTLAccepted(n) == n >= 0 /\ Seconds(n) <= MaxTTL

(* What json.Marshal is applied to before hashing; the digest is taken to  *)
(* be injective.  Stdin and the timeout are part of `command` here.        *)
CommandCacheKey(scope, workdir, command, ttl) ==
    [scope |-> scope, workdir |-> workdir, command |-> command, ttl |-> ttl]

(* Fault: an entry still lives at the very instant it expires.             *)
ExpiredTooLate(entry, now) == now > entry.expiresAt

Expired(entry, now) == now >= entry.expiresAt

(* pruneExpiredLocked *)
PruneExpired(es, now) ==
    Restrict(es, {k \in DOMAIN es : ~ Expired(es[k], now)})

(* Fault: the comparison of the instants is the wrong way round.           *)
NewestKeys(es) ==
    {k \in DOMAIN es : \A j \in DOMAIN es : es[k].storedAt >= es[j].storedAt}

(* The keys evictOldestLocked may remove: Go ranges over a map in any      *)
(* order, so any entry with the least storedAt can be the one.             *)
OldestKeys(es) ==
    {k \in DOMAIN es : \A j \in DOMAIN es : es[k].storedAt <= es[j].storedAt}

Without(es, k) == Restrict(es, DOMAIN es \ {k})

WithEntry(es, k, e) ==
    [j \in DOMAIN es \cup {k} |-> IF j = k THEN e ELSE es[j]]

(* Fault: the lifetime is subtracted.                                      *)
NewEntryInThePast(response, ttl, now) ==
    [storedAt |-> now, expiresAt |-> now - ttl, response |-> response]

NewEntry(response, ttl, now) ==
    [storedAt  |-> now,
     expiresAt |-> now + (IF ttl > MaxTTL THEN MaxTTL ELSE ttl),
     response  |-> response]

----------------------------------------------------------------------------

NoEntries == [k \in {} |-> 0]

CacheInit == /\ entries = NoEntries
             /\ generation = 0

(* get, when it finds a live entry.                                        *)
CacheHit(key, now) == /\ key \in DOMAIN entries
                      /\ ~ Expired(entries[key], now)
                      /\ UNCHANGED cacheVars

(* get, when it finds nothing it may return: an expired entry is deleted.  *)
(* The caller keeps `generation`, which was read in the same section.      *)
CacheMiss(key, now) == /\ key \in DOMAIN entries => Expired(entries[key], now)
                       /\ entries' = Without(entries, key)
                       /\ UNCHANGED generation

(* putIfGeneration, refused: something was invalidated since the lookup,   *)
(* or there is no lifetime.                                                *)
PutRefused(ttl, gen) == /\ generation # gen \/ ttl <= 0
                        /\ UNCHANGED cacheVars

(* Fault: no room is made for a new entry.                                 *)
PutWithoutEviction(es, key, entry, now) ==
    {WithEntry(PruneExpired(es, now), key, entry)}

(* What the map may be after an entry for key is put at `now`: expired     *)
(* entries go first; a new key in a map that is still full evicts one of   *)
(* the oldest entries.                                                     *)
PutResults(es, key, entry, now) ==
    LET kept == PruneExpired(es, now)
    IN  IF key \notin DOMAIN kept /\ Cardinality(DOMAIN kept) >= MaxEntries
        THEN {WithEntry(Without(kept, old), key, entry) :
                  old \in OldestKeys(kept)}
        ELSE {WithEntry(kept, key, entry)}

(* Fault: the generation is not compared.                                  *)
PutAnyGeneration(key, response, ttl, gen, now) ==
    /\ ttl > 0
    /\ entries' \in PutResults(entries, key, NewEntry(response, ttl, now), now)
    /\ UNCHANGED generation

(* putIfGeneration, accepted.                                              *)
PutAccepted(key, response, ttl, gen, now) ==
    /\ generation = gen
    /\ ttl > 0
    /\ entries' \in PutResults(entries, key, NewEntry(response, ttl, now), now)
    /\ UNCHANGED generation

(* Fault: what is stored goes, but lookups made before stay valid.         *)
InvalidateEntriesOnly == /\ entries' = NoEntries
                         /\ UNCHANGED generation

(* invalidateAll: the generation advances even when the map is empty.      *)
InvalidateAll == /\ entries' = NoEntries
                 /\ generation' = generation + 1

----------------------------------------------------------------------------

CacheTypeOK(Keys, Responses) ==
    /\ DOMAIN entries \subseteq Keys
    /\ \A k \in DOMAIN entries :
          entries[k] \in [storedAt : Nat, expiresAt : Nat, response : Responses]
    /\ generation \in Nat

(* The map never holds more than MaxEntries entries: prune, then evict at  *)
(* most one, before each insertion (command_cache.go:75-79).               *)
CacheBounded == Cardinality(DOMAIN entries) <= MaxEntries

=============================================================================
