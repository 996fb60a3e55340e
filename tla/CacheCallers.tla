---------------------------- MODULE CacheCallers ----------------------------
(***************************************************************************)
(* The command cache driven by arbitrary callers, as runCommand drives it  *)
(* (src/internal/agent/server.go): a caller reads the clock and looks its  *)
(* key up, and after a miss runs a command, reads the clock again and      *)
(* offers the result with the generation its lookup returned.  Others      *)
(* invalidate at any time.  The clock is read before the mutex is taken,   *)
(* so a caller may act with an instant that is already past.               *)
(*                                                                         *)
(* A key's scope contains the session, and a session's requests are        *)
(* serialised by its lock, so no two callers use one scope at a time.      *)
(***************************************************************************)
EXTENDS CommandCache

CONSTANTS Callers, Scopes, Workdirs, Commands, TTLs, MaxClock, MaxGeneration

ASSUME CallerLimits == /\ TTLs \subseteq Nat \ {0}
                       /\ \E t \in TTLs : TTLAccepted(t)
                       /\ Scopes # {} /\ Workdirs # {} /\ Commands # {}
                       /\ MaxGeneration \in Nat

VARIABLES clock,     \* time.Now()
          caller,    \* per caller: step, key, instant read, generation, age
          fresh      \* history: callers whose miss no invalidation followed

callersVars == <<entries, generation, clock, caller, fresh>>

Keys == {CommandCacheKey(s, w, c, t) :
            s \in Scopes, w \in Workdirs, c \in Commands,
            t \in {t \in TTLs : TTLAccepted(t)}}

Steps == {"idle", "looking", "missed", "offering", "served"}

(* An answer is its producer's mark: the generation its lookup returned.   *)
Answers == 0..MaxGeneration

Idle == [step |-> "idle", key |-> CHOOSE k \in Keys : TRUE,
         now |-> 0, gen |-> 0, age |-> 0]

CallersInit == /\ CacheInit
               /\ clock = 0
               /\ caller = [c \in Callers |-> Idle]
               /\ fresh = {}

Busy(scope) ==
    \E c \in Callers : caller[c].step # "idle" /\ caller[c].key.scope = scope

(* runCommand has the session lock and evaluates time.Now() for get.       *)
Begin(c) ==
    /\ caller[c].step = "idle"
    /\ \E k \in Keys :
          /\ ~ Busy(k.scope)
          /\ caller' = [caller EXCEPT ![c] = [Idle EXCEPT
                !.step = "looking", !.key = k, !.now = clock]]
    /\ UNCHANGED <<entries, generation, clock, fresh>>

(* commandCache.get, both outcomes.                                        *)
LookupHit(c) ==
    LET me == caller[c] IN
    /\ me.step = "looking"
    /\ CacheHit(me.key, me.now)
    /\ caller' = [caller EXCEPT ![c].step = "served",
                                ![c].age = me.now - entries[me.key].storedAt]
    /\ UNCHANGED <<clock, fresh>>

LookupMiss(c) ==
    LET me == caller[c] IN
    /\ me.step = "looking"
    /\ CacheMiss(me.key, me.now)
    /\ caller' = [caller EXCEPT ![c].step = "missed", ![c].gen = generation]
    /\ fresh' = fresh \cup {c}
    /\ UNCHANGED clock

(* The command has run and time.Now() is evaluated for putIfGeneration.    *)
Offer(c) ==
    /\ caller[c].step = "missed"
    /\ caller' = [caller EXCEPT ![c].step = "offering", ![c].now = clock]
    /\ UNCHANGED <<entries, generation, clock, fresh>>

(* putIfGeneration, both outcomes.                                         *)
Store(c) ==
    LET me == caller[c] IN
    /\ me.step = "offering"
    /\ PutAccepted(me.key, me.gen, Seconds(me.key.ttl), me.gen, me.now)
    /\ caller' = [caller EXCEPT ![c] = Idle]
    /\ fresh' = fresh \ {c}
    /\ UNCHANGED clock

StoreRefused(c) ==
    LET me == caller[c] IN
    /\ me.step = "offering"
    /\ PutRefused(Seconds(me.key.ttl), me.gen)
    /\ caller' = [caller EXCEPT ![c] = Idle]
    /\ fresh' = fresh \ {c}
    /\ UNCHANGED clock

(* The command failed, changed directory, or the hit was answered.         *)
Leave(c) ==
    /\ caller[c].step \in {"missed", "served"}
    /\ caller' = [caller EXCEPT ![c] = Idle]
    /\ fresh' = fresh \ {c}
    /\ UNCHANGED <<entries, generation, clock>>

Invalidate == /\ generation < MaxGeneration
              /\ InvalidateAll
              /\ fresh' = {}
              /\ UNCHANGED <<clock, caller>>

Tick == /\ clock < MaxClock
        /\ clock' = clock + 1
        /\ UNCHANGED <<entries, generation, caller, fresh>>

CallersNext == \/ \E c \in Callers : \/ Begin(c) \/ LookupHit(c) \/ LookupMiss(c)
                                     \/ Offer(c) \/ Store(c) \/ StoreRefused(c)
                                     \/ Leave(c)
               \/ Invalidate
               \/ Tick

CallersSpec == CallersInit /\ [][CallersNext]_callersVars

----------------------------------------------------------------------------

CallersTypeOK ==
    /\ CacheTypeOK(Keys, Answers)
    /\ clock \in Nat
    /\ fresh \subseteq Callers
    /\ caller \in [Callers -> [step : Steps, key : Keys,
                               now : Nat, gen : Answers, age : Int]]

(* An answer served from the cache is younger than the lifetime its caller *)
(* asked for and than 60 s, and was not stored in the caller's future,     *)
(* although both instants are read outside the mutex (server.go:272, 326;  *)
(* command_cache.go:47-51) and the lifetime asked for may wrap around      *)
(* (server.go:217, 325): the age runCommand reports is meaningful.         *)
HitAgeWithinTTL ==
    \A c \in Callers : caller[c].step = "served" =>
        /\ 0 <= caller[c].age /\ caller[c].age < MaxTTL
        /\ caller[c].age < caller[c].key.ttl * Second

(* Every stored answer comes from a lookup made after the last            *)
(* invalidation, "which prevents a read that started before a write from   *)
(* publishing a stale result" (command_cache.go:83-85).                    *)
NoStaleEntry == \A k \in DOMAIN entries : entries[k].response = generation

(* A live entry leaves the map only through an invalidation, or evicted by *)
(* a put that leaves the map full, and then nothing kept is older than it  *)
(* (pruneExpiredLocked, evictOldestLocked, command_cache.go:98-117).       *)
EvictsOnlyTheOldest ==
    [][\A k \in DOMAIN entries \ DOMAIN entries' :
          \/ Expired(entries[k], clock)
          \/ generation' # generation
          \/ /\ Cardinality(DOMAIN entries') = MaxEntries
             /\ \A j \in DOMAIN entries \cap DOMAIN entries' :
                   entries[k].storedAt <= entries[j].storedAt]_callersVars

(* The promise of the comments at command_cache.go:32-34, 54-55 and 83-85: *)
(* "a miss can later be stored only if no uncached command invalidated the *)
(* cache in the meantime".  The cache implements Memo: whom it lets store  *)
(* by comparing generations are callers that no reset has disqualified.    *)
Promise == INSTANCE Memo WITH
    memo <- [k \in DOMAIN entries |-> entries[k].response]

ImplementsMemo == Promise!MemoSpec
=============================================================================
