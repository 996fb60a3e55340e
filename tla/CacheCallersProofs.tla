------------------------- MODULE CacheCallersProofs -------------------------
(* Theorems about the command cache under arbitrary callers, for every     *)
(* number of callers, keys and entries and every width of a duration.      *)
EXTENDS CacheCallers, CommandCacheProofs

----------------------------------------------------------------------------
(* The inductive invariant, conjunct by conjunct.                          *)

(* The map is finite, so that counting its entries makes sense.            *)
FewEntries == IsFiniteSet(DOMAIN entries) /\ CacheBounded

(* A lifetime is the one its key names, and it began in the past.          *)
Lifetimes ==
    \A k \in DOMAIN entries :
        /\ entries[k].storedAt <= clock
        /\ entries[k].expiresAt = entries[k].storedAt + Seconds(k.ttl)

InstantsArePast == \A c \in Callers : caller[c].now <= clock

(* Requests of one session are serial.                                     *)
OnePerScope ==
    \A c, d \in Callers :
        /\ c # d
        /\ caller[c].step # "idle"
        /\ caller[d].step # "idle"
        => caller[c].key.scope # caller[d].key.scope

(* What a caller finds under its key was stored before it read the clock:  *)
(* nobody else stores under a key of its session.                          *)
LooksBack ==
    \A c \in Callers :
        /\ caller[c].step = "looking"
        /\ caller[c].key \in DOMAIN entries
        => entries[caller[c].key].storedAt <= caller[c].now

HasMissed(c) == caller[c].step \in {"missed", "offering"}

(* After a miss the key stays absent until its caller stores.              *)
AbsentAfterMiss == \A c \in Callers : HasMissed(c) => caller[c].key \notin DOMAIN entries

(* Comparing generations finds the callers that an invalidation followed.  *)
FreshByGeneration ==
    \A c \in Callers : HasMissed(c) =>
        /\ caller[c].gen <= generation
        /\ caller[c].gen = generation => c \in fresh

CallersInv == /\ CallersTypeOK
              /\ generation <= MaxGeneration
              /\ FewEntries
              /\ Lifetimes
              /\ NoStaleEntry
              /\ InstantsArePast
              /\ OnePerScope
              /\ LooksBack
              /\ AbsentAfterMiss
              /\ FreshByGeneration
              /\ HitAgeWithinTTL

----------------------------------------------------------------------------
(* Keys and lifetimes.                                                     *)

(* There is a key, and a key's lifetime is one the handler accepted.       *)
LEMMA KeyFacts ==
    /\ Idle \in [step : Steps, key : Keys, now : Nat, gen : Answers, age : Int]
    /\ \A k \in Keys : /\ k.ttl \in Nat \ {0}
                       /\ Seconds(k.ttl) \in Int
                       /\ Seconds(k.ttl) <= MaxTTL
                       /\ Seconds(k.ttl) <= k.ttl * Second
  <1>1. Keys # {}
    BY CallerLimits DEF Keys
  <1>2. Idle \in [step : Steps, key : Keys, now : Nat, gen : Answers, age : Int]
    BY <1>1, CallerLimits DEF Idle, Steps, Answers
  <1>3. ASSUME NEW k \in Keys
        PROVE  k.ttl \in Nat \ {0} /\ TTLAccepted(k.ttl)
    BY <1>3, CallerLimits DEF Keys, CommandCacheKey
  <1>4. ASSUME NEW t \in Nat
        PROVE  Seconds(t) \in Int /\ Seconds(t) <= t * Second
    <2>1. t * Second \in Nat
      BY DurationAssumptions
    <2> DEFINE x == t * Second
    <2> HIDE DEF x
    <2>2. Wrap(x) \in Int /\ Wrap(x) <= x
      BY <2>1, WrapInRange, WrapNeverGrows, DurationAssumptions DEF x
    <2> QED
      BY <2>2 DEF Seconds, x
  <1> QED
    BY <1>2, <1>3, <1>4 DEF TTLAccepted

(* What a put that is accepted does to the map.                            *)
LEMMA StoreFacts ==
    ASSUME CallersInv, NEW c \in Callers, Store(c)
    PROVE  LET me == caller[c] IN
           /\ me.step = "offering"
           /\ me.key \in DOMAIN entries'
           /\ entries'[me.key] =
                [storedAt  |-> me.now,
                 expiresAt |-> me.now + Seconds(me.key.ttl),
                 response  |-> generation]
           /\ Seconds(me.key.ttl) > 0
           /\ DOMAIN entries' \subseteq DOMAIN entries \cup {me.key}
           /\ \A k \in DOMAIN entries' \ {me.key} : entries'[k] = entries[k]
           /\ me.gen = generation
           /\ c \in fresh
           /\ UNCHANGED <<generation, clock>>
  <1> DEFINE me == caller[c]
             e  == NewEntry(me.gen, Seconds(me.key.ttl), me.now)
  <1>1. me.key \in Keys
    BY DEF CallersInv, CallersTypeOK
  <1>2. e = [storedAt  |-> me.now,
             expiresAt |-> me.now + Seconds(me.key.ttl),
             response  |-> me.gen]
    BY <1>1, KeyFacts, CacheLimits DEF NewEntry
  <1>3. entries' \in PutResults(entries, me.key, e, me.now)
    BY DEF Store, PutAccepted
  <1>4. c \in fresh
    BY DEF Store, PutAccepted, CallersInv, FreshByGeneration, HasMissed
  <1> HIDE DEF e
  <1> QED
    BY <1>2, <1>3, <1>4, PutAddsOneEntry DEF Store, PutAccepted

(* What a miss does to the map.                                            *)
LEMMA MissFacts ==
    ASSUME NEW c \in Callers, LookupMiss(c)
    PROVE  /\ caller[c].step = "looking"
           /\ DOMAIN entries' = DOMAIN entries \ {caller[c].key}
           /\ \A k \in DOMAIN entries' : entries'[k] = entries[k]
           /\ UNCHANGED <<generation, clock>>
  <1>1. entries' = Without(entries, caller[c].key)
    BY DEF LookupMiss, CacheMiss
  <1>2. /\ DOMAIN entries' = DOMAIN entries \ {caller[c].key}
        /\ \A k \in DOMAIN entries' : entries'[k] = entries[k]
    BY ONLY <1>1, WithoutKeepsTheRest
  <1> QED
    BY <1>2 DEF LookupMiss, CacheMiss

----------------------------------------------------------------------------
(* Type correctness.                                                       *)

(* Nobody is under way and nothing is stored.                              *)
LEMMA CallersInitTypeOK == CallersInit => CallersTypeOK
  BY KeyFacts DEF CallersInit, CacheInit, NoEntries, CallersTypeOK, CacheTypeOK

(* Every step stays within the declared types.                             *)
LEMMA CallersStepTypeOK ==
    ASSUME CallersInv, [CallersNext]_callersVars
    PROVE  CallersTypeOK' /\ generation' <= MaxGeneration
  <1> DEFINE Caller == [step : Steps, key : Keys, now : Nat, gen : Answers, age : Int]
  <1>0. /\ CallersTypeOK
        /\ generation <= MaxGeneration
        /\ caller \in [Callers -> Caller]
        /\ Idle \in Caller
        /\ MaxGeneration \in Nat
    BY KeyFacts, CallerLimits DEF CallersInv, CallersTypeOK
  <1> USE <1>0 DEF CallersTypeOK, CacheTypeOK, cacheVars
  <1>1. ASSUME NEW c \in Callers, Begin(c) PROVE CallersTypeOK'
    <2>1. PICK k \in Keys : caller' = [caller EXCEPT ![c] = [Idle EXCEPT
                !.step = "looking", !.key = k, !.now = clock]]
      BY <1>1 DEF Begin
    <2>2. [Idle EXCEPT !.step = "looking", !.key = k, !.now = clock] \in Caller
      BY DEF Steps
    <2>3. caller' \in [Callers -> Caller]
      BY <2>1, <2>2
    <2> QED
      BY <1>1, <2>3 DEF Begin
  <1>2. ASSUME NEW c \in Callers, LookupHit(c) PROVE CallersTypeOK'
    <2>1. caller[c] \in Caller /\ entries[caller[c].key].storedAt \in Nat
      BY <1>2 DEF LookupHit, CacheHit
    <2>2. caller' = [caller EXCEPT ![c] = [caller[c] EXCEPT
                !.step = "served",
                !.age = caller[c].now - entries[caller[c].key].storedAt]]
      BY <1>2 DEF LookupHit
    <2>3. caller' \in [Callers -> Caller]
      <3>1. [caller[c] EXCEPT
                !.step = "served",
                !.age = caller[c].now - entries[caller[c].key].storedAt] \in Caller
        <4>1. "served" \in Steps /\ caller[c].now - entries[caller[c].key].storedAt \in Int
          BY <2>1 DEF Steps
        <4> QED
          BY <2>1, <4>1
      <3> QED
        BY <2>2, <3>1
    <2> QED
      BY <1>2, <2>3 DEF LookupHit, CacheHit
  <1>3. ASSUME NEW c \in Callers, LookupMiss(c) PROVE CallersTypeOK'
    <2>1. caller' = [caller EXCEPT ![c] =
                        [caller[c] EXCEPT !.step = "missed", !.gen = generation]]
      BY <1>3 DEF LookupMiss
    <2>2. fresh' \subseteq Callers
      BY <1>3 DEF LookupMiss
    <2>3. caller' \in [Callers -> Caller]
      <3>1. [caller[c] EXCEPT !.step = "missed", !.gen = generation] \in Caller
        <4>1. caller[c] \in Caller /\ generation \in Answers /\ "missed" \in Steps
          BY DEF Answers, Steps
        <4> QED
          BY <4>1
      <3> QED
        BY <2>1, <3>1
    <2>4. CacheTypeOK(Keys, Answers)' /\ clock' \in Nat
      BY <1>3, MissFacts
    <2> QED
      BY <2>2, <2>3, <2>4
  <1>4. ASSUME NEW c \in Callers, Offer(c) PROVE CallersTypeOK'
    BY <1>4 DEF Offer, Steps
  <1>5. ASSUME NEW c \in Callers, Store(c) PROVE CallersTypeOK'
    <2>1. entries'[caller[c].key] \in
             [storedAt : Nat, expiresAt : Nat, response : Answers]
      <3>1. /\ caller[c].now \in Nat
            /\ Seconds(caller[c].key.ttl) \in Int
            /\ generation \in Answers
        BY KeyFacts DEF Answers
      <3>2. /\ entries'[caller[c].key] =
                  [storedAt  |-> caller[c].now,
                   expiresAt |-> caller[c].now + Seconds(caller[c].key.ttl),
                   response  |-> generation]
            /\ Seconds(caller[c].key.ttl) > 0
        BY <1>5, StoreFacts
      <3> QED
        BY <3>1, <3>2
    <2>2. CacheTypeOK(Keys, Answers)'
      <3>1. /\ DOMAIN entries' \subseteq DOMAIN entries \cup {caller[c].key}
            /\ \A k \in DOMAIN entries' \ {caller[c].key} : entries'[k] = entries[k]
            /\ generation' = generation
        BY <1>5, StoreFacts
      <3>2. caller[c].key \in Keys
        OBVIOUS
      <3> QED
        BY <2>1, <3>1, <3>2
    <2> QED
      BY <1>5, <2>2, StoreFacts DEF Store
  <1>6. ASSUME NEW c \in Callers, StoreRefused(c) PROVE CallersTypeOK'
    BY <1>6 DEF StoreRefused, PutRefused
  <1>7. ASSUME NEW c \in Callers, Leave(c) PROVE CallersTypeOK'
    BY <1>7 DEF Leave
  <1>8. CASE Invalidate
    BY <1>8 DEF Invalidate, InvalidateAll, NoEntries
  <1>9. CASE Tick
    BY <1>9 DEF Tick
  <1>10. CASE UNCHANGED callersVars
    BY <1>10 DEF callersVars
  <1>11. generation' <= MaxGeneration
    <2>1. \/ generation' = generation
          \/ generation < MaxGeneration /\ generation' = generation + 1
      BY MissFacts, StoreFacts
      DEF CallersNext, Begin, LookupHit, CacheHit, Offer, StoreRefused, PutRefused,
          Leave, Invalidate, InvalidateAll, Tick, callersVars
    <2> QED
      BY <2>1
  <1> QED
    BY <1>1, <1>2, <1>3, <1>4, <1>5, <1>6, <1>7, <1>8, <1>9, <1>10, <1>11
    DEF CallersNext

----------------------------------------------------------------------------
(* The rest of the invariant.                                              *)

(* It holds of an empty map and callers at rest.                           *)
LEMMA CallersInitInv == CallersInit => CallersInv
  <1> SUFFICES ASSUME CallersInit PROVE CallersInv
    OBVIOUS
  <1>1. DOMAIN entries = {} /\ generation = 0 /\ clock = 0
    BY DEF CallersInit, CacheInit, NoEntries
  <1>2. \A c \in Callers : caller[c].step = "idle" /\ caller[c].now = 0
    BY DEF CallersInit, Idle
  <1>3. FewEntries
    BY <1>1, FS_EmptySet, CacheLimits DEF FewEntries, CacheBounded
  <1> QED
    BY <1>1, <1>2, <1>3, CallersInitTypeOK, CallerLimits
    DEF CallersInv, Lifetimes, NoStaleEntry, InstantsArePast, OnePerScope,
        LooksBack, AbsentAfterMiss, FreshByGeneration, HasMissed, HitAgeWithinTTL

(* A caller's steps leave the others alone, and no two share a scope.      *)
LEMMA StepOnePerScope ==
    ASSUME CallersInv, [CallersNext]_callersVars
    PROVE  OnePerScope'
  <1> USE DEF CallersInv, CallersTypeOK, OnePerScope
  <1>1. ASSUME NEW c \in Callers, Begin(c) PROVE OnePerScope'
    BY <1>1 DEF Begin, Busy
  <1>2. ASSUME NEW c \in Callers,
               LookupHit(c) \/ LookupMiss(c) \/ Offer(c)
        PROVE  OnePerScope'
    <2>1. /\ caller[c].step # "idle"
          /\ caller'[c].key = caller[c].key
          /\ \A d \in Callers \ {c} : caller'[d] = caller[d]
      BY <1>2 DEF LookupHit, LookupMiss, Offer
    <2> QED
      BY <2>1
  <1>3. ASSUME NEW c \in Callers,
               Store(c) \/ StoreRefused(c) \/ Leave(c)
        PROVE  OnePerScope'
    BY <1>3 DEF Store, StoreRefused, Leave, Idle
  <1>4. CASE Invalidate \/ Tick \/ UNCHANGED callersVars
    BY <1>4 DEF Invalidate, Tick, callersVars
  <1> QED
    BY <1>1, <1>2, <1>3, <1>4 DEF CallersNext

(* No caller reads an instant that is yet to come.                         *)
LEMMA StepInstantsArePast ==
    ASSUME CallersInv, [CallersNext]_callersVars
    PROVE  InstantsArePast'
  <1> USE DEF CallersInv, CallersTypeOK, InstantsArePast
  <1>1. ASSUME NEW c \in Callers, Begin(c) PROVE InstantsArePast'
    BY <1>1 DEF Begin
  <1>2. ASSUME NEW c \in Callers,
               LookupHit(c) \/ LookupMiss(c) \/ Offer(c)
        PROVE  InstantsArePast'
    BY <1>2 DEF LookupHit, LookupMiss, Offer
  <1>3. ASSUME NEW c \in Callers,
               Store(c) \/ StoreRefused(c) \/ Leave(c)
        PROVE  InstantsArePast'
    BY <1>3 DEF Store, StoreRefused, Leave, Idle
  <1>4. CASE Invalidate \/ UNCHANGED callersVars
    BY <1>4 DEF Invalidate, callersVars
  <1>5. CASE Tick
    BY <1>5 DEF Tick
  <1> QED
    BY <1>1, <1>2, <1>3, <1>4, <1>5 DEF CallersNext

(* The map is touched by a miss, an accepted put and an invalidation only. *)
LEMMA MapSteps ==
    ASSUME [CallersNext]_callersVars
    PROVE  \/ UNCHANGED <<entries, generation>>
           \/ \E c \in Callers : LookupMiss(c) \/ Store(c)
           \/ Invalidate
  BY DEF CallersNext, Begin, LookupHit, CacheHit, cacheVars, Offer,
         StoreRefused, PutRefused, Leave, Tick, callersVars

(* Instants never decrease.                                                *)
LEMMA ClockAdvances ==
    ASSUME CallersInv, [CallersNext]_callersVars
    PROVE  clock' >= clock
  <1>1. clock' = clock \/ clock' = clock + 1
    BY DEF CallersNext, Begin, LookupHit, LookupMiss, Offer, Store, StoreRefused,
           Leave, Invalidate, Tick, callersVars
  <1>2. clock \in Nat
    BY DEF CallersInv, CallersTypeOK
  <1> QED
    BY <1>1, <1>2

(* The map stays within its bound, its lifetimes are the ones asked for,   *)
(* and what it holds was looked for in the present generation.             *)
LEMMA StepMap ==
    ASSUME CallersInv, [CallersNext]_callersVars
    PROVE  FewEntries' /\ Lifetimes' /\ NoStaleEntry'
  <1>a. CallersInv
    OBVIOUS
  <1>0. /\ clock \in Nat /\ clock' \in Nat /\ clock' >= clock
        /\ \A k \in DOMAIN entries : entries[k].storedAt \in Nat
    BY ClockAdvances, CallersStepTypeOK
    DEF CallersInv, CallersTypeOK, CacheTypeOK
  <1> USE <1>0 DEF CallersInv, FewEntries, CacheBounded, Lifetimes, NoStaleEntry
  <1>1. CASE UNCHANGED <<entries, generation>>
    BY <1>1
  <1>2. ASSUME NEW c \in Callers, LookupMiss(c)
        PROVE  FewEntries' /\ Lifetimes' /\ NoStaleEntry'
    <2>1. Lifetimes' /\ NoStaleEntry'
      BY <1>2, MissFacts
    <2>2. /\ DOMAIN entries' \in SUBSET DOMAIN entries
          /\ IsFiniteSet(DOMAIN entries)
          /\ Cardinality(DOMAIN entries) <= MaxEntries
      BY <1>2, MissFacts
    <2>3. FewEntries'
      BY ONLY <2>2, FS_Subset, FS_CardinalityType, CacheLimits
      DEF FewEntries, CacheBounded
    <2> QED
      BY <2>1, <2>3
  <1>3. ASSUME NEW c \in Callers, Store(c)
        PROVE  FewEntries' /\ Lifetimes' /\ NoStaleEntry'
    <2> DEFINE me == caller[c]
    <2>1. /\ me.now \in Nat /\ me.now <= clock
          /\ IsFiniteSet(DOMAIN entries)
          /\ Cardinality(DOMAIN entries) <= MaxEntries
      BY DEF InstantsArePast, CallersTypeOK
    <2>2. Lifetimes' /\ NoStaleEntry'
      <3>1. /\ entries'[me.key].storedAt = me.now
            /\ entries'[me.key].expiresAt = me.now + Seconds(me.key.ttl)
            /\ entries'[me.key].response = generation
            /\ DOMAIN entries' \subseteq DOMAIN entries \cup {me.key}
            /\ \A k \in DOMAIN entries' \ {me.key} : entries'[k] = entries[k]
            /\ UNCHANGED <<generation, clock>>
        <4>1. entries'[caller[c].key] =
                [storedAt  |-> caller[c].now,
                 expiresAt |-> caller[c].now + Seconds(caller[c].key.ttl),
                 response  |-> generation]
          BY ONLY <1>a, <1>3, StoreFacts
        <4>2. /\ caller[c].key \in DOMAIN entries'
              /\ DOMAIN entries' \subseteq DOMAIN entries \cup {caller[c].key}
              /\ \A k \in DOMAIN entries' \ {caller[c].key} : entries'[k] = entries[k]
              /\ UNCHANGED <<generation, clock>>
          BY ONLY <1>a, <1>3, StoreFacts
        <4> QED
          BY ONLY <4>1, <4>2
      <3> QED
        BY <2>1, <3>1
    <2>3. PICK e : entries' \in PutResults(entries, me.key, e, me.now)
      BY <1>3 DEF Store, PutAccepted
    <2>4. FewEntries'
      BY ONLY <2>1, <2>3, PutStaysBounded DEF FewEntries, CacheBounded
    <2> QED
      BY <2>2, <2>4
  <1>4. CASE Invalidate
    <2>1. DOMAIN entries' = {}
      BY <1>4 DEF Invalidate, InvalidateAll, NoEntries
    <2> QED
      BY <2>1, FS_EmptySet, CacheLimits
  <1> QED
    BY <1>1, <1>2, <1>3, <1>4, MapSteps

(* What a caller knows about its key stays true while others act.          *)
LEMMA StepLooks ==
    ASSUME CallersInv, [CallersNext]_callersVars
    PROVE  LooksBack' /\ AbsentAfterMiss'
  <1> USE DEF CallersInv, CallersTypeOK, LooksBack, AbsentAfterMiss, HasMissed
  <1>1. ASSUME NEW c \in Callers, Begin(c) PROVE LooksBack' /\ AbsentAfterMiss'
    <2>1. /\ entries' = entries
          /\ caller'[c].step = "looking" /\ caller'[c].now = clock
          /\ \A d \in Callers \ {c} : caller'[d] = caller[d]
      BY <1>1 DEF Begin, Idle
    <2> QED
      BY <2>1 DEF Lifetimes
  <1>2. ASSUME NEW c \in Callers, LookupHit(c) PROVE LooksBack' /\ AbsentAfterMiss'
    BY <1>2 DEF LookupHit, CacheHit, cacheVars
  <1>3. ASSUME NEW c \in Callers, LookupMiss(c) PROVE LooksBack' /\ AbsentAfterMiss'
    <2>1. /\ caller'[c].step = "missed" /\ caller'[c].key = caller[c].key
          /\ \A d \in Callers \ {c} : caller'[d] = caller[d]
      BY <1>3 DEF LookupMiss
    <2> QED
      BY ZenonT(30), <1>3, <2>1, MissFacts
  <1>4. ASSUME NEW c \in Callers, Offer(c) PROVE LooksBack' /\ AbsentAfterMiss'
    BY <1>4 DEF Offer
  <1>5. ASSUME NEW c \in Callers, Store(c) PROVE LooksBack' /\ AbsentAfterMiss'
    <2>1. /\ caller'[c].step = "idle"
          /\ \A d \in Callers \ {c} :
                /\ caller'[d] = caller[d]
                /\ caller[d].step # "idle" => caller[d].key # caller[c].key
      BY <1>5 DEF Store, Idle, OnePerScope
    <2>2. /\ DOMAIN entries' \subseteq DOMAIN entries \cup {caller[c].key}
          /\ \A k \in DOMAIN entries' \ {caller[c].key} : entries'[k] = entries[k]
      BY <1>5, StoreFacts
    <2> QED
      BY <2>1, <2>2
  <1>6. ASSUME NEW c \in Callers, StoreRefused(c) \/ Leave(c)
        PROVE  LooksBack' /\ AbsentAfterMiss'
    BY <1>6 DEF StoreRefused, PutRefused, Leave, Idle, cacheVars
  <1>7. CASE Invalidate
    BY <1>7 DEF Invalidate, InvalidateAll, NoEntries
  <1>8. CASE Tick \/ UNCHANGED callersVars
    BY <1>8 DEF Tick, callersVars
  <1> QED
    BY <1>1, <1>2, <1>3, <1>4, <1>5, <1>6, <1>7, <1>8 DEF CallersNext

(* A generation in hand is the present one only for a caller that nothing  *)
(* has invalidated.                                                        *)
LEMMA StepFreshByGeneration ==
    ASSUME CallersInv, [CallersNext]_callersVars
    PROVE  FreshByGeneration'
  <1> USE DEF CallersInv, CallersTypeOK, CacheTypeOK, FreshByGeneration,
              HasMissed, Answers, cacheVars
  <1>1. ASSUME NEW c \in Callers, Begin(c) PROVE FreshByGeneration'
    BY <1>1 DEF Begin, Idle
  <1>2. ASSUME NEW c \in Callers, LookupHit(c) PROVE FreshByGeneration'
    BY <1>2 DEF LookupHit, CacheHit
  <1>3. ASSUME NEW c \in Callers, LookupMiss(c) PROVE FreshByGeneration'
    BY <1>3 DEF LookupMiss, CacheMiss
  <1>4. ASSUME NEW c \in Callers, Offer(c) PROVE FreshByGeneration'
    BY <1>4 DEF Offer
  <1>5. ASSUME NEW c \in Callers, Store(c) PROVE FreshByGeneration'
    BY <1>5 DEF Store, PutAccepted, Idle
  <1>6. ASSUME NEW c \in Callers, StoreRefused(c) \/ Leave(c)
        PROVE  FreshByGeneration'
    BY <1>6 DEF StoreRefused, PutRefused, Leave, Idle
  <1>7. CASE Invalidate
    BY <1>7 DEF Invalidate, InvalidateAll
  <1>8. CASE Tick \/ UNCHANGED callersVars
    BY <1>8 DEF Tick, callersVars
  <1> QED
    BY <1>1, <1>2, <1>3, <1>4, <1>5, <1>6, <1>7, <1>8 DEF CallersNext

(* The age of a hit is within the lifetime of its key.                     *)
LEMMA StepHitAge ==
    ASSUME CallersInv, [CallersNext]_callersVars
    PROVE  HitAgeWithinTTL'
  <1> USE DEF CallersInv, CallersTypeOK, HitAgeWithinTTL
  <1>1. ASSUME NEW c \in Callers, LookupHit(c) PROVE HitAgeWithinTTL'
    <2> DEFINE me == caller[c]
               e  == entries[me.key]
    <2>1. /\ me.step = "looking" /\ me.key \in DOMAIN entries
          /\ ~ Expired(e, me.now)
          /\ caller'[c].age = me.now - e.storedAt /\ caller'[c].key = me.key
          /\ \A d \in Callers \ {c} : caller'[d] = caller[d]
      BY <1>1 DEF LookupHit, CacheHit
    <2>2. /\ e.storedAt <= me.now
          /\ e.expiresAt = e.storedAt + Seconds(me.key.ttl)
          /\ e.storedAt \in Nat /\ me.now \in Nat /\ me.key \in Keys
      BY <2>1 DEF Lifetimes, LooksBack, CacheTypeOK
    <2>3. /\ Seconds(me.key.ttl) \in Int
          /\ Seconds(me.key.ttl) <= MaxTTL
          /\ Seconds(me.key.ttl) <= me.key.ttl * Second
          /\ me.key.ttl * Second \in Nat /\ MaxTTL \in Nat
      BY <2>2, KeyFacts, DurationAssumptions, CacheLimits
    <2> DEFINE limit == me.key.ttl * Second
               life  == Seconds(me.key.ttl)
    <2>4. /\ 0 <= me.now - e.storedAt
          /\ me.now - e.storedAt < MaxTTL
          /\ me.now - e.storedAt < limit
      <3>1. me.now < e.storedAt + life
        BY <2>1, <2>2, <2>3 DEF Expired
      <3> HIDE DEF limit, life, e, me
      <3> QED
        BY <2>2, <2>3, <3>1 DEF limit, life
    <2> HIDE DEF limit, e
    <2> QED
      BY <2>1, <2>4 DEF limit
  <1>2. ASSUME NEW c \in Callers,
               \/ Begin(c) \/ LookupMiss(c) \/ Offer(c)
               \/ Store(c) \/ StoreRefused(c) \/ Leave(c)
        PROVE  HitAgeWithinTTL'
    <2>1. /\ caller'[c].step # "served"
          /\ \A d \in Callers \ {c} : caller'[d] = caller[d]
      <3>1. CASE Begin(c) \/ LookupMiss(c) \/ Offer(c)
        BY <3>1 DEF Begin, LookupMiss, Offer, Idle
      <3>2. CASE Store(c) \/ StoreRefused(c) \/ Leave(c)
        BY <3>2 DEF Store, StoreRefused, Leave, Idle
      <3> QED
        BY <1>2, <3>1, <3>2
    <2> QED
      BY <2>1
  <1>3. CASE Invalidate \/ Tick \/ UNCHANGED callersVars
    BY <1>3 DEF Invalidate, Tick, callersVars
  <1> QED
    BY <1>1, <1>2, <1>3 DEF CallersNext

(* Every step keeps the invariant.                                         *)
LEMMA CallersStepInv == CallersInv /\ [CallersNext]_callersVars => CallersInv'
  BY CallersStepTypeOK, StepMap, StepInstantsArePast, StepOnePerScope,
     StepLooks, StepFreshByGeneration, StepHitAge DEF CallersInv

(* The invariant holds throughout.                                         *)
LEMMA CallersInvariant == CallersSpec => []CallersInv
  BY CallersInitInv, CallersStepInv, PTL DEF CallersSpec

----------------------------------------------------------------------------
(* What the runs check, for every instance.                                *)

(* Type correctness of the cache and its callers (command_cache.go).       *)
THEOREM CallersTypeCorrect == CallersSpec => []CallersTypeOK
  <1>1. CallersInv => CallersTypeOK
    BY DEF CallersInv
  <1> QED
    BY CallersInvariant, <1>1, PTL

(* The map never outgrows maxCommandCacheEntries: a put prunes, then       *)
(* evicts at most one entry (command_cache.go:75-79), and that is enough.  *)
THEOREM CacheNeverOutgrows == CallersSpec => []CacheBounded
  <1>1. CallersInv => CacheBounded
    BY DEF CallersInv, FewEntries
  <1> QED
    BY CallersInvariant, <1>1, PTL

(* No hit is older than the lifetime asked for or than 60 s, nor from the  *)
(* future, whatever the product with time.Second wraps around to.          *)
THEOREM HitsAreYoung == CallersSpec => []HitAgeWithinTTL
  <1>1. CallersInv => HitAgeWithinTTL
    BY DEF CallersInv
  <1> QED
    BY CallersInvariant, <1>1, PTL

(* Nothing looked for before the last invalidation is stored               *)
(* (putIfGeneration, command_cache.go:54-82).                              *)
THEOREM NothingStaleIsStored == CallersSpec => []NoStaleEntry
  <1>1. CallersInv => NoStaleEntry
    BY DEF CallersInv
  <1> QED
    BY CallersInvariant, <1>1, PTL

(* A live entry is lost only to an invalidation, or to a put that needs    *)
(* its place and finds none older (command_cache.go:98-117).               *)
THEOREM OnlyTheOldestIsEvicted == CallersSpec => EvictsOnlyTheOldest
  <1> DEFINE Evicts ==
        \A k \in DOMAIN entries \ DOMAIN entries' :
          \/ Expired(entries[k], clock)
          \/ generation' # generation
          \/ /\ Cardinality(DOMAIN entries') = MaxEntries
             /\ \A j \in DOMAIN entries \cap DOMAIN entries' :
                   entries[k].storedAt <= entries[j].storedAt
  <1>1. ASSUME CallersInv, CallersNext
        PROVE  Evicts
    <2>0. /\ clock \in Nat
          /\ \A k \in DOMAIN entries : entries[k].expiresAt \in Nat
          /\ \A c \in Callers : caller[c].now \in Nat /\ caller[c].now <= clock
      BY <1>1 DEF CallersInv, CallersTypeOK, CacheTypeOK, InstantsArePast
    <2>1. CASE UNCHANGED <<entries, generation>>
      BY <2>1
    <2>2. ASSUME NEW c \in Callers, LookupMiss(c)
          PROVE  Evicts
      <3>1. caller[c].key \in DOMAIN entries =>
               Expired(entries[caller[c].key], caller[c].now)
        BY <2>2 DEF LookupMiss, CacheMiss
      <3>2. DOMAIN entries' = DOMAIN entries \ {caller[c].key}
        BY <2>2, MissFacts
      <3>3. ASSUME NEW k \in DOMAIN entries \ DOMAIN entries'
            PROVE  Expired(entries[k], clock)
        BY <2>0, <3>1, <3>2 DEF Expired
      <3> QED
        BY <3>3
    <2>3. ASSUME NEW c \in Callers, Store(c)
          PROVE  Evicts
      <3> DEFINE me == caller[c]
      <3>1. PICK e : entries' \in PutResults(entries, me.key, e, me.now)
        BY <2>3 DEF Store, PutAccepted
      <3>2. /\ IsFiniteSet(DOMAIN entries)
            /\ Cardinality(DOMAIN entries) <= MaxEntries
            /\ me.key \notin DOMAIN entries
        BY <1>1, <2>3 DEF CallersInv, FewEntries, CacheBounded, AbsentAfterMiss,
           HasMissed, Store
      <3>3. \A k \in DOMAIN entries \ DOMAIN entries' :
              \/ Expired(entries[k], me.now)
              \/ /\ Cardinality(DOMAIN entries') = MaxEntries
                 /\ \A j \in DOMAIN entries \cap DOMAIN entries' :
                       entries[k].storedAt <= entries[j].storedAt
        BY ONLY <3>1, <3>2, PutEvictsTheOldest
      <3>4. \A k \in DOMAIN entries : Expired(entries[k], me.now) => Expired(entries[k], clock)
        BY <2>0 DEF Expired
      <3> QED
        BY <3>3, <3>4
    <2>4. CASE Invalidate
      BY <1>1, <2>4 DEF Invalidate, InvalidateAll, CallersInv, CallersTypeOK, CacheTypeOK
    <2> QED
      BY <1>1, <2>1, <2>2, <2>3, <2>4, MapSteps
  <1>2. CallersInv /\ [CallersNext]_callersVars => [Evicts]_callersVars
    BY <1>1
  <1> QED
    BY CallersInvariant, <1>2, PTL DEF CallersSpec, EvictsOnlyTheOldest

----------------------------------------------------------------------------
(* The refinement of Memo.                                                 *)

(* What Memo remembers: the answers, without their instants.               *)
Remembered == [k \in DOMAIN entries |-> entries[k].response]

(* Each step of the cache is a step of Memo under the mapping, or none: a  *)
(* miss is a Look that may forget, an accepted put is a Remember (whose    *)
(* guard, that no reset came between, is what FreshByGeneration gives), an *)
(* invalidation is a Reset.                                                *)
LEMMA StepIsMemoStep ==
    CallersInv /\ [CallersNext]_callersVars => [Promise!MemoNext]_(Promise!memoVars)
  <1> SUFFICES ASSUME CallersInv, [CallersNext]_callersVars,
                      ~ UNCHANGED <<Remembered, fresh>>
               PROVE  Promise!MemoNext
    BY DEF Promise!memoVars, Remembered
  <1>a. CallersInv
    OBVIOUS
  <1>1. entries' = entries => Remembered' = Remembered
    BY DEF Remembered
  <1>2. ASSUME NEW c \in Callers, entries' = entries, fresh' = fresh \ {c}
        PROVE  Promise!GiveUp(c)
    BY <1>1, <1>2 DEF Promise!GiveUp, Remembered
  <1>3. ASSUME NEW c \in Callers, LookupMiss(c) PROVE Promise!Look(c)
    <2>1. Promise!Keeps(Remembered, Remembered', DOMAIN entries')
      BY <1>3, MissFacts DEF Promise!Keeps, Remembered
    <2>2. DOMAIN entries' \in SUBSET DOMAIN Remembered
      BY <1>3, MissFacts DEF Remembered
    <2>3. fresh' = fresh \cup {c}
      BY <1>3 DEF LookupMiss
    <2> QED
      BY <2>1, <2>2, <2>3 DEF Promise!Look, Remembered
  <1>4. ASSUME NEW c \in Callers, Store(c)
        PROVE  Promise!MemoNext
    <2>1. /\ c \in fresh
          /\ fresh' = fresh \ {c}
      BY <1>4, StoreFacts DEF Store
    <2>2. /\ DOMAIN Remembered' \subseteq DOMAIN Remembered \cup {caller[c].key}
          /\ caller[c].key \in DOMAIN Remembered'
          /\ Remembered'[caller[c].key] = generation
          /\ \A j \in DOMAIN Remembered' \ {caller[c].key} : Remembered'[j] = Remembered[j]
      <3>1. /\ caller[c].key \in DOMAIN entries'
            /\ entries'[caller[c].key].response = generation
            /\ DOMAIN entries' \subseteq DOMAIN entries \cup {caller[c].key}
            /\ \A k \in DOMAIN entries' \ {caller[c].key} : entries'[k] = entries[k]
        <4>1. entries'[caller[c].key] =
                [storedAt  |-> caller[c].now,
                 expiresAt |-> caller[c].now + Seconds(caller[c].key.ttl),
                 response  |-> generation]
          BY ONLY <1>a, <1>4, StoreFacts
        <4>2. /\ caller[c].key \in DOMAIN entries'
              /\ DOMAIN entries' \subseteq DOMAIN entries \cup {caller[c].key}
              /\ \A k \in DOMAIN entries' \ {caller[c].key} : entries'[k] = entries[k]
              /\ UNCHANGED <<generation, clock>>
          BY ONLY <1>a, <1>4, StoreFacts
        <4> QED
          BY ONLY <4>1, <4>2
      <3> QED
        BY <3>1 DEF Remembered
    <2>3. PICK k \in Keys, v \in Answers : k = caller[c].key /\ v = generation
      BY DEF CallersInv, CallersTypeOK, CacheTypeOK, Answers
    <2>4. Promise!Remember(c, k, v)
      BY <2>1, <2>2, <2>3 DEF Promise!Remember, Remembered
    <2> QED
      BY <2>4 DEF Promise!MemoNext
  <1>5. CASE Invalidate
    <2>1. Remembered' = [k \in {} |-> 0] /\ fresh' = {}
      BY <1>5 DEF Invalidate, InvalidateAll, NoEntries, Remembered
    <2> QED
      BY <2>1 DEF Promise!MemoNext, Promise!Reset, Remembered
  <1>6. ASSUME NEW c \in Callers, StoreRefused(c) \/ Leave(c)
        PROVE  Promise!GiveUp(c)
    BY <1>2, <1>6 DEF StoreRefused, PutRefused, Leave, cacheVars
  <1>7. ASSUME NEW c \in Callers, Begin(c) \/ LookupHit(c) \/ Offer(c)
        PROVE  FALSE
    BY <1>1, <1>7 DEF Begin, LookupHit, CacheHit, cacheVars, Offer
  <1>8. ASSUME Tick \/ UNCHANGED callersVars
        PROVE  FALSE
    BY <1>1, <1>8 DEF Tick, callersVars
  <1>10. CASE CallersNext
    <2>1. ASSUME NEW c \in Callers, Promise!Look(c) \/ Promise!GiveUp(c)
          PROVE  Promise!MemoNext
      BY <2>1 DEF Promise!MemoNext
    <2>2. CASE Invalidate
      BY <1>5, <2>2
    <2> QED
      BY <1>3, <1>4, <1>6, <1>7, <1>8, <1>10, <2>1, <2>2 DEF CallersNext
  <1> QED
    BY <1>8, <1>10

(* The cache keeps the promise of its comments: "a miss can later be       *)
(* stored only if no uncached command invalidated the cache in the         *)
(* meantime" (command_cache.go:32-34).                                     *)
THEOREM CacheKeepsItsPromise == CallersSpec => ImplementsMemo
  <1>1. CallersInit => Promise!MemoInit
    BY DEF CallersInit, CacheInit, NoEntries, Promise!MemoInit
  <1> QED
    BY <1>1, CallersInvariant, StepIsMemoStep, PTL
    DEF CallersSpec, ImplementsMemo, Promise!MemoSpec
=============================================================================
