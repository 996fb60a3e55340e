------------------------- MODULE CommandCacheProofs -------------------------
(* Facts about the operators of CommandCache, for any contents of the map. *)
EXTENDS CommandCache, DurationsProofs, FiniteSetTheorems

(* Putting an entry adds at most that entry; whatever else is in the map   *)
(* afterwards was in it before (command_cache.go:75-79).                   *)
LEMMA PutAddsOneEntry ==
    ASSUME NEW es, NEW key, NEW entry, NEW now,
           NEW result \in PutResults(es, key, entry, now)
    PROVE  /\ key \in DOMAIN result
           /\ result[key] = entry
           /\ DOMAIN result \subseteq DOMAIN es \cup {key}
           /\ \A k \in DOMAIN result \ {key} : result[k] = es[k]
  <1> DEFINE kept == PruneExpired(es, now)
  <1>1. /\ DOMAIN kept \subseteq DOMAIN es
        /\ \A k \in DOMAIN kept : kept[k] = es[k]
    BY DEF PruneExpired, Restrict
  <1>2. CASE result = WithEntry(kept, key, entry)
    BY <1>1, <1>2 DEF WithEntry
  <1>3. CASE \E old \in OldestKeys(kept) :
                result = WithEntry(Without(kept, old), key, entry)
    <2>1. PICK old : result = WithEntry(Without(kept, old), key, entry)
      BY <1>3
    <2>2. /\ DOMAIN Without(kept, old) \subseteq DOMAIN es
          /\ \A k \in DOMAIN Without(kept, old) : Without(kept, old)[k] = es[k]
      BY <1>1 DEF Without, Restrict
    <2> QED
      BY <2>1, <2>2 DEF WithEntry
  <1> QED
    BY <1>2, <1>3 DEF PutResults

(* Deleting one key leaves the others as they were.                        *)
LEMMA WithoutKeepsTheRest ==
    ASSUME NEW es, NEW key
    PROVE  /\ DOMAIN Without(es, key) = DOMAIN es \ {key}
           /\ \A k \in DOMAIN Without(es, key) : Without(es, key)[k] = es[k]
  BY DEF Without, Restrict

(* A put into a map within its bound leaves it within its bound.           *)
LEMMA PutStaysBounded ==
    ASSUME NEW es, NEW key, NEW entry, NEW now,
           IsFiniteSet(DOMAIN es), Cardinality(DOMAIN es) <= MaxEntries,
           NEW result \in PutResults(es, key, entry, now)
    PROVE  /\ IsFiniteSet(DOMAIN result)
           /\ Cardinality(DOMAIN result) <= MaxEntries
  <1> DEFINE kept == PruneExpired(es, now)
             rest(old) == DOMAIN kept \ {old}
  <1>1. DOMAIN kept \subseteq DOMAIN es
    BY DEF PruneExpired, Restrict
  <1>2. /\ IsFiniteSet(DOMAIN kept)
        /\ Cardinality(DOMAIN kept) \in Nat
        /\ Cardinality(DOMAIN kept) <= MaxEntries
    <2>1. Cardinality(DOMAIN es) \in Nat
      BY FS_CardinalityType
    <2> QED
      BY <1>1, <2>1, FS_Subset, FS_CardinalityType, CacheLimits
  <1>3. CASE key \notin DOMAIN kept /\ Cardinality(DOMAIN kept) >= MaxEntries
    <2>1. PICK old \in DOMAIN kept :
             result = WithEntry(Without(kept, old), key, entry)
      BY <1>3 DEF PutResults, OldestKeys
    <2>2. DOMAIN result = rest(old) \cup {key}
      BY <2>1 DEF WithEntry, Without, Restrict
    <2>3. /\ IsFiniteSet(rest(old))
          /\ Cardinality(rest(old)) = Cardinality(DOMAIN kept) - 1
      BY <1>2, FS_RemoveElement
    <2>4. Cardinality(DOMAIN result) = Cardinality(rest(old)) + 1
      BY <1>3, <2>2, <2>3, FS_AddElement
    <2>5. IsFiniteSet(DOMAIN result)
      BY <2>2, <2>3, FS_AddElement
    <2> QED
      BY <1>2, <2>3, <2>4, <2>5
  <1>4. CASE ~ (key \notin DOMAIN kept /\ Cardinality(DOMAIN kept) >= MaxEntries)
    <2>1. DOMAIN result = DOMAIN kept \cup {key}
      BY <1>4 DEF PutResults, WithEntry
    <2>2. /\ IsFiniteSet(DOMAIN result)
          /\ Cardinality(DOMAIN result) =
                IF key \in DOMAIN kept THEN Cardinality(DOMAIN kept)
                                       ELSE Cardinality(DOMAIN kept) + 1
      BY <1>2, <2>1, FS_AddElement
    <2> QED
      BY <1>2, <1>4, <2>2, CacheLimits
  <1> QED
    BY <1>3, <1>4

(* A put under a new key removes what has expired and, from a map that is  *)
(* then still full, one entry that is not younger than any it keeps.       *)
LEMMA PutEvictsTheOldest ==
    ASSUME NEW es, NEW key, NEW entry, NEW now,
           IsFiniteSet(DOMAIN es), Cardinality(DOMAIN es) <= MaxEntries,
           key \notin DOMAIN es,
           NEW result \in PutResults(es, key, entry, now),
           NEW k \in DOMAIN es \ DOMAIN result
    PROVE  \/ Expired(es[k], now)
           \/ /\ Cardinality(DOMAIN result) = MaxEntries
              /\ \A j \in DOMAIN es \cap DOMAIN result :
                    es[k].storedAt <= es[j].storedAt
  <1> DEFINE kept == PruneExpired(es, now)
  <1>1. /\ DOMAIN kept = {j \in DOMAIN es : ~ Expired(es[j], now)}
        /\ \A j \in DOMAIN kept : kept[j] = es[j]
    BY DEF PruneExpired, Restrict
  <1>2. SUFFICES ASSUME k \in DOMAIN kept
                 PROVE  /\ Cardinality(DOMAIN result) = MaxEntries
                        /\ \A j \in DOMAIN es \cap DOMAIN result :
                              es[k].storedAt <= es[j].storedAt
    BY <1>1
  <1>3. Cardinality(DOMAIN kept) >= MaxEntries
    BY <1>2 DEF PutResults, WithEntry
  <1>4. PICK old \in OldestKeys(kept) :
           result = WithEntry(Without(kept, old), key, entry)
    BY <1>1, <1>3 DEF PutResults
  <1>5. /\ DOMAIN result = (DOMAIN kept \ {old}) \cup {key}
        /\ old \in DOMAIN kept
    BY <1>4 DEF WithEntry, Without, Restrict, OldestKeys
  <1>6. k = old
    BY <1>2, <1>5
  <1>7. Cardinality(DOMAIN result) = MaxEntries
    <2>1. /\ IsFiniteSet(DOMAIN kept)
          /\ Cardinality(DOMAIN kept) \in Nat
          /\ Cardinality(DOMAIN kept) <= MaxEntries
      <3>1. Cardinality(DOMAIN es) \in Nat
        BY FS_CardinalityType
      <3>2. DOMAIN kept \subseteq DOMAIN es
        BY <1>1
      <3> QED
        BY <3>1, <3>2, FS_Subset, FS_CardinalityType, CacheLimits
    <2>2. /\ IsFiniteSet(DOMAIN kept \ {old})
          /\ Cardinality(DOMAIN kept \ {old}) = Cardinality(DOMAIN kept) - 1
      BY <1>5, <2>1, FS_RemoveElement
    <2>3. key \notin DOMAIN kept
      BY <1>1
    <2>4. Cardinality(DOMAIN result) = Cardinality(DOMAIN kept \ {old}) + 1
      BY <1>5, <2>2, <2>3, FS_AddElement
    <2> QED
      BY <1>3, <2>1, <2>2, <2>4, CacheLimits
  <1>8. \A j \in DOMAIN kept : es[k].storedAt <= es[j].storedAt
    BY <1>1, <1>2, <1>4, <1>6 DEF OldestKeys
  <1> QED
    BY <1>1, <1>5, <1>7, <1>8
=============================================================================
