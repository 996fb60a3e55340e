------------------------- MODULE CommandServerProofs -------------------------
(* Theorems about the command endpoint, for every number of requests,      *)
(* sessions, directories and entries.                                      *)
EXTENDS CommandServer, CommandCacheProofs

(* A process that has just started is in a state of the declared types.    *)
LEMMA InitTypeOK == Init => TypeOK
  <1> SUFFICES ASSUME Init PROVE TypeOK
    OBVIOUS
  <1> USE SessionAssumptions, ServerAssumptions DEF Init
  <1>1. SessionTypeOK(Requests)
    BY DEF SessionInit, SessionTypeOK, EmptyDirs, DirMaps
  <1>2. resp \in [Requests -> Response]
    BY DEF NoResponse, Response
  <1>3. generation \in Nat /\ DOMAIN entries = {}
    BY DEF CacheInit, NoEntries
  <1> QED
    BY <1>1, <1>2, <1>3 DEF TypeOK, Steps

(* Every step of the handler, of the clock and of a restart keeps them.    *)
LEMMA StepTypeOK == TypeOK /\ [Next]_vars => TypeOK'
  <1> SUFFICES ASSUME TypeOK, [Next]_vars PROVE TypeOK'
    OBVIOUS
  <1> USE SessionAssumptions, ServerAssumptions
      DEF TypeOK, SessionTypeOK, Moves, Goto, Steps, Active, requestVars,
          worldVars, cacheVars, sessionVars
  <1>1. ASSUME NEW r \in Requests, Accept(r) PROVE TypeOK'
    BY <1>1 DEF Accept
  <1>2. ASSUME NEW r \in Requests, Refuse(r) PROVE TypeOK'
    BY <1>2 DEF Refuse, Refusal
  <1>3. ASSUME NEW r \in Requests, NoLock(r) PROVE TypeOK'
    BY <1>3 DEF NoLock
  <1>4. ASSUME NEW r \in Requests, SeekLock(r) PROVE TypeOK'
    BY <1>4 DEF SeekLock, FindLock
  <1>5. ASSUME NEW r \in Requests, TakeLock(r) PROVE TypeOK'
    BY <1>5 DEF TakeLock, LockSession
  <1>6. ASSUME NEW r \in Requests, Prepare(r) PROVE TypeOK'
    BY <1>6 DEF Prepare, AfterPrepare, AfterLookup, SessionDir, Resolve, DirMaps
  <1>7. ASSUME NEW r \in Requests, PrepareFails(r) PROVE TypeOK'
    BY <1>7 DEF PrepareFails, SetResp, Failure, Response
  <1>8. ASSUME NEW r \in Requests, LookupHit(r) PROVE TypeOK'
    BY <1>8 DEF LookupHit, SetResp, CacheHit
  <1>9. ASSUME NEW r \in Requests, LookupMiss(r) PROVE TypeOK'
    <2>1. \A k \in DOMAIN entries' : entries'[k].response \in Response
      <3>1. entries' = Without(entries, KeyOf(r))
        BY <1>9 DEF LookupMiss, CacheMiss
      <3>2. \A k \in DOMAIN entries' :
               k \in DOMAIN entries /\ entries'[k] = entries[k]
        BY ONLY <3>1, WithoutKeepsTheRest
      <3> QED
        BY <3>2
    <2> QED
      BY <1>9, <2>1 DEF LookupMiss, AfterLookup, CacheMiss
  <1>10. ASSUME NEW r \in Requests, InvalidateBefore(r) PROVE TypeOK'
    BY SMTT(30), <1>10 DEF InvalidateBefore, AfterLookup, InvalidateAll, NoEntries
  <1>11. ASSUME NEW r \in Requests, Download(r) PROVE TypeOK'
    BY <1>11 DEF Download
  <1>12. ASSUME NEW r \in Requests, DownloadFails(r) PROVE TypeOK'
    BY <1>12 DEF DownloadFails, SetResp, Failure, Response
  <1>13. ASSUME NEW r \in Requests, StartCommand(r) PROVE TypeOK'
    BY <1>13 DEF StartCommand, SetResp, Response
  <1>14. ASSUME NEW r \in Requests, StartFails(r) PROVE TypeOK'
    BY <1>14 DEF StartFails, SetResp, Failure, Response
  <1>15. ASSUME NEW r \in Requests, Write(r) PROVE TypeOK'
    BY <1>15 DEF Write
  <1>16. ASSUME NEW r \in Requests, Finish(r) PROVE TypeOK'
    BY <1>16 DEF Finish, SetResp, Response, AfterExecute
  <1>17. ASSUME NEW r \in Requests, InvalidateAfter(r) PROVE TypeOK'
    BY SMTT(30), <1>17 DEF InvalidateAfter, InvalidateAll, NoEntries
  <1>18. ASSUME NEW r \in Requests, SetSession(r) PROVE TypeOK'
    BY <1>18 DEF SetSession, AfterSet, SetNothing, SetMemory, DirMaps, Response
  <1>19. ASSUME NEW r \in Requests, Persist(r) PROVE TypeOK'
    <2>1. pc' \in [Requests -> Steps]
      BY <1>19 DEF Persist, AfterSet
    <2>2. ASSUME WriteTmp PROVE SessionTypeOK(Requests)'
      BY <2>2 DEF WriteTmp
    <2>3. ASSUME RenameTmp PROVE SessionTypeOK(Requests)'
      BY <2>3 DEF RenameTmp
    <2>4. SessionTypeOK(Requests)'
      BY <1>19, <2>2, <2>3 DEF Persist
    <2> QED
      BY <1>19, <2>1, <2>4 DEF Persist
  <1>20. ASSUME NEW r \in Requests, PersistFails(r) PROVE TypeOK'
    <2>1. pc' \in [Requests -> Steps]
      BY <1>20 DEF PersistFails, AfterSet
    <2>2. ASSUME WriteTmpFails PROVE SessionTypeOK(Requests)'
      BY <2>2 DEF WriteTmpFails
    <2>3. ASSUME RenameFails PROVE SessionTypeOK(Requests)'
      BY <2>3 DEF RenameFails
    <2>4. SessionTypeOK(Requests)'
      BY <1>20, <2>2, <2>3 DEF PersistFails
    <2> QED
      BY <1>20, <2>1, <2>4 DEF PersistFails
  <1>21. ASSUME NEW r \in Requests, Store(r) PROVE TypeOK'
    <2>1. CASE PutRefused(Seconds(req[r].ttl), gen[r])
      BY <1>21, <2>1 DEF Store, PutRefused
    <2>2. CASE PutAccepted(KeyOf(r), resp[r], Seconds(req[r].ttl), gen[r], clock)
      <3>1. NewEntry(resp[r], Seconds(req[r].ttl), clock).response = resp[r]
        BY DEF NewEntry
      <3>2. \A k \in DOMAIN entries' : entries'[k].response \in Response
        BY <2>2, <3>1, PutAddsOneEntry DEF PutAccepted
      <3> QED
        BY <1>21, <2>2, <3>2 DEF Store, PutAccepted
    <2> QED
      BY <1>21, <2>1, <2>2 DEF Store
  <1>22. ASSUME NEW r \in Requests, Respond(r) PROVE TypeOK'
    BY <1>22 DEF Respond, Larger
  <1>23. ASSUME NEW r \in Requests, Unlock(r) PROVE TypeOK'
    BY <1>23 DEF Unlock, UnlockSession
  <1>24. CASE Tick
    BY <1>24 DEF Tick
  <1>25. CASE Restart
    <2>1. pc' \in [Requests -> Steps]
      BY <1>25 DEF Restart
    <2>2. SessionTypeOK(Requests)'
      BY <1>25 DEF Restart, LoadSessions
    <2> QED
      BY <1>25, <2>1, <2>2 DEF Restart, NoEntries
  <1>26. CASE UNCHANGED vars
    BY <1>26 DEF vars
  <1> QED
    BY <1>1, <1>2, <1>3, <1>4, <1>5, <1>6, <1>7, <1>8, <1>9, <1>10, <1>11, <1>12, <1>13, <1>14, <1>15, <1>16, <1>17, <1>18, <1>19, <1>20, <1>21, <1>22, <1>23, <1>24, <1>25, <1>26 DEF Next, Step

(* Type correctness: in particular every cached entry holds a response, a  *)
(* lock is held by a request or by nobody, and only the statuses of        *)
(* runCommand are answered.                                                *)
THEOREM TypeCorrect == Spec => []TypeOK
  BY InitTypeOK, StepTypeOK, PTL DEF Spec

----------------------------------------------------------------------------
(* Freshness of the cache.                                                 *)

(* Past its second invalidation, or never in need of one.                  *)
Sealed(w) == pc[w] \in {"set", "tmp", "rename", "answer", "unlock", "done"}

(* A result that reflects every sealed and every answered write.           *)
UpToDate(response) ==
    /\ acked <= response.seen
    /\ \A w \in Requests : Sealed(w) => wrote[w] <= response.seen

(* r holds the generation of its lookup.                                   *)
LookedUp(r) ==
    /\ pc[r] \in {"download", "start", "run", "set", "tmp", "rename", "put"}
    /\ Cacheable(req[r]) /\ HasScope(req[r])

(* r holds a result it may still store.                                    *)
MayStore(r) ==
    /\ pc[r] \in {"run", "set", "tmp", "rename", "put"}
    /\ Cacheable(req[r]) /\ HasScope(req[r])
    /\ gen[r] = generation

(* Versions known to the history variables are versions of the world.      *)
Versions == /\ acked <= world
            /\ \A r \in Requests : wrote[r] <= world /\ floor[r] <= acked

(* Only uncached commands that were started have written.                  *)
WritersAreUncached ==
    \A r \in Requests : wrote[r] # 0 =>
        /\ pc[r] \in {"run", "after", "set", "tmp", "rename", "answer",
                      "unlock", "done", "lost"}
        /\ ~ Cacheable(req[r])

(* The branches of the handler follow the kind of request.                 *)
Branches ==
    \A r \in Requests :
        /\ pc[r] \in {"before", "after"} => ~ Cacheable(req[r])
        /\ pc[r] = "put" => Cacheable(req[r]) /\ HasScope(req[r])

GenerationsArePast ==
    \A r \in Requests : LookedUp(r) => gen[r] <= generation

EntriesUpToDate ==
    \A k \in DOMAIN entries : UpToDate(entries[k].response)

StorableUpToDate == \A r \in Requests : MayStore(r) => UpToDate(resp[r])

HitsSawTheirFloor ==
    \A r \in Requests : resp[r].by \notin {r, Nobody} =>
        /\ pc[r] \in {"answer", "unlock", "done", "lost"}
        /\ floor[r] <= resp[r].seen

(* The inductive invariant.  CacheIsFresh says of what is stored or may be *)
(* stored that it saw the sealed writes; to keep it, a command that starts *)
(* must have seen them (Versions), a result that is not up to date must    *)
(* hold an old generation (GenerationsArePast: InvalidateAfter makes every *)
(* generation in hand an old one), and a hit must take over what its entry *)
(* saw (HitsSawTheirFloor).                                                *)
FreshInv == /\ TypeOK
            /\ Versions
            /\ WritersAreUncached
            /\ Branches
            /\ GenerationsArePast
            /\ EntriesUpToDate
            /\ StorableUpToDate
            /\ HitsSawTheirFloor

(* With an empty cache and no request under way there is nothing stale.    *)
LEMMA InitFresh == Init => FreshInv
  BY InitTypeOK, ServerAssumptions
  DEF Init, FreshInv, Versions, WritersAreUncached, Branches, GenerationsArePast,
      EntriesUpToDate, StorableUpToDate, HitsSawTheirFloor, LookedUp,
      MayStore, NoResponse, CacheInit, NoEntries

(* Writing the session down touches neither the cache nor its users.       *)
LEMMA SavingKeepsFresh ==
    ASSUME FreshInv, TypeOK', NEW r \in Requests,
           NEW step \in {"tmp", "rename", "put", "answer"},
           pc[r] \in {"set", "tmp", "rename"},
           pc' = [pc EXCEPT ![r] = step],
           step = "put" => Cacheable(req[r]) /\ HasScope(req[r]),
           UNCHANGED <<requestVars, worldVars, cacheVars>>
    PROVE  FreshInv'
  <1> USE DEF FreshInv, TypeOK, requestVars, worldVars, cacheVars
  <1>1. Versions'
    BY DEF Versions
  <1>2. WritersAreUncached'
    BY DEF WritersAreUncached
  <1>3. Branches'
    BY DEF Branches
  <1>4. GenerationsArePast'
    BY DEF GenerationsArePast, LookedUp
  <1>5. \A q \in Requests : wrote[q] # 0 => (Sealed(q)' => Sealed(q))
    BY DEF Sealed
  <1>6. \A x : x.seen \in Nat /\ UpToDate(x) => UpToDate(x)'
    BY <1>5 DEF UpToDate
  <1>7. EntriesUpToDate'
    BY <1>6 DEF EntriesUpToDate, Response
  <1>8. StorableUpToDate'
    BY <1>6 DEF StorableUpToDate, MayStore, Response
  <1>9. HitsSawTheirFloor'
    BY DEF HitsSawTheirFloor
  <1> QED
    BY <1>1, <1>2, <1>3, <1>4, <1>7, <1>8, <1>9

(* Every step keeps the cache and the results on their way to it fresh.    *)
LEMMA StepFresh == FreshInv /\ [Next]_vars => FreshInv'
  <1> SUFFICES ASSUME FreshInv, [Next]_vars PROVE FreshInv'
    OBVIOUS
  <1>0. TypeOK /\ TypeOK'
    BY StepTypeOK DEF FreshInv
  <1> USE <1>0, ServerAssumptions
      DEF FreshInv, Versions, WritersAreUncached, Branches, GenerationsArePast,
          EntriesUpToDate, StorableUpToDate, HitsSawTheirFloor, LookedUp,
          MayStore, UpToDate, Sealed, TypeOK, Response, Moves, Goto,
          requestVars, worldVars, cacheVars, Cacheable, HasScope
  <1>1. ASSUME NEW r \in Requests, Accept(r) PROVE FreshInv'
    BY <1>1 DEF Accept
  <1>2. ASSUME NEW r \in Requests, Refuse(r) PROVE FreshInv'
    BY <1>2 DEF Refuse
  <1>3. ASSUME NEW r \in Requests, NoLock(r) PROVE FreshInv'
    BY <1>3 DEF NoLock
  <1>4. ASSUME NEW r \in Requests, SeekLock(r) PROVE FreshInv'
    BY <1>4 DEF SeekLock, FindLock
  <1>5. ASSUME NEW r \in Requests, TakeLock(r) PROVE FreshInv'
    BY <1>5 DEF TakeLock, LockSession
  <1>6. ASSUME NEW r \in Requests, Prepare(r) PROVE FreshInv'
    BY <1>6 DEF Prepare, AfterPrepare, AfterLookup
  <1>7. ASSUME NEW r \in Requests, PrepareFails(r) PROVE FreshInv'
    BY <1>7 DEF PrepareFails, SetResp, Failure
  <1>8. ASSUME NEW r \in Requests, LookupHit(r) PROVE FreshInv'
    BY <1>8 DEF LookupHit, SetResp, CacheHit
  <1>9. ASSUME NEW r \in Requests, LookupMiss(r) PROVE FreshInv'
    <2>1. entries' = Without(entries, KeyOf(r))
      BY <1>9 DEF LookupMiss, CacheMiss
    <2>2. \A k \in DOMAIN entries' :
             k \in DOMAIN entries /\ entries'[k] = entries[k]
      BY ONLY <2>1, WithoutKeepsTheRest
    <2>3. EntriesUpToDate'
      BY <1>9, <2>2 DEF LookupMiss, AfterLookup
    <2>4. StorableUpToDate'
      BY <1>9 DEF LookupMiss, AfterLookup, CacheMiss
    <2>5. GenerationsArePast'
      BY <1>9 DEF LookupMiss, AfterLookup, CacheMiss
    <2>6. HitsSawTheirFloor' /\ WritersAreUncached' /\ Branches' /\ Versions'
      BY <1>9 DEF LookupMiss, AfterLookup
    <2> QED
      BY <2>3, <2>4, <2>5, <2>6
  <1>10. ASSUME NEW r \in Requests, InvalidateBefore(r) PROVE FreshInv'
    <2>1. DOMAIN entries' = {} /\ generation' = generation + 1
      BY <1>10 DEF InvalidateBefore, InvalidateAll, NoEntries
    <2>2. \A q \in Requests : LookedUp(q)' => LookedUp(q) /\ gen[q]' = gen[q]
      BY <1>10 DEF InvalidateBefore, AfterLookup
    <2>3. GenerationsArePast' /\ StorableUpToDate'
      BY <1>10, <2>1, <2>2 DEF InvalidateBefore, AfterLookup
    <2>4. HitsSawTheirFloor' /\ WritersAreUncached' /\ Branches' /\ Versions'
      BY <1>10 DEF InvalidateBefore, AfterLookup
    <2> QED
      BY <2>1, <2>3, <2>4
  <1>11. ASSUME NEW r \in Requests, Download(r) PROVE FreshInv'
    BY <1>11 DEF Download
  <1>12. ASSUME NEW r \in Requests, DownloadFails(r) PROVE FreshInv'
    BY <1>12 DEF DownloadFails, SetResp, Failure
  <1>13. ASSUME NEW r \in Requests, StartCommand(r) PROVE FreshInv'
    BY <1>13 DEF StartCommand, SetResp
  <1>14. ASSUME NEW r \in Requests, StartFails(r) PROVE FreshInv'
    BY <1>14 DEF StartFails, SetResp, Failure
  <1>15. ASSUME NEW r \in Requests, Write(r) PROVE FreshInv'
    BY <1>15 DEF Write
  <1>16. ASSUME NEW r \in Requests, Finish(r) PROVE FreshInv'
    BY <1>16 DEF Finish, SetResp, AfterExecute
  <1>17. ASSUME NEW r \in Requests, InvalidateAfter(r) PROVE FreshInv'
    <2>1. DOMAIN entries' = {} /\ generation' = generation + 1
      BY <1>17 DEF InvalidateAfter, InvalidateAll, NoEntries
    <2>2. \A q \in Requests : LookedUp(q)' => LookedUp(q) /\ gen[q]' = gen[q]
      BY <1>17 DEF InvalidateAfter
    <2>3. GenerationsArePast' /\ StorableUpToDate'
      BY SMTT(30), <1>17, <2>1, <2>2 DEF InvalidateAfter
    <2>4. HitsSawTheirFloor' /\ WritersAreUncached' /\ Branches' /\ Versions'
      BY <1>17 DEF InvalidateAfter
    <2> QED
      BY <2>1, <2>3, <2>4
  <1>18. ASSUME NEW r \in Requests, SetSession(r) PROVE FreshInv'
    <2>1. UNCHANGED <<requestVars, worldVars, cacheVars>>
      BY ONLY <1>18 DEF SetSession
    <2>2. PICK step \in {"tmp", "rename", "put", "answer"} :
             /\ pc[r] \in {"set", "tmp", "rename"}
             /\ pc' = [pc EXCEPT ![r] = step]
             /\ step = "put" => Cacheable(req[r]) /\ HasScope(req[r])
      BY ONLY <1>18 DEF SetSession, AfterSet, Storable, Moves, Goto
    <2> QED
      BY ONLY <1>0, <2>1, <2>2, FreshInv, SavingKeepsFresh
  <1>19. ASSUME NEW r \in Requests, Persist(r) PROVE FreshInv'
    <2>1. UNCHANGED <<requestVars, worldVars, cacheVars>>
      BY ONLY <1>19 DEF Persist
    <2>2. PICK step \in {"tmp", "rename", "put", "answer"} :
             /\ pc[r] \in {"set", "tmp", "rename"}
             /\ pc' = [pc EXCEPT ![r] = step]
             /\ step = "put" => Cacheable(req[r]) /\ HasScope(req[r])
      BY ONLY <1>19 DEF Persist, AfterSet, Storable, Moves, Goto
    <2> QED
      BY ONLY <1>0, <2>1, <2>2, FreshInv, SavingKeepsFresh
  <1>20. ASSUME NEW r \in Requests, PersistFails(r) PROVE FreshInv'
    <2>1. UNCHANGED <<requestVars, worldVars, cacheVars>>
      BY ONLY <1>20 DEF PersistFails
    <2>2. PICK step \in {"tmp", "rename", "put", "answer"} :
             /\ pc[r] \in {"set", "tmp", "rename"}
             /\ pc' = [pc EXCEPT ![r] = step]
             /\ step = "put" => Cacheable(req[r]) /\ HasScope(req[r])
      BY ONLY <1>20 DEF PersistFails, AfterSet, Storable, Moves, Goto
    <2> QED
      BY ONLY <1>0, <2>1, <2>2, FreshInv, SavingKeepsFresh
  <1>21. ASSUME NEW r \in Requests, Store(r) PROVE FreshInv'
    <2>1. /\ generation' = generation
          /\ \A k \in DOMAIN entries' :
                \/ k \in DOMAIN entries /\ entries'[k] = entries[k]
                \/ entries'[k].response = resp[r] /\ gen[r] = generation
      <3>1. CASE PutRefused(Seconds(req[r].ttl), gen[r])
        BY ONLY <3>1 DEF PutRefused, cacheVars
      <3>2. CASE PutAccepted(KeyOf(r), resp[r], Seconds(req[r].ttl), gen[r], clock)
        <4>1. NewEntry(resp[r], Seconds(req[r].ttl), clock).response = resp[r]
          BY ONLY DEF NewEntry
        <4> QED
          BY ONLY <3>2, <4>1, PutAddsOneEntry DEF PutAccepted
      <3> QED
        BY <1>21, <3>1, <3>2 DEF Store
    <2>2. Cacheable(req[r]) /\ HasScope(req[r])
      BY <1>21 DEF Store
    <2>3. EntriesUpToDate'
      BY <1>21, <2>1, <2>2 DEF Store
    <2>4. GenerationsArePast' /\ StorableUpToDate'
      BY <1>21, <2>1 DEF Store
    <2>5. HitsSawTheirFloor' /\ WritersAreUncached' /\ Branches' /\ Versions'
      BY <1>21 DEF Store
    <2> QED
      BY <2>3, <2>4, <2>5
  <1>22. ASSUME NEW r \in Requests, Respond(r) PROVE FreshInv'
    BY <1>22 DEF Respond, Larger
  <1>23. ASSUME NEW r \in Requests, Unlock(r) PROVE FreshInv'
    BY <1>23 DEF Unlock, UnlockSession
  <1>24. CASE Tick
    BY <1>24 DEF Tick
  <1>25. CASE Restart
    BY <1>25 DEF Restart, NoEntries, Active
  <1>26. CASE UNCHANGED vars
    BY <1>26 DEF vars
  <1> QED
    BY ZenonT(30), <1>1, <1>2, <1>3, <1>4, <1>5, <1>6, <1>7, <1>8, <1>9, <1>10, <1>11, <1>12, <1>13, <1>14, <1>15, <1>16, <1>17, <1>18, <1>19, <1>20, <1>21, <1>22, <1>23, <1>24, <1>25, <1>26 DEF Next, Step

(* An invariant of the cache and its users together: no entry, and no      *)
(* result still on its way to the cache, is older than an uncached command *)
(* that is past its second invalidation.                                   *)
THEOREM CacheStaysFresh == Spec => []CacheIsFresh
  <1>1. FreshInv => CacheIsFresh
    BY DEF FreshInv, EntriesUpToDate, StorableUpToDate, MayStore, UpToDate,
           Sealed, CacheIsFresh, TypeOK, Response
  <1> QED
    BY InitFresh, StepFresh, <1>1, PTL DEF Spec

(* An answer from the cache reflects every command answered before its     *)
(* request arrived.                                                        *)
THEOREM HitsAreNeverStale == Spec => []HitSeesAnsweredWrites
  <1>1. FreshInv => HitSeesAnsweredWrites
    BY DEF FreshInv, HitsSawTheirFloor, HitSeesAnsweredWrites, FromCache,
           TypeOK, Response
  <1> QED
    BY InitFresh, StepFresh, <1>1, PTL DEF Spec

----------------------------------------------------------------------------
(* Sessions: mutual exclusion, the directory handed over, the file.        *)

(* A request between the look-up of its directory and its answer holds the *)
(* lock of its session.                                                    *)
InsideHoldsLock ==
    \A r \in Requests : pc[r] \in Inside /\ req[r].key # NoKey =>
        /\ req[r].key \in SessionKeys
        /\ locks[req[r].key] = r

(* A request that writes sessions.json holds mu, and what it is about to   *)
(* rename is the whole map in memory.                                      *)
WriterHoldsMu ==
    \A r \in Requests :
        /\ pc[r] \in {"tmp", "rename"} => mu = r
        /\ pc[r] = "rename" => tmpFile = dirs

(* The inductive invariant.  Mutual exclusion follows from InsideHoldsLock *)
(* alone; the directory needs it because only the holder of a session's    *)
(* lock sets the directory, and the file needs WriterHoldsMu because only  *)
(* the holder of mu changes the map or the temporary file.                 *)
SessionInv == /\ TypeOK
              /\ InsideHoldsLock
              /\ WriterHoldsMu
              /\ StartIsCurrent
              /\ DiskNeverTorn
              /\ DiskCurrent

(* A key that is not the empty one is the key of a known session.          *)
LEMMA KeysOfRequests ==
    ASSUME TypeOK, NEW r \in Requests, req[r].key # NoKey
    PROVE  req[r].key \in SessionKeys
  <1>1. CASE req[r] = NoInput
    <2>1. NoInput.key = NoKey
      BY DEF NoInput
    <2> QED
      BY <1>1, <2>1
  <1>2. CASE req[r] \in Inputs
    <2> DEFINE Any == [key : SessionKeys \cup {NoKey}, gpt : STRING,
                       dir : Dirs \cup {NoDir}, command : STRING, ttl : Int,
                       files : BOOLEAN, authorized : BOOLEAN,
                       wellFormed : BOOLEAN, origin : BOOLEAN]
    <2>1. req[r] \in Any
      BY <1>2, ServerAssumptions
    <2>2. \A in \in Any : in.key \in SessionKeys \cup {NoKey}
      OBVIOUS
    <2> QED
      BY <2>1, <2>2
  <1> QED
    BY <1>1, <1>2 DEF TypeOK

(* At the start no lock is held and the file agrees with the map.          *)
LEMMA InitSession == Init => SessionInv
  <1> SUFFICES ASSUME Init PROVE SessionInv
    OBVIOUS
  <1>1. TypeOK
    BY InitTypeOK
  <1>2. DiskNeverTorn /\ DiskCurrent
    BY SessionAssumptions
    DEF Init, SessionInit, EmptyDirs, DiskNeverTorn, DiskCurrent
  <1> QED
    BY <1>1, <1>2 DEF Init, SessionInv, InsideHoldsLock, WriterHoldsMu,
       StartIsCurrent, Inside, Active

(* Every step keeps the locks, the directories and the file in agreement.  *)
LEMMA StepSession == SessionInv /\ [Next]_vars => SessionInv'
  <1> SUFFICES ASSUME SessionInv, [Next]_vars PROVE SessionInv'
    OBVIOUS
  <1>0. /\ TypeOK /\ TypeOK'
        /\ \A r \in Requests : req[r].key # NoKey => req[r].key \in SessionKeys
    BY StepTypeOK, KeysOfRequests DEF SessionInv
  <1> USE <1>0, SessionAssumptions, ServerAssumptions
      DEF SessionInv, InsideHoldsLock, WriterHoldsMu, StartIsCurrent,
          DiskNeverTorn, DiskCurrent, Inside, Active, TypeOK, SessionTypeOK,
          DirMaps, Moves, Goto, requestVars, worldVars, cacheVars, sessionVars
  <1>1. ASSUME NEW r \in Requests, Accept(r) PROVE SessionInv'
    BY <1>1 DEF Accept
  <1>2. ASSUME NEW r \in Requests, Refuse(r) PROVE SessionInv'
    BY <1>2 DEF Refuse
  <1>3. ASSUME NEW r \in Requests, NoLock(r) PROVE SessionInv'
    BY <1>3 DEF NoLock
  <1>4. ASSUME NEW r \in Requests, SeekLock(r) PROVE SessionInv'
    BY <1>4 DEF SeekLock, FindLock
  <1>5. ASSUME NEW r \in Requests, TakeLock(r) PROVE SessionInv'
    BY <1>5 DEF TakeLock, LockSession
  <1>6. ASSUME NEW r \in Requests, Prepare(r) PROVE SessionInv'
    BY <1>6 DEF Prepare, AfterPrepare, AfterLookup, SessionDir
  <1>7. ASSUME NEW r \in Requests, PrepareFails(r) PROVE SessionInv'
    BY <1>7 DEF PrepareFails
  <1>8. ASSUME NEW r \in Requests, LookupHit(r) PROVE SessionInv'
    BY <1>8 DEF LookupHit
  <1>9. ASSUME NEW r \in Requests, LookupMiss(r) PROVE SessionInv'
    BY <1>9 DEF LookupMiss, AfterLookup
  <1>10. ASSUME NEW r \in Requests, InvalidateBefore(r) PROVE SessionInv'
    BY <1>10 DEF InvalidateBefore, AfterLookup
  <1>11. ASSUME NEW r \in Requests, Download(r) PROVE SessionInv'
    BY <1>11 DEF Download
  <1>12. ASSUME NEW r \in Requests, DownloadFails(r) PROVE SessionInv'
    BY <1>12 DEF DownloadFails
  <1>13. ASSUME NEW r \in Requests, StartCommand(r) PROVE SessionInv'
    BY <1>13 DEF StartCommand
  <1>14. ASSUME NEW r \in Requests, StartFails(r) PROVE SessionInv'
    BY <1>14 DEF StartFails
  <1>15. ASSUME NEW r \in Requests, Write(r) PROVE SessionInv'
    BY <1>15 DEF Write
  <1>16. ASSUME NEW r \in Requests, Finish(r) PROVE SessionInv'
    BY <1>16 DEF Finish, AfterExecute
  <1>17. ASSUME NEW r \in Requests, InvalidateAfter(r) PROVE SessionInv'
    BY <1>17 DEF InvalidateAfter
  <1>18. ASSUME NEW r \in Requests, SetSession(r) PROVE SessionInv'
    BY <1>18 DEF SetSession, AfterSet, SetNothing, SetMemory
  <1>19. ASSUME NEW r \in Requests, Persist(r) PROVE SessionInv'
    BY <1>19 DEF Persist, AfterSet, WriteTmp, RenameTmp
  <1>20. ASSUME NEW r \in Requests, PersistFails(r) PROVE SessionInv'
    BY <1>20 DEF PersistFails, AfterSet, WriteTmpFails, RenameFails
  <1>21. ASSUME NEW r \in Requests, Store(r) PROVE SessionInv'
    BY <1>21 DEF Store
  <1>22. ASSUME NEW r \in Requests, Respond(r) PROVE SessionInv'
    BY <1>22 DEF Respond
  <1>23. ASSUME NEW r \in Requests, Unlock(r) PROVE SessionInv'
    BY <1>23 DEF Unlock, UnlockSession
  <1>24. CASE Tick
    BY <1>24 DEF Tick
  <1>25. CASE Restart
    BY <1>25 DEF Restart, LoadSessions
  <1>26. CASE UNCHANGED vars
    BY <1>26 DEF vars
  <1> QED
    BY ZenonT(30), <1>1, <1>2, <1>3, <1>4, <1>5, <1>6, <1>7, <1>8, <1>9, <1>10, <1>11, <1>12, <1>13, <1>14, <1>15, <1>16, <1>17, <1>18, <1>19, <1>20, <1>21, <1>22, <1>23, <1>24, <1>25, <1>26 DEF Next, Step

(* The commands of one session run one at a time.                          *)
THEOREM SessionsAreSerial == Spec => []OneCommandPerSession
  <1>1. SessionInv => OneCommandPerSession
    BY DEF SessionInv, InsideHoldsLock, OneCommandPerSession
  <1> QED
    BY InitSession, StepSession, <1>1, PTL DEF Spec

(* A command starts from, and until it sets it nobody moves, the directory *)
(* its predecessor left the session in.                                    *)
THEOREM DirectoryIsHandedOver == Spec => []StartIsCurrent
  <1>1. SessionInv => StartIsCurrent
    BY DEF SessionInv
  <1> QED
    BY InitSession, StepSession, <1>1, PTL DEF Spec

(* sessions.json is whole at every instant, so a restart always loads it   *)
(* (session.go:88-94).                                                     *)
THEOREM SessionFileIsWhole == Spec => []DiskNeverTorn
  <1>1. SessionInv => DiskNeverTorn
    BY DEF SessionInv
  <1> QED
    BY InitSession, StepSession, <1>1, PTL DEF Spec

(* sessions.json is the map in memory whenever no set is under way and the *)
(* last write succeeded (session.go:83-94).                                *)
THEOREM SessionFileIsCurrent == Spec => []DiskCurrent
  <1>1. SessionInv => DiskCurrent
    BY DEF SessionInv
  <1> QED
    BY InitSession, StepSession, <1>1, PTL DEF Spec

----------------------------------------------------------------------------
(* Whose result a hit answers with.                                        *)

(* A response that q produced, may have stored, and is answered or being   *)
(* answered with.                                                          *)
AnswerOf(q, response) ==
    /\ HasScope(req[q]) /\ Cacheable(req[q])
    /\ response.outcome = "ok"
    /\ response.dir = workdir[q]
    /\ \/ pc[q] = "answer" /\ resp[q].outcome = "ok"
       \/ pc[q] \in {"unlock", "done"} /\ status[q] = 200

(* Entries are filed under the key of the request that produced them.      *)
EntriesAreAnswers ==
    \A k \in DOMAIN entries :
        LET response == entries[k].response
            q == response.by
        IN  /\ q \in Requests
            /\ k = KeyOf(q)
            /\ AnswerOf(q, response)

(* Until it is answered, a response is the request's own, or a failure.    *)
Producers ==
    \A r \in Requests :
        /\ resp[r].by \notin {r, Nobody} => pc[r] \in {"answer", "unlock", "done", "lost"}
        /\ resp[r].by = Nobody => resp[r].outcome \in {"none", "error"}

(* What is about to be stored passed the handler's test (server.go:324).   *)
PutsAreStorable == \A r \in Requests : pc[r] = "put" => Storable(r)

(* The inductive invariant.  The producer of a hit has given its session   *)
(* up because the request that hits holds it: hence the locks of           *)
(* SessionInv.                                                             *)
Attributed == /\ EntriesAreAnswers
              /\ Producers
              /\ PutsAreStorable
              /\ HitAnswersTheSameRequest

AnswerInv == SessionInv /\ Attributed

(* Nothing has been answered yet.                                          *)
LEMMA InitAnswer == Init => AnswerInv
  BY InitSession
  DEF Init, AnswerInv, Attributed, EntriesAreAnswers, Producers, PutsAreStorable,
      HitAnswersTheSameRequest, FromCache, NoResponse, CacheInit, NoEntries

(* A step of a request that has not come to its answer: the others stay as *)
(* they are, the cache gains nothing, and the request's response is its    *)
(* own or a failure.                                                       *)
Quiet(r) ==
    /\ pc[r] \notin {"answer", "unlock", "done", "lost"}
    /\ \A q \in Requests \ {r} :
          /\ req'[q] = req[q] /\ pc'[q] = pc[q] /\ status'[q] = status[q]
          /\ workdir'[q] = workdir[q] /\ resp'[q] = resp[q]
    /\ \A k \in DOMAIN entries' : k \in DOMAIN entries /\ entries'[k] = entries[k]
    /\ resp'[r] = resp[r] \/ resp'[r].by = r \/ resp'[r] = Failure
    /\ pc'[r] = "put" => Storable(r)'

(* Such a step disturbs nothing: no entry is the request's, and no hit.    *)
LEMMA QuietKeepsAnswers ==
    ASSUME TypeOK, Attributed, NEW r \in Requests, Quiet(r)
    PROVE  Attributed'
  <1>0. EntriesAreAnswers /\ Producers /\ PutsAreStorable /\ HitAnswersTheSameRequest
    BY DEF Attributed
  <1>1. ASSUME NEW q \in Requests, q # r
        PROVE  /\ req'[q] = req[q] /\ pc'[q] = pc[q] /\ status'[q] = status[q]
               /\ workdir'[q] = workdir[q] /\ resp'[q] = resp[q]
    BY <1>1 DEF Quiet
  <1>2. resp'[r].by \in {r, Nobody}
    <2>1. resp[r].by \in {r, Nobody}
      BY ONLY <1>0, Quiet(r), r \in Requests DEF Producers, Quiet
    <2> QED
      BY ONLY <2>1, Quiet(r) DEF Quiet, Failure
  <1>3. resp'[r].by = Nobody => resp'[r].outcome \in {"none", "error"}
    BY ONLY <1>0, Quiet(r), r \in Requests, ServerAssumptions
    DEF Producers, Quiet, Failure
  <1>4. EntriesAreAnswers'
    <2>1. ASSUME NEW k \in DOMAIN entries', NEW q, NEW response,
                 response = entries'[k].response, q = response.by
          PROVE  q \in Requests /\ k = KeyOf(q)' /\ AnswerOf(q, response)'
      <3>1. k \in DOMAIN entries /\ entries'[k] = entries[k]
        BY ONLY <2>1, Quiet(r) DEF Quiet
      <3>2. q \in Requests /\ k = KeyOf(q) /\ AnswerOf(q, response)
        BY ONLY <1>0, <2>1, <3>1 DEF EntriesAreAnswers, KeyOf, AnswerOf
      <3>3. q # r
        BY ONLY <3>2, Quiet(r) DEF AnswerOf, Quiet
      <3> QED
        BY ONLY <1>1, <3>2, <3>3 DEF KeyOf, AnswerOf
    <2> QED
      BY ONLY <2>1 DEF EntriesAreAnswers, KeyOf, AnswerOf
  <1>5. Producers'
    BY ONLY <1>0, <1>1, <1>2, <1>3 DEF Producers
  <1>6. PutsAreStorable'
    BY ONLY <1>0, <1>1, Quiet(r) DEF PutsAreStorable, Storable, Quiet
  <1>7. HitAnswersTheSameRequest'
    <2>1. ASSUME NEW p \in Requests, FromCache(p)'
          PROVE  p # r /\ FromCache(p) /\ resp'[p] = resp[p]
      BY ONLY <1>1, <1>2, <2>1, r \in Requests DEF FromCache
    <2>2. ASSUME NEW p \in Requests, FromCache(p)
          PROVE  resp[p].by \in Requests /\ resp[p].by # r
      BY ONLY <1>0, <2>2, TypeOK, Quiet(r)
      DEF HitAnswersTheSameRequest, FromCache, TypeOK, Response, Quiet
    <2> QED
      BY ONLY <1>0, <1>1, <2>1, <2>2 DEF HitAnswersTheSameRequest, HasScope, Cacheable
  <1> QED
    BY ONLY <1>4, <1>5, <1>6, <1>7 DEF Attributed

(* A request that leaves keeps its response, and the others are untouched. *)
LEMMA LeavingKeepsAnswers ==
    ASSUME TypeOK, TypeOK', Attributed, NEW r \in Requests,
           \/ /\ pc[r] = "answer" /\ pc' = [pc EXCEPT ![r] = "unlock"]
              /\ status' = [status EXCEPT ![r] =
                              IF resp[r].outcome = "error" THEN 400 ELSE 200]
           \/ /\ pc[r] = "unlock" /\ pc' = [pc EXCEPT ![r] = "done"]
              /\ UNCHANGED status,
           UNCHANGED <<req, workdir, resp, entries>>
    PROVE  Attributed'
  <1>0. EntriesAreAnswers /\ Producers /\ PutsAreStorable /\ HitAnswersTheSameRequest
    BY DEF Attributed
  <1>1. ASSUME NEW q \in Requests, q # r
        PROVE  pc'[q] = pc[q] /\ status'[q] = status[q]
    BY <1>1 DEF TypeOK
  <1>2. \/ /\ pc[r] = "answer" /\ pc'[r] = "unlock"
           /\ resp[r].outcome # "error" => status'[r] = 200
        \/ pc[r] = "unlock" /\ pc'[r] = "done" /\ status'[r] = status[r]
    BY DEF TypeOK
  <1>3. EntriesAreAnswers'
    <2>1. ASSUME NEW k \in DOMAIN entries, NEW q, NEW response,
                 response = entries[k].response, q = response.by
          PROVE  q \in Requests /\ k = KeyOf(q)' /\ AnswerOf(q, response)'
      <3>1. q \in Requests /\ k = KeyOf(q) /\ AnswerOf(q, response)
        BY ONLY <1>0, <2>1 DEF EntriesAreAnswers, KeyOf, AnswerOf
      <3>2. k = KeyOf(q)'
        BY ONLY <3>1, UNCHANGED <<req, workdir, resp, entries>> DEF KeyOf
      <3>3. AnswerOf(q, response)'
        BY ONLY <1>1, <1>2, <3>1, UNCHANGED <<req, workdir, resp, entries>>
        DEF AnswerOf
      <3> QED
        BY ONLY <3>1, <3>2, <3>3
    <2> QED
      BY ONLY <2>1, UNCHANGED <<req, workdir, resp, entries>>
      DEF EntriesAreAnswers, KeyOf, AnswerOf
  <1>4. Producers'
    BY ONLY <1>0, <1>1, <1>2, UNCHANGED <<req, workdir, resp, entries>> DEF Producers
  <1>5. PutsAreStorable'
    BY ONLY <1>0, <1>1, <1>2, UNCHANGED <<req, workdir, resp, entries>>
    DEF PutsAreStorable, Storable
  <1>6. HitAnswersTheSameRequest'
    <2>1. ASSUME NEW p \in Requests, FromCache(p)'
          PROVE  FromCache(p)
      BY ONLY <1>1, <1>2, <2>1, UNCHANGED <<req, workdir, resp, entries>> DEF FromCache
    <2>2. ASSUME NEW p \in Requests, FromCache(p)
          PROVE  resp[p].by \in Requests /\ resp[p].by # r
      BY ONLY <1>0, <1>2, <2>2, TypeOK
      DEF HitAnswersTheSameRequest, FromCache, TypeOK, Response
    <2> QED
      BY ONLY <1>0, <1>1, <2>1, <2>2, UNCHANGED <<req, workdir, resp, entries>>
      DEF HitAnswersTheSameRequest, HasScope, Cacheable
  <1> QED
    BY ONLY <1>3, <1>4, <1>5, <1>6 DEF Attributed

(* The steps before the answer other than a look-up that hits and a put.   *)
LEMMA QuietSteps ==
    ASSUME TypeOK, TypeOK', PutsAreStorable, NEW r \in Requests,
           \/ Accept(r) \/ Refuse(r) \/ Write(r)
           \/ NoLock(r) \/ SeekLock(r) \/ TakeLock(r)
           \/ Prepare(r) \/ PrepareFails(r) \/ LookupMiss(r) \/ InvalidateBefore(r)
           \/ Download(r) \/ DownloadFails(r)
           \/ StartCommand(r) \/ StartFails(r) \/ Finish(r) \/ InvalidateAfter(r)
           \/ SetSession(r) \/ Persist(r) \/ PersistFails(r)
    PROVE  Quiet(r)
  <1> USE DEF Quiet, TypeOK, Moves, Goto, requestVars, cacheVars
  <1>1. CASE Accept(r)
    BY <1>1 DEF Accept
  <1>2. CASE Refuse(r)
    BY <1>2 DEF Refuse
  <1>3. CASE NoLock(r)
    BY <1>3 DEF NoLock
  <1>4. CASE SeekLock(r)
    BY <1>4 DEF SeekLock
  <1>5. CASE TakeLock(r)
    BY <1>5 DEF TakeLock
  <1>6. CASE Prepare(r)
    BY <1>6 DEF Prepare, AfterPrepare, AfterLookup
  <1>7. CASE PrepareFails(r)
    BY <1>7 DEF PrepareFails, SetResp
  <1>8. CASE LookupMiss(r)
    <2>1. entries' = Without(entries, KeyOf(r))
      BY ONLY <1>8 DEF LookupMiss, CacheMiss
    <2>2. \A k \in DOMAIN entries' : k \in DOMAIN entries /\ entries'[k] = entries[k]
      BY ONLY <2>1, WithoutKeepsTheRest
    <2> QED
      BY <1>8, <2>2 DEF LookupMiss, AfterLookup
  <1>9. CASE InvalidateBefore(r)
    BY <1>9 DEF InvalidateBefore, AfterLookup, InvalidateAll, NoEntries
  <1>10. CASE Download(r)
    BY <1>10 DEF Download
  <1>11. CASE DownloadFails(r)
    BY <1>11 DEF DownloadFails, SetResp
  <1>12. CASE StartCommand(r)
    BY <1>12 DEF StartCommand, SetResp
  <1>13. CASE StartFails(r)
    BY <1>13 DEF StartFails, SetResp
  <1>14. CASE Write(r)
    BY <1>14 DEF Write
  <1>15. CASE Finish(r)
    BY <1>15 DEF Finish, SetResp, AfterExecute
  <1>16. CASE InvalidateAfter(r)
    BY <1>16 DEF InvalidateAfter, InvalidateAll, NoEntries
  <1>17. CASE SetSession(r)
    BY <1>17 DEF SetSession, AfterSet, Storable
  <1>18. CASE Persist(r)
    BY <1>18 DEF Persist, AfterSet, Storable
  <1>19. CASE PersistFails(r)
    BY <1>19 DEF PersistFails, AfterSet, Storable
  <1> QED
    BY <1>1, <1>2, <1>3, <1>4, <1>5, <1>6, <1>7, <1>8, <1>9, <1>10, <1>11, <1>12, <1>13, <1>14, <1>15, <1>16, <1>17, <1>18, <1>19

(* Every step keeps entries and hits attributed to their requests.         *)
LEMMA StepAnswer == AnswerInv /\ [Next]_vars => AnswerInv'
  <1> SUFFICES ASSUME AnswerInv, [Next]_vars PROVE Attributed'
    BY StepSession DEF AnswerInv
  <1>0. TypeOK /\ TypeOK' /\ Attributed
    BY StepTypeOK DEF AnswerInv, SessionInv
  <1> USE <1>0, ServerAssumptions
      DEF Attributed, EntriesAreAnswers, Producers, PutsAreStorable, AnswerOf,
          Storable, HitAnswersTheSameRequest, FromCache, TypeOK, Response,
          Moves, Goto, requestVars, worldVars, cacheVars, KeyOf
  <1>1. ASSUME NEW r \in Requests,
               \/ Accept(r) \/ Refuse(r) \/ Write(r)
               \/ NoLock(r) \/ SeekLock(r) \/ TakeLock(r)
               \/ Prepare(r) \/ PrepareFails(r) \/ LookupMiss(r) \/ InvalidateBefore(r)
               \/ Download(r) \/ DownloadFails(r)
               \/ StartCommand(r) \/ StartFails(r) \/ Finish(r) \/ InvalidateAfter(r)
               \/ SetSession(r) \/ Persist(r) \/ PersistFails(r)
        PROVE  Attributed'
    <2>1. PutsAreStorable
      BY ONLY <1>0 DEF Attributed
    <2>2. Quiet(r)
      BY ONLY <1>0, <1>1, <2>1, QuietSteps
    <2> QED
      BY ONLY <1>0, <1>1, <2>2, QuietKeepsAnswers
  <1>2. ASSUME NEW r \in Requests, LookupHit(r) PROVE Attributed'
    <2>1. /\ KeyOf(r) \in DOMAIN entries
          /\ pc[r] = "cache"
          /\ pc' = [pc EXCEPT ![r] = "answer"]
          /\ resp' = [resp EXCEPT ![r] = entries[KeyOf(r)].response]
          /\ UNCHANGED <<req, workdir, status, entries>>
      BY ONLY <1>2 DEF LookupHit, CacheHit, SetResp, Moves, Goto, cacheVars
    <2>1a. PICK k \in DOMAIN entries : k = KeyOf(r)
      BY ONLY <2>1
    <2>2. PICK q, response : /\ response = entries[k].response
                             /\ q = response.by
      OBVIOUS
    <2>2a. q \in Requests /\ k = KeyOf(q) /\ AnswerOf(q, response)
      <3>1. EntriesAreAnswers
        BY ONLY <1>0 DEF Attributed
      <3> QED
        BY ONLY <2>2, <3>1, k \in DOMAIN entries DEF EntriesAreAnswers, KeyOf, AnswerOf
    <2>3. KeyOf(r) = KeyOf(q) /\ AnswerOf(q, response)
      BY ONLY <2>1a, <2>2a
    <2>4. /\ req[q].key = req[r].key /\ req[q].gpt = req[r].gpt
          /\ req[q].command = req[r].command /\ req[q].ttl = req[r].ttl
          /\ workdir[q] = workdir[r]
      BY ONLY <2>3 DEF KeyOf, CommandCacheKey
    <2>5. /\ HasScope(req[r]) /\ Cacheable(req[r])
          /\ pc[q] \in {"answer", "unlock", "done"} /\ q # r
          /\ pc[q] \in {"unlock", "done"} => status[q] = 200
      BY ONLY <2>1, <2>3, <2>4 DEF AnswerOf, HasScope, Cacheable
    <2>6. pc[q] = "done" /\ status[q] = 200
      <3>1. \A p \in Requests :
               pc[p] \in Inside /\ req[p].key # NoKey => locks[req[p].key] = p
        BY DEF AnswerInv, SessionInv, InsideHoldsLock
      <3> QED
        BY ONLY <2>1, <2>2a, <2>4, <2>5, <3>1, r \in Requests DEF Inside, Active, HasScope
    <2>7. /\ resp'[r].by = q /\ resp'[r].outcome = "ok"
          /\ resp'[r].dir = workdir[r]
          /\ pc'[r] = "answer"
          /\ \A p \in Requests \ {r} : resp'[p] = resp[p] /\ pc'[p] = pc[p]
          /\ UNCHANGED <<req, workdir, status>>
      <3>1. DOMAIN resp = Requests /\ DOMAIN pc = Requests
        BY ONLY <1>0 DEF TypeOK
      <3>2. resp' = [resp EXCEPT ![r] = response]
        BY ONLY <2>1, <2>2, <2>1a
      <3>3. response.outcome = "ok" /\ response.dir = workdir[r]
        BY ONLY <2>3, <2>4 DEF AnswerOf
      <3> QED
        BY ONLY ZenonT(30), <2>1, <2>2, <2>2a, <3>1, <3>2, <3>3, r \in Requests
    <2>8. EntriesAreAnswers'
      <3>1. EntriesAreAnswers
        BY ONLY <1>0 DEF Attributed
      <3>2. ASSUME NEW p \in Requests, NEW answer, AnswerOf(p, answer)
            PROVE  AnswerOf(p, answer)' /\ KeyOf(p)' = KeyOf(p)
        BY ONLY <1>0, <2>1, <3>2 DEF AnswerOf, KeyOf, TypeOK
      <3>3. ASSUME NEW x \in DOMAIN entries, NEW p, NEW answer,
                   answer = entries[x].response, p = answer.by
            PROVE  p \in Requests /\ x = KeyOf(p)' /\ AnswerOf(p, answer)'
        <4>1. p \in Requests /\ x = KeyOf(p) /\ AnswerOf(p, answer)
          BY ONLY <3>1, <3>3 DEF EntriesAreAnswers, KeyOf, AnswerOf
        <4> QED
          BY ONLY <3>2, <4>1
      <3> QED
        BY ONLY <2>1, <3>3 DEF EntriesAreAnswers, KeyOf, AnswerOf
    <2>9. Producers' /\ PutsAreStorable'
      <3>1. Producers /\ PutsAreStorable /\ Nobody # q
        BY ONLY <1>0, <2>2a, ServerAssumptions DEF Attributed
      <3> QED
        BY ONLY <2>5, <2>7, <3>1 DEF Producers, PutsAreStorable, Storable
    <2>10. HitAnswersTheSameRequest'
      <3>1. ASSUME NEW p \in Requests, FromCache(p)', p # r
            PROVE  FromCache(p) /\ resp'[p] = resp[p] /\ pc'[p] = pc[p] /\ resp[p].by # r
        BY ZenonT(30), <2>1, <2>7, <3>1
      <3>2. HitAnswersTheSameRequest
        BY ONLY <1>0 DEF Attributed
      <3>3. ASSUME NEW p \in Requests, FromCache(p)', p # r
            PROVE  /\ resp[p].by # r
                   /\ pc'[resp[p].by] = "done"
                   /\ UNCHANGED <<req, workdir, status>>
        <4>1. pc[resp[p].by] = "done" /\ resp[p].by \in Requests
          BY ONLY <1>0, <3>1, <3>2, <3>3, ServerAssumptions
          DEF HitAnswersTheSameRequest, TypeOK, Response, FromCache
        <4> QED
          BY ONLY <2>1, <2>7, <4>1
      <3> QED
        <4>1. ASSUME NEW p \in Requests, FromCache(p)'
              PROVE  LET w == resp'[p].by IN
                     /\ HasScope(req[p]) /\ Cacheable(req[p])
                     /\ req[w].key = req[p].key /\ req[w].gpt = req[p].gpt
                     /\ req[w].command = req[p].command /\ req[w].ttl = req[p].ttl
                     /\ workdir[w] = workdir[p] /\ resp'[p].dir = workdir[p]
                     /\ pc'[w] = "done" /\ status[w] = 200
                     /\ resp'[p].outcome = "ok"
          <5>1. CASE p = r
            BY ONLY <2>2a, <2>4, <2>5, <2>6, <2>7, <5>1, r \in Requests
          <5>2. CASE p # r
            BY ONLY <3>1, <3>2, <3>3, <4>1, <5>2 DEF HitAnswersTheSameRequest
          <5> QED
            BY ONLY <5>1, <5>2
        <4> QED
          BY ONLY <2>7, <4>1
          DEF HitAnswersTheSameRequest, FromCache, HasScope, Cacheable
    <2> QED
      BY <2>8, <2>9, <2>10
  <1>3. ASSUME NEW r \in Requests, Store(r) PROVE Attributed'
    <2>1. \A k \in DOMAIN entries' :
             \/ k \in DOMAIN entries /\ entries'[k] = entries[k]
             \/ k = KeyOf(r) /\ entries'[k].response = resp[r]
      <3>1. CASE PutRefused(Seconds(req[r].ttl), gen[r])
        BY ONLY <3>1 DEF PutRefused, cacheVars
      <3>2. CASE PutAccepted(KeyOf(r), resp[r], Seconds(req[r].ttl), gen[r], clock)
        <4>1. NewEntry(resp[r], Seconds(req[r].ttl), clock).response = resp[r]
          BY ONLY DEF NewEntry
        <4> QED
          BY ONLY <3>2, <4>1, PutAddsOneEntry DEF PutAccepted
      <3> QED
        BY <1>3, <3>1, <3>2 DEF Store
    <2>2. /\ pc[r] = "put" /\ pc' = [pc EXCEPT ![r] = "answer"]
          /\ UNCHANGED <<req, workdir, resp, status>>
      BY <1>3 DEF Store
    <2>3. resp[r].by = r /\ Storable(r)
      BY <2>2
    <2>4. EntriesAreAnswers'
      <3>1. \A q \in Requests : KeyOf(q)' = KeyOf(q)
        BY ONLY <2>2 DEF KeyOf
      <3>2. ASSUME NEW q \in Requests, NEW response, AnswerOf(q, response)
            PROVE  AnswerOf(q, response)'
        BY ONLY <1>0, <2>2, <3>2 DEF AnswerOf, TypeOK
      <3>3. AnswerOf(r, resp[r])'
        BY ONLY <1>0, <2>2, <2>3 DEF AnswerOf, TypeOK, Storable
      <3>4. ASSUME NEW k \in DOMAIN entries', NEW q, NEW response,
                   response = entries'[k].response, q = response.by
            PROVE  q \in Requests /\ k = KeyOf(q) /\ AnswerOf(q, response)'
        <4>1. CASE k \in DOMAIN entries /\ entries'[k] = entries[k]
          <5>1. q \in Requests /\ k = KeyOf(q) /\ AnswerOf(q, response)
            BY ONLY <1>0, <3>4, <4>1
            DEF Attributed, EntriesAreAnswers, KeyOf, AnswerOf
          <5> QED
            BY ONLY <3>2, <5>1
        <4>2. CASE k = KeyOf(r) /\ entries'[k].response = resp[r]
          <5>1. q = r /\ response = resp[r]
            BY ONLY <2>3, <3>4, <4>2
          <5> QED
            BY ONLY <3>3, <4>2, <5>1, <2>2 DEF KeyOf, AnswerOf
        <4> QED
          BY <2>1, <4>1, <4>2
      <3> QED
        BY ONLY <2>2, <3>4 DEF EntriesAreAnswers, KeyOf, AnswerOf
    <2>5. Producers' /\ PutsAreStorable' /\ HitAnswersTheSameRequest'
      BY <2>2, <2>3
    <2> QED
      BY <2>4, <2>5
  <1>4. ASSUME NEW r \in Requests, Respond(r) \/ Unlock(r) PROVE Attributed'
    <2>1. UNCHANGED <<req, workdir, resp, entries>>
      BY ONLY <1>4 DEF Respond, Unlock, requestVars, cacheVars
    <2>2. \/ /\ pc[r] = "answer" /\ pc' = [pc EXCEPT ![r] = "unlock"]
             /\ status' = [status EXCEPT ![r] =
                             IF resp[r].outcome = "error" THEN 400 ELSE 200]
          \/ /\ pc[r] = "unlock" /\ pc' = [pc EXCEPT ![r] = "done"]
             /\ UNCHANGED status
      BY ONLY <1>4 DEF Respond, Unlock, Moves, Goto, requestVars
    <2> QED
      BY ONLY <1>0, <1>4, <2>1, <2>2, LeavingKeepsAnswers
  <1>5. CASE Tick
    BY <1>5 DEF Tick
  <1>6. CASE Restart
    BY <1>6 DEF Restart, NoEntries, Active
  <1>7. CASE UNCHANGED vars
    BY <1>7 DEF vars
  <1> HIDE DEF Attributed
  <1> QED
    BY ONLY <1>1, <1>2, <1>3, <1>4, <1>5, <1>6, <1>7, [Next]_vars DEF Next, Step

(* A hit answers with the result of the same command of the same GPT and   *)
(* session in the same directory, whose request has been answered.         *)
THEOREM HitsAnswerTheirRequest == Spec => []HitAnswersTheSameRequest
  <1>1. AnswerInv => HitAnswersTheSameRequest
    BY DEF AnswerInv, Attributed
  <1> QED
    BY InitAnswer, StepAnswer, <1>1, PTL DEF Spec
=============================================================================
