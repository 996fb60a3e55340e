--------------------------- MODULE CommandServer ---------------------------
(***************************************************************************)
(* The command endpoint: runCommand (src/internal/agent/server.go) as many *)
(* concurrent requests execute it, over the command cache and the session  *)
(* store it calls.                                                         *)
(*                                                                         *)
(* Each request has a program counter, and a step of the handler is one    *)
(* action: a critical section of one of the mutexes, a wait, or something  *)
(* that other requests can observe.  Bash is not modelled: a command that  *)
(* was not sent as cacheable may change the world while it runs, each      *)
(* change making a new version of it, and the output of any command        *)
(* reflects the world from the moment it started on.  The openapi document *)
(* (openapi.json:80) reserves caching for commands that change nothing.    *)
(*                                                                         *)
(* The process may stop at any step and a new one start.  Clients do not   *)
(* retry here, and a request is not cancelled.                             *)
(***************************************************************************)
EXTENDS CommandCache, SessionStore

CONSTANTS Requests,      \* requests, each sent at most once
          Inputs,        \* what a request may carry
          AllowedGPTs,   \* cfg.AllowedGPTIDs, empty when any GPT may call
          Volatile,      \* directories that commands may make or remove
          Outcomes,      \* how a run ends; "ok" is the cacheable outcome
          MaxWorld, MaxClock, MaxCrashes,    \* bounds of the counters
          PersistMayFail                     \* can writing sessions.json fail

ASSUME ServerAssumptions ==
    /\ Nobody \notin Requests
    /\ Inputs \subseteq [key : SessionKeys \cup {NoKey}, gpt : STRING,
                         dir : Dirs \cup {NoDir}, command : STRING, ttl : Int,
                         files : BOOLEAN, authorized : BOOLEAN,
                         wellFormed : BOOLEAN, origin : BOOLEAN]
    /\ Volatile \subseteq Dirs \ {Fallback}
    /\ PersistMayFail \in BOOLEAN

VARIABLES pc,         \* where each request is in runCommand
          req,        \* its input
          start,      \* startDir
          workdir,    \* cacheWorkdir
          gen,        \* cacheGeneration
          resp,       \* resp: who produced it and the world it saw
          status,     \* HTTP status answered, 0 before
          world,      \* version of everything commands can change
          clock,      \* time.Now()
          wrote,      \* last version of the world the request made
          floor,      \* history: `acked` when the request arrived
          acked,      \* history: last version made by an answered request
          crashes

requestVars == <<req, start, workdir, gen, resp, status, wrote, floor>>
worldVars   == <<world, acked, clock, crashes>>
vars == <<pc, requestVars, worldVars, cacheVars, sessionVars>>

Active == {"lock", "wait", "get", "cache", "before", "download", "start",
           "run", "after", "set", "tmp", "rename", "put", "answer", "unlock"}

Steps == Active \cup {"idle", "done", "lost"}

NoInput == [key |-> NoKey, gpt |-> "", dir |-> NoDir, command |-> "", ttl |-> 0,
            files |-> FALSE, authorized |-> FALSE, wellFormed |-> FALSE,
            origin |-> FALSE]

Response == [by : Requests \cup {Nobody}, seen : Nat,
             outcome : Outcomes \cup {"error", "none"}, dir : Dirs \cup {NoDir}]

NoResponse == [by |-> Nobody, seen |-> 0, outcome |-> "none", dir |-> NoDir]

Failure == [by |-> Nobody, seen |-> 0, outcome |-> "error", dir |-> NoDir]

----------------------------------------------------------------------------
(* What the handler computes from a request.                               *)

(* Bearer token and GPT allow-list: refused with 401.                      *)
Authorized(in) == /\ in.authorized
                  /\ AllowedGPTs # {} => in.gpt \in AllowedGPTs

(* Content type, JSON, empty command, cache_ttl_seconds: refused with 400. *)
Valid(in) == /\ in.wellFormed
             /\ TTLAccepted(in.ttl)
             /\ ~ (in.ttl > 0 /\ in.files)

(* The status a request is refused with, 0 if it is not; publicBaseURL     *)
(* finds no HTTPS origin for some.                                         *)
Refusal(in) == IF ~ Authorized(in) THEN 401
               ELSE IF ~ Valid(in) THEN 400
               ELSE IF ~ in.origin THEN 500 ELSE 0

Cacheable(in) == in.ttl > 0

(* cacheScope: the GPT and the session, or nothing without a session.      *)
HasScope(in) == in.key # NoKey

(* Fault: all GPTs share what a session has cached.                        *)
KeyOfAnyGPT(r) == CommandCacheKey(<<req[r].key>>, workdir[r],
                                  req[r].command, req[r].ttl)

KeyOf(r) == CommandCacheKey(<<req[r].gpt, req[r].key>>, workdir[r],
                            req[r].command, req[r].ttl)

(* resolveWorkdir, of an absolute path or of none.                         *)
Resolve(current, requested) ==
    IF requested = NoDir THEN current ELSE requested

(* The condition of server.go:324 for offering a result to the cache.      *)
Storable(r) == /\ Cacheable(req[r]) /\ HasScope(req[r])
               /\ resp[r].outcome = "ok"
               /\ resp[r].dir = workdir[r]

Goto(r, step) == pc' = [pc EXCEPT ![r] = step]

Moves(r, from, to) == pc[r] = from /\ Goto(r, to)

AfterLookup(r)  == IF req[r].files THEN "download" ELSE "start"
AfterPrepare(r) == IF ~ Cacheable(req[r]) THEN "before"
                   ELSE IF HasScope(req[r]) THEN "cache"
                   ELSE AfterLookup(r)       \* bypassed: no session identity
AfterExecute(r) == IF ~ Cacheable(req[r]) THEN "after" ELSE "set"
AfterSet(r)     == IF Storable(r) THEN "put" ELSE "answer"

SetResp(r, value) == resp' = [resp EXCEPT ![r] = value]

----------------------------------------------------------------------------
(* Admission and the session lock.                                         *)

Accept(r) ==
    /\ Moves(r, "idle", "lock")
    /\ \E in \in Inputs : /\ Refusal(in) = 0
                          /\ req' = [req EXCEPT ![r] = in]
    /\ floor' = [floor EXCEPT ![r] = acked]
    /\ UNCHANGED <<start, workdir, gen, resp, status, wrote, worldVars,
                   cacheVars, sessionVars>>

Refuse(r) ==
    /\ Moves(r, "idle", "done")
    /\ \E in \in Inputs :
          /\ Refusal(in) # 0
          /\ req' = [req EXCEPT ![r] = in]
          /\ status' = [status EXCEPT ![r] = Refusal(in)]
    /\ UNCHANGED <<start, workdir, gen, resp, wrote, floor, worldVars,
                   cacheVars, sessionVars>>

NoLock(r) ==
    /\ Moves(r, "lock", "get")
    /\ req[r].key = NoKey
    /\ UNCHANGED <<requestVars, worldVars, cacheVars, sessionVars>>

SeekLock(r) ==
    /\ Moves(r, "lock", "wait")
    /\ req[r].key # NoKey
    /\ FindLock
    /\ UNCHANGED <<requestVars, worldVars, cacheVars>>

TakeLock(r) ==
    /\ Moves(r, "wait", "get")
    /\ LockSession(r, req[r].key)
    /\ UNCHANGED <<requestVars, worldVars, cacheVars>>

----------------------------------------------------------------------------
(* Before the command runs: directory, cache, input files.                 *)

Prepare(r) ==
    /\ CanGet(req[r].key)
    /\ LET current == SessionDir(req[r].key)
           target  == Resolve(current, req[r].dir)
       IN  /\ target \in present
           /\ start' = [start EXCEPT ![r] = current]
           /\ workdir' = [workdir EXCEPT ![r] = target]
    /\ Moves(r, "get", AfterPrepare(r))
    /\ UNCHANGED <<req, gen, resp, status, wrote, floor, worldVars, cacheVars,
                   sessionVars>>

PrepareFails(r) ==
    /\ CanGet(req[r].key)
    /\ Resolve(SessionDir(req[r].key), req[r].dir) \notin present
    /\ SetResp(r, Failure)
    /\ Moves(r, "get", "answer")
    /\ UNCHANGED <<req, start, workdir, gen, status, wrote, floor, worldVars,
                   cacheVars, sessionVars>>

LookupHit(r) ==
    /\ Moves(r, "cache", "answer")
    /\ CacheHit(KeyOf(r), clock)
    /\ SetResp(r, entries[KeyOf(r)].response)
    /\ UNCHANGED <<req, start, workdir, gen, status, wrote, floor, worldVars,
                   sessionVars>>

(* Fault: the generation before the one observed is kept.                  *)
LookupMissOffByOne(r) ==
    /\ Moves(r, "cache", AfterLookup(r))
    /\ CacheMiss(KeyOf(r), clock)
    /\ gen' = [gen EXCEPT ![r] = generation - 1]
    /\ UNCHANGED <<req, start, workdir, resp, status, wrote, floor, worldVars,
                   sessionVars>>

LookupMiss(r) ==
    /\ Moves(r, "cache", AfterLookup(r))
    /\ CacheMiss(KeyOf(r), clock)
    /\ gen' = [gen EXCEPT ![r] = generation]
    /\ UNCHANGED <<req, start, workdir, resp, status, wrote, floor, worldVars,
                   sessionVars>>

InvalidateBefore(r) ==
    /\ Moves(r, "before", AfterLookup(r))
    /\ InvalidateAll
    /\ UNCHANGED <<requestVars, worldVars, sessionVars>>

Download(r) ==
    /\ Moves(r, "download", "start")
    /\ UNCHANGED <<requestVars, worldVars, cacheVars, sessionVars>>

DownloadFails(r) ==
    /\ Moves(r, "download", "answer")
    /\ SetResp(r, Failure)
    /\ UNCHANGED <<req, start, workdir, gen, status, wrote, floor, worldVars,
                   cacheVars, sessionVars>>

----------------------------------------------------------------------------
(* execute                                                                 *)

StartCommand(r) ==
    /\ Moves(r, "start", "run")
    /\ workdir[r] \in present
    /\ SetResp(r, [by |-> r, seen |-> world, outcome |-> "none",
                   dir |-> workdir[r]])
    /\ UNCHANGED <<req, start, workdir, gen, status, wrote, floor, worldVars,
                   cacheVars, sessionVars>>

(* The directory vanished, a capture file could not be made, bash did not  *)
(* start.                                                                  *)
StartFails(r) ==
    /\ Moves(r, "start", IF Cacheable(req[r]) THEN "answer" ELSE "after")
    /\ SetResp(r, Failure)
    /\ UNCHANGED <<req, start, workdir, gen, status, wrote, floor, worldVars,
                   cacheVars, sessionVars>>

(* The running command changes something; it may make or remove a          *)
(* directory, but not the workspace root.                                  *)
Write(r) ==
    /\ pc[r] = "run"
    /\ ~ Cacheable(req[r])
    /\ world < MaxWorld
    /\ world' = world + 1
    /\ wrote' = [wrote EXCEPT ![r] = world + 1]
    /\ present' \in {present} \cup {present \cup {d} : d \in Volatile}
                              \cup {present \ {d} : d \in Volatile}
    /\ UNCHANGED <<pc, req, start, workdir, gen, resp, status, floor, acked,
                   clock, crashes, cacheVars, dirs, locks, mu, tmpFile,
                   diskFile, behind>>

(* The command ends, or its output cannot be read back ("error").  Its     *)
(* final directory is the one its EXIT trap wrote if that still exists,    *)
(* else the one it was started in.                                         *)
Finish(r) ==
    /\ \E outcome \in Outcomes \cup {"error"}, d \in present \cup {workdir[r]} :
          /\ SetResp(r, [by |-> r, seen |-> resp[r].seen,
                        outcome |-> outcome, dir |-> d])
          /\ Moves(r, "run", IF Cacheable(req[r]) /\ outcome = "error"
                             THEN "answer" ELSE AfterExecute(r))
    /\ UNCHANGED <<req, start, workdir, gen, status, wrote, floor, worldVars,
                   cacheVars, sessionVars>>

----------------------------------------------------------------------------
(* After the command ran.                                                  *)

(* Fault: only the first of the two invalidations is made.                 *)
InvalidateOnce(r) ==
    /\ Moves(r, "after", IF resp[r].outcome = "error" THEN "answer" ELSE "set")
    /\ UNCHANGED <<requestVars, worldVars, cacheVars, sessionVars>>

InvalidateAfter(r) ==
    /\ Moves(r, "after", IF resp[r].outcome = "error" THEN "answer" ELSE "set")
    /\ InvalidateAll
    /\ UNCHANGED <<requestVars, worldVars, sessionVars>>

SetSession(r) ==
    /\ \/ Moves(r, "set", AfterSet(r)) /\ SetNothing(req[r].key)
       \/ Moves(r, "set", "tmp") /\ SetMemory(r, req[r].key, resp[r].dir)
    /\ UNCHANGED <<requestVars, worldVars, cacheVars>>

Persist(r) ==
    /\ \/ Moves(r, "tmp", "rename") /\ WriteTmp
       \/ Moves(r, "rename", AfterSet(r)) /\ RenameTmp
    /\ UNCHANGED <<requestVars, worldVars, cacheVars>>

(* A failed set is logged and otherwise ignored.                           *)
PersistFails(r) ==
    /\ PersistMayFail
    /\ \/ Moves(r, "tmp", AfterSet(r)) /\ WriteTmpFails
       \/ Moves(r, "rename", AfterSet(r)) /\ RenameFails
    /\ UNCHANGED <<requestVars, worldVars, cacheVars>>

Store(r) ==
    /\ Moves(r, "put", "answer")
    /\ \/ PutAccepted(KeyOf(r), resp[r], Seconds(req[r].ttl), gen[r], clock)
       \/ PutRefused(Seconds(req[r].ttl), gen[r])
    /\ UNCHANGED <<requestVars, worldVars, sessionVars>>

Larger(a, b) == IF a < b THEN b ELSE a

Respond(r) ==
    /\ Moves(r, "answer", "unlock")
    /\ status' = [status EXCEPT ![r] =
                    IF resp[r].outcome = "error" THEN 400 ELSE 200]
    /\ acked' = Larger(acked, wrote[r])
    /\ UNCHANGED <<req, start, workdir, gen, resp, wrote, floor, world, clock,
                   crashes, cacheVars, sessionVars>>

(* The deferred unlock, after everything else in the handler.              *)
Unlock(r) ==
    /\ Moves(r, "unlock", "done")
    /\ UnlockSession(r, req[r].key)
    /\ UNCHANGED <<requestVars, worldVars, cacheVars>>

----------------------------------------------------------------------------

Tick == /\ clock < MaxClock
        /\ clock' = clock + 1
        /\ UNCHANGED <<pc, requestVars, world, acked, crashes, cacheVars,
                       sessionVars>>

(* The process stops and is started again: the requests in it are lost,    *)
(* the cache is empty, the sessions are what sessions.json holds.          *)
Restart ==
    /\ crashes < MaxCrashes
    /\ crashes' = crashes + 1
    /\ pc' = [r \in Requests |-> IF pc[r] \in Active THEN "lost" ELSE pc[r]]
    /\ entries' = NoEntries
    /\ generation' = 0
    /\ LoadSessions
    /\ UNCHANGED <<requestVars, world, acked, clock>>

Init == /\ CacheInit
        /\ SessionInit
        /\ pc = [r \in Requests |-> "idle"]
        /\ req = [r \in Requests |-> NoInput]
        /\ start = [r \in Requests |-> NoDir]
        /\ workdir = [r \in Requests |-> NoDir]
        /\ gen = [r \in Requests |-> 0]
        /\ resp = [r \in Requests |-> NoResponse]
        /\ status = [r \in Requests |-> 0]
        /\ wrote = [r \in Requests |-> 0]
        /\ floor = [r \in Requests |-> 0]
        /\ world = 0 /\ acked = 0 /\ clock = 0 /\ crashes = 0

(* The steps a request takes on its own once it is accepted.               *)
Step(r) == \/ NoLock(r) \/ SeekLock(r) \/ TakeLock(r)
           \/ Prepare(r) \/ PrepareFails(r)
           \/ LookupHit(r) \/ LookupMiss(r) \/ InvalidateBefore(r)
           \/ Download(r) \/ DownloadFails(r)
           \/ StartCommand(r) \/ StartFails(r) \/ Finish(r)
           \/ InvalidateAfter(r) \/ SetSession(r)
           \/ Persist(r) \/ PersistFails(r) \/ Store(r)
           \/ Respond(r) \/ Unlock(r)

Next == \/ \E r \in Requests : Accept(r) \/ Refuse(r) \/ Write(r) \/ Step(r)
        \/ Tick
        \/ Restart

Spec == Init /\ [][Next]_vars

(* The Go scheduler runs every goroutine that can run; sync.Mutex hands    *)
(* itself over to a waiter that has been starved for a millisecond, so a   *)
(* request that keeps finding a mutex free in the end gets it; and a       *)
(* command ends, at the latest when its time limit kills it.  The latter   *)
(* is an assumption about commands, for Step includes Finish: a process    *)
(* that left the group by setsid and keeps a pipe can hold Finish up for   *)
(* ever.  ExecutionEnds of Executor shows that nothing else can.           *)
Fairness == \A r \in Requests : SF_vars(Step(r))

FairSpec == Spec /\ Fairness

----------------------------------------------------------------------------

TypeOK ==
    /\ pc \in [Requests -> Steps]
    /\ req \in [Requests -> Inputs \cup {NoInput}]
    /\ start \in [Requests -> Dirs \cup {NoDir}]
    /\ workdir \in [Requests -> Dirs \cup {NoDir}]
    /\ gen \in [Requests -> Nat]
    /\ resp \in [Requests -> Response]
    /\ status \in [Requests -> {0, 200, 400, 401, 500}]
    /\ wrote \in [Requests -> Nat]
    /\ floor \in [Requests -> Nat]
    /\ world \in Nat /\ acked \in Nat /\ clock \in Nat /\ crashes \in Nat
    /\ SessionTypeOK(Requests)
    /\ generation \in Nat
    /\ \A k \in DOMAIN entries : entries[k].response \in Response

(* The steps between the look-up of the session's directory and the answer. *)
Inside == Active \ {"lock", "wait"}

FromCache(r) == /\ pc[r] \in {"answer", "unlock", "done"}
                /\ resp[r].by \notin {r, Nobody}

(* Commands of one session run one at a time, from the look-up of the      *)
(* session's directory to the answer (docs/02-architecture.md:92,          *)
(* server.go:258-261).                                                     *)
OneCommandPerSession ==
    \A r, q \in Requests :
        /\ r # q
        /\ pc[r] \in Inside /\ pc[q] \in Inside
        => req[r].key = NoKey \/ req[r].key # req[q].key

(* "... so that concurrent calls do not overwrite each other's cwd": while *)
(* a command is prepared and runs, its session stays in the directory the  *)
(* command was given as its start, so the directory it leaves behind       *)
(* follows from the one its predecessor left (server.go:263, 318).         *)
StartIsCurrent ==
    \A r \in Requests :
        /\ pc[r] \in {"cache", "before", "download", "start", "run", "after", "set"}
        /\ req[r].key # NoKey
        => start[r] \in {dirs[req[r].key], Fallback}

(* An answer served from the cache saw every change made by a command that *)
(* was answered before this request arrived, whichever session and client  *)
(* sent it, and whatever was running in between (README.md:17,             *)
(* server.go:288-291 and 309-312, command_cache.go:83-85).                 *)
HitSeesAnsweredWrites ==
    \A r \in Requests : FromCache(r) => resp[r].seen >= floor[r]

(* An answer served from the cache is the result of an earlier request of  *)
(* the same GPT and session with the same command and lifetime, run in the *)
(* same directory, that succeeded, stayed in that directory, and went      *)
(* through the handler to its end (server.go:253-257 and 324,              *)
(* command_cache.go:120-134).                                              *)
HitAnswersTheSameRequest ==
    \A r \in Requests : FromCache(r) =>
        LET q == resp[r].by IN
        /\ HasScope(req[r]) /\ Cacheable(req[r])
        /\ req[q].key = req[r].key /\ req[q].gpt = req[r].gpt
        /\ req[q].command = req[r].command /\ req[q].ttl = req[r].ttl
        /\ workdir[q] = workdir[r] /\ resp[r].dir = workdir[r]
        /\ pc[q] = "done" /\ status[q] = 200
        /\ resp[r].outcome = "ok"

(* What the two invalidations around an uncached command ensure together:  *)
(* once an uncached command is past the second one, no entry in the map    *)
(* and no result that can still be stored predates what it wrote.          *)
CacheIsFresh ==
    \A w \in Requests : pc[w] \in {"set", "tmp", "rename", "answer", "unlock", "done"} =>
        /\ \A k \in DOMAIN entries : entries[k].response.seen >= wrote[w]
        /\ \A r \in Requests :
              /\ pc[r] \in {"run", "set", "tmp", "rename", "put"}
              /\ Cacheable(req[r]) /\ HasScope(req[r])
              /\ gen[r] = generation
              => resp[r].seen >= wrote[w]

(* Every accepted request is answered and gives its session up again,      *)
(* unless the process stops.  In particular nobody waits for a session's   *)
(* lock while keeping the mutex its holder needs (session.go:52-60).       *)
EveryRequestEnds ==
    \A r \in Requests : pc[r] = "lock" ~> pc[r] \in {"done", "lost"}

(* openapi.json:102 describes `workdir` in a response as the "Conversation *)
(* working directory after the command."                                   *)
SessionIsWhereTheAnswerSays ==
    \A r \in Requests :
        /\ pc[r] = "unlock" /\ status[r] = 200
        /\ req[r].key # NoKey
        => dirs[req[r].key] = resp[r].dir
=============================================================================
