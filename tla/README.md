# A verification project for mygpt-cf-tunnel

mygpt-cf-tunnel lets a Custom GPT run shell commands on a server: an HTTP
endpoint authenticates a request, finds the directory its conversation is in,
runs bash there, and returns the output. Around it stand an in-memory cache of
read-only results, a persistent store of session directories, signed links to
large outputs, downloads of input files, and a hash-chained audit log.

This directory holds TLA+ models of the program, the TLC configurations that
check them, and proofs checked by TLAPS. Paths such as `server.go:309` are
relative to `internal/agent/`, `audit.go` and `read.go` to `internal/audit/`,
`main.go` is `cmd/mygpt-cf-tunnel/main.go`.

Run a model with `tlc -config X.cfg M`, a proof with `tlapm M.tla`.

## 1. Inventory

| part | state | operations | what is hard | what makes it correct |
| --- | --- | --- | --- | --- |
| command endpoint `server.go` (`runCommand`) | none of its own; a request's local variables | admission, session lock, look-up, two invalidations, download, execute, save session, store result, answer | many requests interleave at every mutex; values read early are used late; every step can fail; the process can stop | commands of a session are serial; an answer from the cache is never stale and belongs to the same question; every request ends |
| command cache `command_cache.go` | `entries` (≤ 256), `generation` | `get`, `putIfGeneration`, `invalidateAll` | the clock is read outside the mutex; a result arrives after the invalidation that should have prevented it | bounded; live entries only; only the oldest evicted; a result is stored only if no invalidation followed its look-up |
| session store `session.go` | `dirs`, `locks`, `sessions.json`, `sessions.json.tmp` | `lock`, `get`, `set`, load at start | two levels of locks; memory is updated before the file; crash between write and rename | the file is never torn and agrees with memory after a success; no deadlock |
| executor `executor.go` | a process group, its pipes, two capture files, `cwd-<id>` | `execute`: prepare, start, wait or kill, collect | the deadline or a leaving client against a late end; children that leave the group; output still written after bash ended; each call may fail | the request ends; partial output is not taken for complete; nothing is left behind |
| input files `uploads.go` | `uploads/<id>/` | `downloadFiles`, `downloadOne`, the deferred removal | parallel transfers, name collisions, partial failure, identifiers used twice | all files or none; no name used twice; the directory goes when all have ended |
| artifact store `artifact.go` | `items`, files, signing key | `newCapture`, `discard`, `publish`, `ServeHTTP`, `cleanupLoop`, the emptying at start | cleanup against download; two precisions of time; capture files left behind; a second process | a valid link serves the file until it expires; every file is removed in the end |
| audit recorder and sink `audit.go` | per trace a sequence; chain, previous hash, date, file | `Event`, `Append` (with `rotate`, `cleanup`), `Close` | concurrent events, midnight, retention, restarts, a write that fails half-way | the log verifies when nothing failed; loss and tampering show |
| audit reader `read.go`, `cmd/mygpt-audit` | none | `Read`, `Verify`, `recent`, `trace` | the order of files and of chains | agrees with the sink on what a chain is |
| process `main.go` | listeners, the socket file, `serveErr`, a signal context | `listen`, serve, shut down, exit | goroutines that wait for one another; an address that a former process left or still has | a signal or a failing listener ends the process; who serves can be reached |
| configuration `config.go` | read once | `LoadConfig`, `secondsEnv` | overflow of durations | limits stay in their ranges |
| HTTP shell (`ServeHTTP`, health, OpenAPI), deployment files | none | | | |

Interactions: `runCommand` calls the session store (lock, get, set), the cache
(get, invalidateAll, putIfGeneration), `downloadFiles` and `execute`; `execute`
calls the artifact store. Each of them reports stages through the request's
trace, which numbers them and appends to the one sink of the process. Requests
share memory only through the cache, the session store, the artifact store and
the sink, each guarded by a mutex, and through the file system. `main` owns the
server and, by a deferred call, the sink.

## 2. Modules

| module | models | checked by |
| --- | --- | --- |
| `Durations` | limits in seconds, as the program turns them into durations: `secondsEnv`, `requestTimeout`, the clamping of `COMMAND_TIMEOUT_SECONDS` | through the modules that extend it |
| `CommandCache` | the operations of `command_cache.go`; used by the next three | |
| `Memo` | abstract: a memo that may forget, and resets | as `ImplementsMemo` |
| `CacheCallers` | the cache under arbitrary callers, clock readings outside the mutex; implements `Memo` | `MCCacheCallers` |
| `SessionStore` | the operations of `session.go`, the file writes as steps | through `CommandServer` |
| `CommandServer` | `runCommand` for concurrent requests over the cache and the session store, with restarts | `MCCommandServer` (four configurations) |
| `ArtifactStore` | `artifact.go` | through `Executor` |
| `Uploads` | `uploads.go` | through `Executor` |
| `Executor` | `executor.go` and the part of `runCommand` around it, over `ArtifactStore`, `Uploads` and `Durations` | `MCExecutor` |
| `AuditLog` | `audit.go` and `read.go` | `MCAuditLog` (four configurations) |
| `Lifecycle` | `main.go` | `MCLifecycle` (two configurations) |
| `DurationsProofs`, `CommandCacheProofs` | lemmas the others rest on | TLAPS |
| `CacheCallersProofs`, `CommandServerProofs`, `ExecutorProofs`, `AuditLogProofs`, `LifecycleProofs` | theorems | TLAPS |

`CommandServer` composes: it extends `CommandCache` and `SessionStore`, whose
operators and actions are the critical sections, and adds the program counter
of each request. `Executor` opens what is one step there (`Download`,
`StartCommand` to `Finish`): it extends `ArtifactStore` and `Uploads` in the
same way, and adds time, processes and clients that leave. The two share no
state that matters to the properties of either: what `Executor` hands back is
an outcome and a directory, which `CommandServer` lets be anything.

Definitions whose comment begins with "Fault" are plausible mistakes in the
definition that follows them. No specification uses them; `PROJECT.json`
(`mutants`) names for each property a fault that it notices.

### CommandCache and CacheCallers

`entries` maps a key to the instants it was stored and expires at and to a
response; `generation` counts invalidations. The mutex makes each method one
action. A key is the record that is hashed (the digest is taken as injective);
stdin and timeout are part of `command`. Go's map order is the choice among the
oldest entries in `OldestKeys`. The counter does not wrap (it has 64 bits).
A lifetime is a number of seconds in a key and a duration in `expiresAt`;
`Durations` multiplies in a signed integer of the width `MaxInt`, so that the
check at `server.go:217` can be passed by a number that wraps around.

In `CacheCallers` a caller reads the clock (`Begin`, `Offer`) in one step and
calls the cache in another, because `time.Now()` is evaluated before `c.mu` is
taken. Callers of one scope exclude each other, since a scope contains the
session and its lock is held (`Busy`). This exclusion matters: without it a hit
could report a negative age.

`Memo` is what the comments at `command_cache.go:32-34, 54-55, 83-85` promise:
answers may be forgotten at any time, and one is remembered only for a caller
that is still `fresh`, that is whose look-up no reset has followed. The
refinement maps `memo` to the responses of `entries`. `fresh` is a history
variable of `CacheCallers`, set by a miss and cleared by an invalidation; the
code has no such set, and the refinement says that comparing generations has
the effect of consulting it.

### SessionStore

`dirs` and `locks` are the two maps, `mu` the mutex over them; `tmpFile` and
`diskFile` are the two files; `present` says which directories exist. `set` is
three steps (map, temporary file, rename), each of which can fail or be the
last one before the process stops; the chmod after the rename is part of the
rename. `behind` is a history variable: the last write failed.

### CommandServer

A request is in one place of the handler:

```
idle -> lock -> wait -> get -> cache ---------------------> answer -> unlock -> done
                         |       |(miss)                      ^
                         |       v                            |
                         +--> before -> download -> start -> run -> after -> set -> tmp -> rename -> put
```

| place | code | action |
| --- | --- | --- |
| `idle` | `server.go:176-257` | `Accept`, `Refuse` (401, 400, 500) |
| `lock`, `wait` | 258-261, `session.go:48-61` | `SeekLock`, `TakeLock`; `NoLock` without a session |
| `get` | 263-269, `session.go:63-75` | `Prepare`, `PrepareFails` |
| `cache` | 271-285 | `LookupHit`, `LookupMiss` |
| `before` | 288-291 | `InvalidateBefore` |
| `download` | 296-307 | `Download`, `DownloadFails` |
| `start`, `run` | `executor.go:43-201` | `StartCommand`, `StartFails`, `Write`, `Finish` |
| `after` | 309-317 | `InvalidateAfter` |
| `set`, `tmp`, `rename` | 318-323, `session.go:77-96` | `SetSession`, `Persist`, `PersistFails` |
| `put` | 324-333 | `Store` |
| `answer`, `unlock` | 313-336, 260 | `Respond`, `Unlock` |

Bash is abstracted to what the cache and the sessions depend on: a command that
was not sent as cacheable may create a new version of the `world` (and make or
remove a directory) while it runs; the output of a command is the version it
started from; it ends in some directory, with an outcome that is cacheable
(`ok`: status 0, in time, complete, without attachments) or not. Cached
commands change nothing, as `openapi.json:80` demands of them. `acked` and
`floor` are history: the newest version made by a command that was answered,
now and when a request arrived. `Restart` stops the process at any point and
starts a new one from `sessions.json`.

The reading of the clock is merged with the critical section that uses it;
`CacheCallers` keeps them apart. The cleanup of input files has no effect on
the modelled state and is part of `Respond` and `Unlock`.

### AuditLog

A hash is the number of the event that was hashed, so that a line records which
line it follows. An event is numbered in one step and appended in another; the
append is one critical section, with one action per way it can end. A file that
a failed rotation left closed makes every later append fail (`FileWasClosed`):
rotate closes it again, or, if the clock has come back to its date, the write
fails. `log` maps
a day to the lines of its file. `RestartProcess` opens a new chain; `CloseSink`
is `FileSink.Close`, after which the sink opens its file again.

`audit.Read` returns one sequence of events, file by file in the order of the
names, that is of the days (`Earlier`). The model keeps the files as they are
and knows a line by its place, a day and a number in that day's file; `Before`
is the order in which `Read` returns the lines. `Verify` follows `read.go`,
stated over pairs of consecutive lines of a chain or trace. That no line is
looked at twice and none is left out is what the order being total says
(`PlacesAreOrdered` in `AuditLogProofs`).

The wall clock may be set back by a tick, as one of the faults. `reader` is
`mygpt-audit`, which lists the files once (`ReaderStarts`) and then opens one
after the other, each time the earliest that is left (`IsNext`, `ReadsFile`),
until one has been removed meanwhile (`FileIsGone`); a line reaches the reader
whole or not at all, as the sink writes it with a single call.

### Executor, ArtifactStore and Uploads

```
idle -> download -> prepare -> start -> running -> collect -> return -> leave -> done
             |           |        |         |  ^                           (also from
             v           v        v         v  |                            prepare)
            done       leave    return    killed
```

| place | code | action |
| --- | --- | --- |
| `idle` | `server.go:293-296` | `Begin`: the context with its limit |
| `download` | `uploads.go:44-121` | `StartBatch`, `BatchRefused`, `Transfer` (each file: `CreateFile`, `RequestFails`, `CopyEnds`, `CopyFails`), `BatchDone` |
| `prepare` | `executor.go:43-65` | `Prepare`, `PrepareFails`, `SecondCaptureFails` |
| `start` | 66-98 | `StartBash`, `StartFails` |
| `running`, `killed` | 99-115 | `Interrupt` (select takes `ctx.Done`), `WaitReturns` |
| `collect` | 117-201 | `CollectInline`, `CollectAttached`, `CollectFails`, `InlineFails` |
| `return` | 66-72 | `Return`: the deferred removal of `cwd-<id>` |
| `leave` | `server.go:297-302` | `Leave`: the deferred removal of the input files |

A command is up to five processes: bash, a `child` in its group with all the
pipes, a `quiet` one in the group that writes elsewhere, a `daemon` that called
`setsid` and keeps the pipes, and a `reader` that called `setsid`, writes
elsewhere, and has the input. They start, write, read and end as they like.
Because stdout, stderr and stdin are no `*os.File`, each has a pipe and a
goroutine of the server that copies; `pipes` says which of them still work. The
one of stdin has work only if the input is more than a pipe takes (`feeds`),
until somebody reads it (`ReadInput`). The one of an output ends early if the
capture cannot be written (`OutputFails`, `artifact.go:77-81`), whoever still
has the pipe. `cmd.Wait` waits for bash and for all of them, so `Waited` is
that bash is gone and nobody holds a pipe of `pipes`; without another status of
bash a copy that failed makes the exit code -1 (`CopyFailed`, code `"copy"`).
`Interrupt` may be taken although
`Waited` holds, as `select` chooses among ready cases; `Deadline` may fire late.
An exit trap writes `cwd-<id>` or does not.

Time passes in ticks, some to the second. A link carries its expiry in whole
seconds, the store in full precision: `left` counts the ticks to the instant,
`phase` says where in its second the clock stands. A download is three steps
(check the link, look up the item, open the file) between which the cleanup
round may come. Output is counted in pieces; file content is who wrote it.

`cut`, `mixed`, `mishap` and `wiped` are history, for the exceptions the
properties make: requests whose output was prevented or lost, requests that met another
of their identifier, requests whose captures failed them, and captures a new
process removed.

A request names in `may` what can go wrong with it, so that an instance can
look at one difficulty at a time.

### Durations

`Seconds(n)` is `time.Duration(n) * time.Second` in two's complement. With a
small width the overflows of 64 bits happen for small numbers.

### Lifecycle

`listen` is taken step by step. A loopback port can be had by one process at a
time; the IPv6 listener is optional. A Unix socket is a file (`path`, the
process it leads to) that is removed before listening, made by `net.Listen`,
and unlinked by the process that closes its listener, whoever made it; a killed
process leaves it. `serveErr` counts the values in the channel, `main` is the
main goroutine, `shutdown` the one that waits for the signal. All exits that
exist are `os.Exit`. Two processes may overlap, as they do when
`setup-new-server.sh:112-114` signals the old one and starts the new one at
once. `met` records which did, and `refused` who found the address taken.

## 3. What is checked

Bounds are constants of the configurations.

| run | shows | bounds |
| --- | --- | --- |
| `cache_callers` | `CacheBounded`; `HitAgeWithinTTL`: 0 ≤ age, and less than the lifetime asked for and the maximum; `NoStaleEntry`; `EvictsOnlyTheOldest`; `ImplementsMemo` | 2 callers, 8 keys for 2 places (2 scopes, 4 lifetimes, of which one wraps around to a short and one to a negative), clock to 3, 1 invalidation, integers to 7 |
| `server_cache` | `HitSeesAnsweredWrites`: an answer from the cache saw every command answered before the request arrived; `HitAnswersTheSameRequest`; `CacheIsFresh` | 3 requests, 2 sessions, 2 GPTs, 2 directories, 1 write |
| `server_sessions` | `OneCommandPerSession`; `StartIsCurrent`; `DiskNeverTorn`; `DiskCurrent` | 3 requests, 2 sessions, 1 crash, failing writes, a directory that may vanish |
| `server_liveness` | `EveryRequestEnds` | 2 requests of 10 kinds, failing writes, a directory that may vanish, clock to 1 |
| `executor` | `StorableIsWhole`, `TimedOutLeavesNoGroup`, `NotCutEarly`, `FinalDirIsOwn`, `InputsStayWhole`, `FinishedLeavesNothing`, `LinkServesUntilExpiry`, `ExecutionEnds`, `AttachmentsAreRemoved` | 10 plans for 2 requests (below), limits of 2 and 4 ticks, links of 1 tick at 2 ticks to the second, captures of 2 pieces, 1 piece inline, 1 restart or second process, integers to 19 |
| `audit` | `LogVerifies`, `ReaderVerifies`, `TamperingShows`, `LossShows` | 2 traces with 3 and 1 events, 3 days, retention 1 day, 1 restart, 1 fault (failing call or clock set back), 1 reader |
| `lifecycle_failure` | `RefusedOnlyByTheLiving`, `ServingIsReachable`, `ListenerFailureEndsProcess`, `SignalFreesAddress` | 2 processes, loopback port or Unix socket, 1 request in progress each |
| `server_answer_dir`, `audit_dead_sink`, `audit_retention`, `audit_shared_id`, `lifecycle_signal` | violations, section 5 | |

Why the bounds suffice. A stale hit needs a writer, a reader that stores and a
reader that hits: three requests. A torn or lost session needs a writer, a
failure or crash, and a later writer or reader. Two entries of room and more
keys give eviction with a choice; different lifetimes give entries that expire
while others live. In the audit runs a day is one tick or three, so that each event
may meet midnight; an event that is lost or moved needs one before and one after
it, hence three of one trace, and one of another trace that interleaves.
`server_cache` leaves the clock at 0, because expiry only removes entries and
`cache_callers` treats it in full. An address that is taken or lost needs one
process that had it and one that wants it: two.

`executor` would be too large with requests that may do everything. Its initial
states are plans, each of which lets one difficulty meet all interleavings: a
command with all kinds of processes, a client that leaves and a restart; one
with output on both streams that may be unreadable; one whose daemon writes to a capture that may fail, with no limit of
its own; one with a long input and a process that left the group with it; one
in which every call can fail; one with a limit that overflows; three files whose
names collide after the renaming; two requests of one identifier with files,
with refused batches, and without files. Two requests suffice, since requests
meet only through an identifier, the directory of captures and the store.

Section 4 proves some of this for all values of the constants.

All configurations switch the deadlock check off, because each model has
states in which all requests or events of its bound are done and nothing is
left to do. That no request hangs is `EveryRequestEnds` and `ExecutionEnds`.

Symmetry: the configurations of `CommandServer` without liveness treat
requests as interchangeable. No property and no initial state names one.

Fairness. `EveryRequestEnds` assumes strong fairness of each request's steps
(`Step(r)`). The Go scheduler runs every goroutine that can run; `sync.Mutex`
goes over to direct hand-off once a waiter is starved for a millisecond, so a
request that keeps finding a mutex free gets it in the end; and a command ends,
at the latest when its time limit kills it. The last assumption leaves out a
process that escapes the group (`setsid`) and keeps an output pipe open, or
the input without reading it: in `Executor`, `ExecutionEnds` names this
exception and shows that there is no other. Requests need not arrive, commands need not write, and the process
need not crash: these actions have no fairness.

`Executor` assumes weak fairness of the steps of each handler, of its timer, of
its transfers (the HTTP client gives each ten seconds), of the clock and of the
rounds of cleanup (a ticker). Nothing is assumed of commands, clients,
failures, restarts. `Lifecycle` assumes weak fairness of each goroutine's
steps, but none of signals, failures, or the end of requests.

## 4. What is proved

Every safety property that a run checks is also a theorem: for every number of
requests, sessions, files, cache entries, processes, traces, events, days and
restarts, every width of the integers and every limit. The theorems assume of
the constants what the modules state as `CacheLimits`, `SessionAssumptions`,
`ServerAssumptions`, `CallerLimits`, `DurationAssumptions`,
`StoreAssumptions`, `UploadAssumptions`, `ExecutorAssumptions`,
`AuditAssumptions` and `LifecycleAssumptions`, which TLC evaluates on each
instance: types, limits that are positive, a default time limit within the
maximum. Two theorems about the audit log assume `IdsDiffer` besides (below).

Each invariant below is inductive; its parts say what must be remembered about
the system for the property to survive a step. The proofs have one lemma per
part and, where several actions do the same to a part, one lemma that says
which steps change it and how.

### The cache: `CacheCallersProofs`, `CommandCacheProofs`

| theorem | property |
| --- | --- |
| `CallersTypeCorrect` | `CallersTypeOK` |
| `CacheNeverOutgrows` | `CacheBounded` |
| `HitsAreYoung` | `HitAgeWithinTTL` |
| `NothingStaleIsStored` | `NoStaleEntry` |
| `OnlyTheOldestIsEvicted` | `EvictsOnlyTheOldest` (a property of steps) |
| `CacheKeepsItsPromise` | `ImplementsMemo` (the refinement of `Memo`) |

`CacheBounded` follows from the map's being finite (`FewEntries`) by
counting: a put removes an entry whenever it needs a place (`PutStaysBounded`,
`PutEvictsTheOldest` in `CommandCacheProofs`). `HitAgeWithinTTL` has two
halves. That a hit is young needs that an entry expires after the time its key
names (`Lifetimes`), together with what `DurationsProofs` says about products
that wrap around: they are exact or they are not larger than they should be
(`WrapIsExact`, `WrapNeverGrows`). That a hit is not from the future needs
`LooksBack`: what a caller may find was stored before the caller read the
clock, because nobody else stores under a key of its session (`OnePerScope`)
and a key that was missed stays absent until its caller stores
(`AbsentAfterMiss`). `NoStaleEntry` and the refinement need that comparing
generations finds the callers an invalidation followed (`FreshByGeneration`);
the refinement mapping forgets the instants of entries, and each step of
`CacheCallers` is mapped to one of `Memo` or to none.

### The endpoint: `CommandServerProofs`

| theorem | property |
| --- | --- |
| `TypeCorrect` | `TypeOK` |
| `CacheStaysFresh` | `CacheIsFresh` |
| `HitsAreNeverStale` | `HitSeesAnsweredWrites` |
| `HitsAnswerTheirRequest` | `HitAnswersTheSameRequest` |
| `SessionsAreSerial` | `OneCommandPerSession` |
| `DirectoryIsHandedOver` | `StartIsCurrent` |
| `SessionFileIsWhole` | `DiskNeverTorn` |
| `SessionFileIsCurrent` | `DiskCurrent` |

`FreshInv` is the invariant behind the second and third. Neither of the two
properties is inductive: that entries are fresh depends on what results on
their way to the cache have seen, and this on their generations. `FreshInv`
adds that results that may still be stored are up to date (`StorableUpToDate`),
that no generation in hand lies in the future (`GenerationsArePast`, which
makes an invalidation disqualify all of them), that versions known to the
history variables exist (`Versions`), that only uncached commands have written
(`WritersAreUncached`), and that a hit has taken over what its entry had seen
(`HitsSawTheirFloor`). The decisive step is `InvalidateAfter`: from then on the
command's write counts, and the map is empty and every generation old.

The proof also shows what the first invalidation (`server.go:288-291`) is for:
it is not needed for either property. It keeps requests that arrive while the
command runs from being answered with results from before it started.

`SessionInv` is the invariant behind the last four. A request past the lock
holds it (`InsideHoldsLock`), which gives mutual exclusion and that nobody else
sets its session's directory; a request that writes holds `mu`, and what it
will rename is the map in memory (`WriterHoldsMu`), which gives the file.
`AnswerInv` extends it by who made each entry and each response
(`Attributed`): an entry holds what the request it names found
(`EntriesAreAnswers`), a response in hand that comes from elsewhere was a hit
(`Producers`), and the request that made it has given its session up, because
the one that hits holds it.

### Execution: `ExecutorProofs`

| theorem | property |
| --- | --- |
| `ExecutorTypeCorrect` | `ExecutorTypeOK` |
| `CachedResultsAreWhole` | `StorableIsWhole` |
| `TimeoutEndsTheGroup` | `TimedOutLeavesNoGroup` |
| `DeadlinesAreKept` | `NotCutEarly` |
| `DirectoriesAreOwn` | `FinalDirIsOwn` |
| `InputsAreWhole` | `InputsStayWhole` |
| `NothingIsLeftBehind` | `FinishedLeavesNothing` |
| `LinksServeUntilExpiry` | `LinkServesUntilExpiry` |

`ExecInv` has a part for each thing the handler owns. Of the processes:
that a command stopped at the deadline is told so, and that nothing of its
group is left (`StoppedIsTold`); that whoever lost output was stopped or has a
copy that failed, which becomes an exit code other than 0 (`LossIsTold`); that
after exit code 0 nobody has an output pipe (`NobodyPrints`); that a deadline fires when the
limit is over (`DeadlineIsPast`), from which `NotCutEarly` follows by monotony
of the conversion to ticks and, for limits that do not wrap around,
`WrapIsExact`. Of what is shared by identifier: two requests of one identifier
that are present have met (`PresentHaveMet`), so whoever has met nobody has
`cwd-<id>` and the upload directory to itself (`CwdFileHasOwner`,
`FolderHasOwner`); transfers never make one file twice (`OneFilePerName`), and
what they made is there (`TransfersKeepFiles`) and complete when the handler
goes on (`TransfersAreOver`). Of the captures: each is open, closed and
discarded, or in the store (`CapturesInHand`), and what was published is kept
until it expires (`PublishedIsKept`). The last step of `LinksServeUntilExpiry`
compares whole seconds with instants: a link that is still good in whole
seconds has not expired in ticks.

### The audit log: `AuditLogProofs`

| theorem | property |
| --- | --- |
| `AuditTypeCorrect` | `AuditTypeOK` |
| `LogsVerify` (assuming `IdsDiffer`) | `LogVerifies` |
| `ReadersVerify` (assuming `IdsDiffer`) | `ReaderVerifies` |
| `TamperingIsShown` | `TamperingShows` |
| `LossIsShown` | `LossShows` |

`IdsDiffer` says that different traces have different identifiers. The code
draws them at random unless a client sends its own, and then the property is
false: `audit_shared_id` shows it. `TamperingIsShown` does not need it.
`LossShows` speaks of the requests whose identifier no other has: under a shared
one the numbers of another trace may fill the gap, so that a loss need not show.

The first half of the module is about verification alone, for any lines in any
files. Verification compares neighbours; to conclude something about lines far
apart one goes from one to the next, and what holds of all of them needs an
argument over their number. The library's induction rules cannot be used (they
take a predicate as parameter), but the well-foundedness of `<` can: a set of
natural numbers that is not empty has a least element (`LeastNatural`), so a
set of places has a first one and, being bounded, a last one (`FirstPlace`,
`LastPlace`). With these, `NumbersGrow` and `NoNumberIsLeftOut` show that the
numbers of a trace in files that verify have no gap; `ExchangeShows` and
`RemovalShows` that files with exchanged or removed lines do not verify,
provided that hashes differ and a line names an earlier one (`Unforged`).

The second half is `AuditInv`, in two parts. The first holds whatever fails:
hashes ascend along every trace (`HashesAscend`), every line that is not torn is
that of an event that was made (`LinesAreGenuine`), no two lines have one hash
(`Unforged`), files are read in their order (`ReadInOrder`); and, beside it, a
trace never changes its chain (`OneChainPerTrace`). This is enough for
`TamperingShows` and `LossShows`. The second part, `Orderly`, holds as long as
no line is torn, no Sync failed and the clock was not set back: instants ascend
with hashes (`TimeAscends`), so that days do; a file has the lines of its day
(`Dated`); a line names the hash recorded last, or begins its chain (`Linked`),
because the sink knows it (`SinkIsCurrent`); the log has every event recorded
since its first line, as retention removes the oldest days (`LogIsSuffix`);
what was read has every event between its ends (`Contiguous`). The last one is
the hard one, for the reader meets files of different states of the log. It
needs `ReadingContinues`: of every event after a line that was read, either it
was read too or it stands in the log, in a file that is still to be read; and
days that come while the reader is under way lie after those it has listed. That
retention is harmless rests on its order: a day is removed only when all
earlier ones are.

### The process: `LifecycleProofs`

| theorem | property |
| --- | --- |
| `RefusalsAreJustified` | `RefusedOnlyByTheLiving` |
| `ServersAreReachable` | `ServingIsReachable` |

`LifecycleInv`: of two processes that contend for the address the later one
found the earlier one there (`ContendersHaveMet`), because to contend begins
with being launched; a process that serves holds its essential address
(`EssentialIsHeld`); and only contenders take the path of a Unix socket away
from the process that made it (`NewFileIsOfAContender`, `PathLeadsHome`).

### Only model-checked

All liveness, which the prover cannot treat: `EveryRequestEnds`,
`ExecutionEnds`, `AttachmentsAreRemoved`, `ListenerFailureEndsProcess`,
`SignalFreesAddress`. The violations of section 5 are counterexamples, which
TLC finds.

## 5. Where code and documents disagree

Details with the quoted lines are in `PROJECT.json` (`findings`).

- `server_answer_dir`: a cache hit answers the directory of the stored run, not
  the one the conversation is in (`server.go:272-281`, `openapi.json:102`).
- `audit_dead_sink`: if today's file cannot be opened at a rotation, the sink
  records nothing more until the process restarts (`audit.go:160-169`).
- `audit_retention`: an event may be deleted almost a day before its retention
  is over (`audit.go:185-190`).
- `audit_shared_id`: two requests of a process with one `X-Request-Id` make the
  log fail verification (`server.go:105`, `read.go:72-77`).
- `lifecycle_signal`: after SIGTERM the process does not end by itself, and the
  deferred close of the sink never runs (`main.go:68-76`).

The models met further disagreements, which no run of their own shows. The
properties name them as exceptions where they concern them.

- A client that leaves while a background child still writes: bash has ended
  with 0, the group is killed, `timed_out` is false, and the partial output is
  stored in the cache (`executor.go:106`, `server.go:324`); the exception in
  `StorableIsWhole`.
- Two requests with one `X-Request-Id` at the same time share the upload
  directory and `cwd-<id>` (`uploads.go:54`, `executor.go:71`), though
  `docs/03-file-handling.md:82` says that files are written to a unique
  temporary directory; the exception `mixed`.
- If a capture cannot be read back, both files stay until the next start; if
  the second cannot be made, the descriptor of the first stays open
  (`executor.go:59-64, 162-166`); the exception `mishap`.
- `timeout_seconds` of more than about 9.2·10⁹ wraps around to a limit that is
  over at once (`executor.go:276`), although `openapi.json` gives 38 seconds as
  the cap; `cache_ttl_seconds` may be accepted outside 0 to 60
  (`server.go:217`), but no entry lives longer than 60 seconds.
- The 38 seconds of `README.md:13` are said to be those of the whole request;
  they begin after the wait for the session (`server.go:259, 294`).
- A process started while its predecessor still shuts down may find the port
  taken and exit, or lose its socket file to the predecessor's
  shutdown (`main.go:88, 60`); the exception `met`.

## 6. The plan

The safety properties of all components are proved. What is left:

1. An abstract specification of the session store, a map that a crash sets
   back to its last durable state, with the proof that `SessionStore` under
   `CommandServer` implements it.
2. An abstract specification of the audit log, a list of events that loses its
   oldest days, with the proof that what verifies is a part of it.
3. The parts of liveness that are invariants: that in every state in which a
   request waits for a lock another one holds it and can go on, which leaves
   only fairness to TLC.
4. Relative directories, and the limit on what may wait for a session, if the
   code comes to have one.

## 7. Not modelled

- The HTTP shell, what `mygpt-audit` prints and its flags, the rest of the
  configuration's parsing, and the deployment files: they keep no state that
  changes.
- `CommandServer` and `Executor` as one state space: it would be far too large,
  and the interface between them is an outcome, a directory and an end. What is
  lost is a background child that writes after its request was answered, and a
  client's departure while its request waits for a session.
- Queueing in time for a session, and repeated requests: the code sets no limit
  to the first and does not recognise the second, so that there is no property
  to state beyond what the hazards say.
- Relative directories and symbolic links, for which the models would need a
  file system; the loss of written data at a power failure, about which the
  code makes no promise except `AUDIT_FSYNC`.
- Signatures, hosts of downloads and names of files as strings: these are
  computations on data, taken as injective or as free choices.
