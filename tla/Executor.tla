------------------------------ MODULE Executor ------------------------------
(***************************************************************************)
(* What happens to a command between the look-up in the cache and the      *)
(* offer of its result (src/internal/agent/server.go:293-308): its input   *)
(* files are downloaded, bash runs in a process group of its own, execute  *)
(* waits for it or kills the group (executor.go), and its output is put    *)
(* into the answer or published.  Requests of different sessions do so at  *)
(* the same time; they may carry the same request identifier, which names  *)
(* their upload directory and the file in which bash leaves its directory. *)
(*                                                                         *)
(* Commands are programs of their users: bash and the processes it starts  *)
(* write output, end, or go on for ever as they like.  The server process  *)
(* may stop and a new one start, while what bash started lives on; and a   *)
(* second process may start over the same directories while this one still *)
(* serves, as when setup-new-server.sh does not wait for the old one.      *)
(***************************************************************************)
EXTENDS ArtifactStore, Uploads, Durations

CONSTANTS Inputs,          \* what requests may carry
          Plans,           \* which requests carry what
          NoInput,         \* a request that is never sent
          Nobody,
          Configured,      \* COMMAND_TIMEOUT_SECONDS
          DefaultTimeout,  \* 38 s, in the unit of a duration
          InlineLimit,     \* INLINE_OUTPUT_CHARS, in pieces of output
          MaxRestarts      \* bound of restarts and of second processes

Kinds == {"child", "quiet", "daemon", "reader"}

(* What may go wrong while a request is served: a call of the server that  *)
(* fails, a client that leaves, a process that stops or is joined.         *)
Mishaps == {"prepare", "capture", "start", "write", "read", "cancel",
            "restart"}

ASSUME ExecutorAssumptions ==
    /\ Batches = Requests
    /\ Inputs \subseteq [id : Ids, refs : Seq([name : Seq(STRING),
                                               expanded : BOOLEAN]),
                         seconds : Int, kinds : SUBSET Kinds,
                         streams : SUBSET Streams, feeds : BOOLEAN,
                         may : SUBSET Mishaps]
    /\ Plans \subseteq [Requests -> Inputs \cup {NoInput}]
    /\ NoInput \notin Inputs /\ Nobody \notin Requests
    /\ Configured \in Int /\ DefaultTimeout \in Nat \ {0}
    /\ InlineLimit \in Nat \ {0}
    /\ MaxRestarts \in Nat

VARIABLES input,       \* what each request carries; it feeds a command if its
                       \* stdin is more than a pipe takes
          at,          \* how far its handler is
          ctx,         \* the context of the request: "live", or why not
          elapsed,     \* ticks since the context was made, while it is live
          proc,        \* per request, the processes of its command
          pipes,       \* per request, the pipes of its command on which the
                       \* server still works
          code,        \* bash's exit status, or "copy" for -1 without one
          cwdFile,     \* per identifier, whose directory cwd-<id> holds
          answer,      \* per request: outcome, timedOut, whose directory
          restarts,
          cut,         \* history: requests with output prevented or lost
          mixed,       \* history: requests that met another of their identifier
          mishap,      \* history: requests whose captures failed them
          wiped        \* history: capture files removed by a new process

execVars == <<input, at, ctx, elapsed, proc, pipes, code, cwdFile, answer>>
histVars == <<restarts, cut, mixed, mishap, wiped>>
vars == <<storeVars, uploadVars, execVars, histVars>>

Bash == "bash"

NoProcess == [k \in Kinds \cup {Bash} |-> "none"]

NoAnswer == [outcome |-> "none", timedOut |-> FALSE, dir |-> Nobody]

(* Handlers that are under way, from the context to the last deferred call. *)
Busy == {"download", "prepare", "start", "running", "killed", "collect",
         "return", "leave"}

Goto(r, place) == at' = [at EXCEPT ![r] = place]

Moves(r, from, to) == at[r] = from /\ Goto(r, to)

Up(r, k) == proc[r][k] = "up"

(* The pipes of whose one end a process has a copy.  A quiet process sent  *)
(* its output elsewhere and reads nothing; a reader sent its output        *)
(* elsewhere, but has the input.                                           *)
Ends(k) == CASE k = "quiet"  -> {}
             [] k = "reader" -> {"stdin"}
             [] OTHER        -> Streams \cup {"stdin"}

Holds(r, k, p) == Up(r, k) /\ p \in Ends(k) \cap pipes[r]

(* Daemons and readers have called setsid and are not in bash's group.     *)
Group == {Bash, "child", "quiet"}

Maximum == CommandTimeout(Configured, DefaultTimeout)

Limit(r) == RequestTimeout(input[r].seconds, Maximum)

(* A deadline in whole ticks; one in the past is over at once.             *)
TicksOf(d) == IF d <= 0 THEN 0 ELSE (d * TicksPerSecond) \div Second

Id(r) == input[r].id

Sharing(r) == {q \in Requests \ {r} : /\ at[q] \in Busy \cup {"lost"}
                                      /\ Id(q) = Id(r)}

----------------------------------------------------------------------------
(* The context and the input files.                                        *)

Begin(r) ==
    /\ input[r] # NoInput
    /\ Moves(r, "idle", IF input[r].refs = << >> THEN "prepare" ELSE "download")
    /\ mixed' = IF Sharing(r) = {} THEN mixed ELSE mixed \cup {r} \cup Sharing(r)
    /\ UNCHANGED <<storeVars, uploadVars, input, ctx, elapsed, proc, pipes,
                   code, cwdFile, answer, restarts, cut, mishap, wiped>>

(* The timer of the context fires at the deadline or later.                *)
Deadline(r) ==
    /\ at[r] \in Busy
    /\ ctx[r] = "live" /\ elapsed[r] >= TicksOf(Limit(r))
    /\ ctx' = [ctx EXCEPT ![r] = "deadline"]
    /\ UNCHANGED <<storeVars, uploadVars, input, at, elapsed, proc, pipes,
                   code, cwdFile, answer, histVars>>

(* The client goes away.                                                   *)
Cancel(r) ==
    /\ at[r] \in Busy
    /\ "cancel" \in input[r].may
    /\ ctx[r] = "live"
    /\ ctx' = [ctx EXCEPT ![r] = "canceled"]
    /\ elapsed' = [elapsed EXCEPT ![r] = 0]
    /\ UNCHANGED <<storeVars, uploadVars, input, at, proc, pipes, code,
                   cwdFile, answer, histVars>>

Fail(r) == answer' = [answer EXCEPT ![r].outcome = "error"]

StartBatch(r) ==
    /\ at[r] = "download" /\ transfer[r] = << >>
    /\ StartTransfers(r, Id(r), input[r].refs)
    /\ UNCHANGED <<storeVars, execVars, histVars>>

BatchRefused(r) ==
    /\ transfer[r] = << >>
    /\ Moves(r, "download", "done")
    /\ \/ RejectReference(Id(r), input[r].refs)
       \/ RejectBatch(input[r].refs)
    /\ Fail(r)
    /\ UNCHANGED <<storeVars, input, ctx, elapsed, proc, pipes, code, cwdFile,
                   histVars>>

(* One step of downloadOne for file i.                                     *)
Transfer(r, i) ==
    /\ at[r] = "download"
    /\ LET name == Names(input[r].refs)[i]
       IN  \/ CreateFile(r, i, Id(r), name) \/ RequestFails(r, i)
           \/ CopyEnds(r, i) \/ CopyFails(r, i, Id(r), name)
    /\ UNCHANGED <<storeVars, execVars, histVars>>

BatchDone(r) ==
    /\ transfer[r] # << >>
    /\ \/ Moves(r, "download", "prepare") /\ BatchSucceeds(r)
          /\ UNCHANGED answer
       \/ Moves(r, "download", "done") /\ BatchFails(r, Id(r)) /\ Fail(r)
    /\ UNCHANGED <<storeVars, input, ctx, elapsed, proc, pipes, code, cwdFile,
                   histVars>>

----------------------------------------------------------------------------
(* execute, until bash runs.                                               *)

(* The directory is resolved once more and both capture files are made.    *)
Prepare(r) ==
    /\ Moves(r, "prepare", "start")
    /\ NewCaptures(CapturesOf(r))
    /\ UNCHANGED <<written, truncated, items, left, phase, download,
                   uploadVars, input, ctx, elapsed, proc, pipes, code, cwdFile,
                   answer, histVars>>

PrepareFails(r) ==
    /\ Moves(r, "prepare", "leave")
    /\ "prepare" \in input[r].may
    /\ Fail(r)
    /\ UNCHANGED <<storeVars, uploadVars, input, ctx, elapsed, proc, pipes,
                   code, cwdFile, histVars>>

(* The file for stderr cannot be made: the one for stdout is removed, but  *)
(* its descriptor stays open.                                              *)
SecondCaptureFails(r) ==
    /\ Moves(r, "prepare", "leave")
    /\ "capture" \in input[r].may
    /\ Fail(r)
    /\ fds' = fds \cup {<<r, "stdout">>}
    /\ mishap' = mishap \cup {r}
    /\ UNCHANGED <<files, written, truncated, items, left, phase, download,
                   uploadVars, input, ctx, elapsed, proc, pipes, code, cwdFile,
                   restarts, cut, mixed, wiped>>

(* Stdout, stderr and stdin are no os.File, so that each has a pipe and a  *)
(* goroutine that copies; that of a short stdin ends at once.              *)
StartBash(r) ==
    /\ Moves(r, "start", "running")
    /\ proc' = [proc EXCEPT ![r][Bash] = "up"]
    /\ pipes' = [pipes EXCEPT ![r] =
                    Streams \cup IF input[r].feeds THEN {"stdin"} ELSE {}]
    /\ UNCHANGED <<storeVars, uploadVars, input, ctx, elapsed, code, cwdFile,
                   answer, histVars>>

(* The deferred calls close the captures and remove cwd-<id>.              *)
StartFails(r) ==
    /\ Moves(r, "start", "return")
    /\ "start" \in input[r].may
    /\ Fail(r)
    /\ files' = files \ CapturesOf(r)
    /\ fds' = fds \ CapturesOf(r)
    /\ UNCHANGED <<written, truncated, items, left, phase, download,
                   uploadVars, input, ctx, elapsed, proc, pipes, code, cwdFile,
                   histVars>>

----------------------------------------------------------------------------
(* What the command does.                                                  *)

Fork(r, k) ==
    /\ Up(r, Bash)
    /\ k \in input[r].kinds /\ proc[r][k] = "none"
    /\ proc' = [proc EXCEPT ![r][k] = "up"]
    /\ UNCHANGED <<storeVars, uploadVars, input, at, ctx, elapsed, pipes, code,
                   cwdFile, answer, histVars>>

(* A process writes to a pipe that the server still reads.                 *)
Prints(r, s) == /\ at[r] \in {"running", "killed"}
                /\ s \in input[r].streams
                /\ \E k \in Kinds \cup {Bash} : Holds(r, k, s)

(* A piece of output gets through the pipe into the capture.               *)
Output(r) ==
    /\ \E s \in Streams : Prints(r, s) /\ WriteCapped(<<r, s>>)
    /\ UNCHANGED <<files, fds, items, left, phase, download, uploadVars,
                   execVars, histVars>>

(* The write to the capture fails: the goroutine ends and closes its end   *)
(* of the pipe, whoever still has the other.                               *)
OutputFails(r) ==
    /\ \E s \in Streams : /\ Prints(r, s) /\ WriteFails(<<r, s>>)
                          /\ pipes' = [pipes EXCEPT ![r] = @ \ {s}]
    /\ "write" \in input[r].may
    /\ cut' = cut \cup {r}
    /\ UNCHANGED <<files, fds, written, items, left, phase, download,
                   uploadVars, input, at, ctx, elapsed, proc, code, cwdFile,
                   answer, restarts, mixed, mishap, wiped>>

(* A process reads what there is of the input.                             *)
ReadInput(r) ==
    /\ at[r] \in {"running", "killed"}
    /\ \E k \in Kinds \cup {Bash} : Holds(r, k, "stdin")
    /\ pipes' = [pipes EXCEPT ![r] = @ \ {"stdin"}]
    /\ UNCHANGED <<storeVars, uploadVars, input, at, ctx, elapsed, proc, code,
                   cwdFile, answer, histVars>>

(* Bash ends; its EXIT trap has left its directory in cwd-<id>, unless the *)
(* command replaced the trap or bash itself.                               *)
BashExits(r) ==
    /\ Up(r, Bash)
    /\ proc' = [proc EXCEPT ![r][Bash] = "gone"]
    /\ \E status \in {"zero", "other"} : code' = [code EXCEPT ![r] = status]
    /\ \/ cwdFile' = [cwdFile EXCEPT ![Id(r)] = r]
       \/ UNCHANGED cwdFile
    /\ UNCHANGED <<storeVars, uploadVars, input, at, ctx, elapsed, pipes,
                   answer, histVars>>

ChildExits(r, k) ==
    /\ Up(r, k)
    /\ proc' = [proc EXCEPT ![r][k] = "gone"]
    /\ UNCHANGED <<storeVars, uploadVars, input, at, ctx, elapsed, pipes, code,
                   cwdFile, answer, histVars>>

----------------------------------------------------------------------------
(* execute, from the select on.                                            *)

(* Wait waits for bash, and then for the goroutines: one that copies       *)
(* output ends when nobody has the pipe any more or when it failed, that   *)
(* of the input when all was read or nobody can read it.                   *)
Waited(r) == /\ ~ Up(r, Bash)
             /\ \A k \in Kinds, p \in pipes[r] : ~ Holds(r, k, p)

(* Fault: the error of the copying is dropped.                             *)
CopyErrorDropped(r) == FALSE

CopyFailed(r) == ~ (Streams \subseteq pipes[r])

(* Fault: only bash is killed.                                             *)
KillBash(r) == [proc[r] EXCEPT ![Bash] = IF @ = "up" THEN "gone" ELSE @]

(* SIGKILL to the group.                                                   *)
KillGroup(r) == [k \in Kinds \cup {Bash} |->
                    IF k \in Group /\ Up(r, k) THEN "gone" ELSE proc[r][k]]

(* Fault: a deadline is not told from a cancellation.                      *)
TimedOutNever(r) == FALSE

TimedOut(r) == ctx[r] = "deadline"

(* select chooses the context, possibly although Wait has returned too.    *)
Interrupt(r) ==
    /\ Moves(r, "running", "killed")
    /\ ctx[r] # "live"
    /\ answer' = [answer EXCEPT ![r].timedOut = TimedOut(r)]
    /\ proc' = [proc EXCEPT ![r] = KillGroup(r)]
    /\ code' = [code EXCEPT ![r] = IF Up(r, Bash) THEN "killed" ELSE @]
    /\ cut' = IF Up(r, Bash) \/ Up(r, "child") THEN cut \cup {r} ELSE cut
    /\ UNCHANGED <<storeVars, uploadVars, input, ctx, elapsed, pipes, cwdFile,
                   restarts, mixed, mishap, wiped>>

(* Without a status of bash that is not zero, the error is that of the     *)
(* copying, and the exit code -1.                                          *)
WaitReturns(r) ==
    /\ at[r] \in {"running", "killed"}
    /\ Waited(r)
    /\ Goto(r, "collect")
    /\ fds' = fds \ CapturesOf(r)
    /\ code' = [code EXCEPT ![r] = IF @ = "zero" /\ CopyFailed(r) THEN "copy"
                                                                  ELSE @]
    /\ pipes' = [pipes EXCEPT ![r] = {}]
    /\ UNCHANGED <<files, written, truncated, items, left, phase, download,
                   uploadVars, input, ctx, elapsed, proc, cwdFile, answer,
                   histVars>>

Truncated(r) == CapturesOf(r) \cap truncated # {}

Total(r) == written[<<r, "stdout">>] + written[<<r, "stderr">>]

Inline(r) == Total(r) <= InlineLimit /\ ~ Truncated(r)

Readable(r) == CapturesOf(r) \subseteq files

(* The directory bash left in cwd-<id>, if any: whose it is.               *)
Collects(r, outcome) ==
    /\ Moves(r, "collect", "return")
    /\ answer' = [answer EXCEPT ![r].outcome = outcome,
                                ![r].dir = cwdFile[Id(r)]]
    /\ Forget(CapturesOf(r))
    /\ UNCHANGED <<fds, download, uploadVars, input, ctx, elapsed, proc, pipes,
                   code, cwdFile, restarts, cut, mixed, wiped>>

CollectInline(r) ==
    /\ Inline(r) /\ Readable(r)
    /\ Dispose(CapturesOf(r), {})
    /\ Collects(r, "inline")
    /\ UNCHANGED mishap

CollectAttached(r) ==
    /\ ~ Inline(r) /\ Readable(r)
    /\ LET full == {c \in CapturesOf(r) : written[c] > 0}
       IN  Dispose(CapturesOf(r) \ full, full)
    /\ Collects(r, "attached")
    /\ UNCHANGED mishap

(* The captures cannot be read: whatever there is of them stays.           *)
CollectFails(r) ==
    /\ Collects(r, "error")
    /\ ~ Readable(r) \/ "read" \in input[r].may
    /\ mishap' = mishap \cup {r}
    /\ UNCHANGED <<files, items, left, phase>>

(* ... or only for the answer, after they were counted and before they are *)
(* discarded.                                                              *)
InlineFails(r) ==
    /\ Collects(r, "error")
    /\ Inline(r) /\ Readable(r)
    /\ "read" \in input[r].may
    /\ Dispose(CapturesOf(r), {})
    /\ UNCHANGED mishap

(* Fault: the file stays.                                                  *)
ReturnLeavesFile(r) ==
    /\ Moves(r, "return", "leave")
    /\ UNCHANGED <<storeVars, uploadVars, input, ctx, elapsed, proc, pipes,
                   code, cwdFile, answer, histVars>>

(* execute returns: the deferred removal of cwd-<id>.                      *)
Return(r) ==
    /\ Moves(r, "return", "leave")
    /\ cwdFile' = [cwdFile EXCEPT ![Id(r)] = Nobody]
    /\ UNCHANGED <<storeVars, uploadVars, input, ctx, elapsed, proc, pipes,
                   code, answer, histVars>>

(* runCommand returns: the deferred removal of the input files.            *)
Leave(r) ==
    /\ Moves(r, "leave", "done")
    /\ IF input[r].refs # << >> THEN RemoveFolder(Id(r))
                                ELSE UNCHANGED <<folders, inputs>>
    /\ UNCHANGED <<storeVars, transfer, input, ctx, elapsed, proc, pipes, code,
                   cwdFile, answer, histVars>>

Handler(r) == \/ StartBatch(r) \/ BatchRefused(r) \/ BatchDone(r)
              \/ Prepare(r) \/ PrepareFails(r) \/ SecondCaptureFails(r)
              \/ StartBash(r) \/ StartFails(r)
              \/ Interrupt(r) \/ WaitReturns(r)
              \/ CollectInline(r) \/ CollectAttached(r)
              \/ CollectFails(r) \/ InlineFails(r)
              \/ Return(r) \/ Leave(r)

----------------------------------------------------------------------------
(* Time, clients with links, other server processes.                       *)

Tick == /\ PassTime
        /\ elapsed' = [r \in Requests |->
              IF at[r] \in Busy /\ ctx[r] = "live" /\ elapsed[r] < TicksOf(Limit(r))
              THEN elapsed[r] + 1 ELSE elapsed[r]]
        /\ UNCHANGED <<uploadVars, input, at, ctx, proc, pipes, code, cwdFile,
                       answer, histVars>>

Client == /\ CheckLink \/ LookUpItem \/ OpenFile \/ DownloadEnds
          /\ UNCHANGED <<uploadVars, execVars, histVars>>

CleanupRound == /\ Cleanup
                /\ UNCHANGED <<uploadVars, execVars, histVars>>

(* The server stops and starts again.  Processes of commands, upload       *)
(* directories and cwd files stay; the captures are removed.               *)
Restart ==
    /\ restarts < MaxRestarts
    /\ \E r \in Requests : input[r] # NoInput /\ "restart" \in input[r].may
    /\ restarts' = restarts + 1
    /\ NewStore
    /\ wiped' = wiped \cup files
    /\ at' = [r \in Requests |-> IF at[r] \in Busy THEN "lost" ELSE at[r]]
    /\ pipes' = [r \in Requests |-> {}]
    /\ UNCHANGED <<uploadVars, input, ctx, elapsed, proc, code, cwdFile,
                   answer, cut, mixed, mishap>>

(* A second process starts while this one still serves its requests: it    *)
(* removes the captures in the common directory, open or not.              *)
SecondProcess ==
    /\ restarts < MaxRestarts
    /\ \E r \in Requests : input[r] # NoInput /\ "restart" \in input[r].may
    /\ restarts' = restarts + 1
    /\ files' = {}
    /\ wiped' = wiped \cup files
    /\ UNCHANGED <<fds, written, truncated, items, left, phase, download,
                   uploadVars, execVars, cut, mixed, mishap>>

----------------------------------------------------------------------------

Init == /\ StoreInit /\ UploadInit
        /\ input \in Plans
        /\ at = [r \in Requests |-> "idle"]
        /\ ctx = [r \in Requests |-> "live"]
        /\ proc = [r \in Requests |-> NoProcess]
        /\ pipes = [r \in Requests |-> {}]
        /\ code = [r \in Requests |-> "none"]
        /\ cwdFile = [id \in Ids |-> Nobody]
        /\ answer = [r \in Requests |-> NoAnswer]
        /\ restarts = 0
        /\ elapsed = [r \in Requests |-> 0]
        /\ cut = {} /\ mixed = {} /\ mishap = {} /\ wiped = {}

Next == \/ \E r \in Requests : \/ Begin(r) \/ Deadline(r) \/ Cancel(r)
                               \/ \E i \in DOMAIN transfer[r] : Transfer(r, i)
                               \/ \E k \in Kinds : Fork(r, k) \/ ChildExits(r, k)
                               \/ Output(r) \/ OutputFails(r) \/ ReadInput(r)
                               \/ BashExits(r)
                               \/ Handler(r)
        \/ Tick \/ Client \/ CleanupRound
        \/ Restart \/ SecondProcess

Spec == Init /\ [][Next]_vars

(* Goroutines that can go on do, time passes, timers fire and transfers    *)
(* end (each has ten seconds).  Nothing is assumed of commands, clients or *)
(* failures.                                                               *)
Fairness ==
    /\ WF_vars(Tick) /\ WF_vars(CleanupRound)
    /\ \A r \in Requests :
          /\ WF_vars(Handler(r)) /\ WF_vars(Deadline(r))
          /\ WF_vars(\E i \in DOMAIN transfer[r] : Transfer(r, i))

FairSpec == Spec /\ Fairness

----------------------------------------------------------------------------

ExecutorTypeOK ==
    /\ StoreTypeOK /\ UploadTypeOK
    /\ at \in [Requests -> Busy \cup {"idle", "done", "lost"}]
    /\ ctx \in [Requests -> {"live", "deadline", "canceled"}]
    /\ elapsed \in [Requests -> 0..TicksOf(Maximum)]
    /\ pipes \in [Requests -> SUBSET (Streams \cup {"stdin"})]
    /\ cwdFile \in [Ids -> Requests \cup {Nobody}]
    /\ \A r \in Requests :
          /\ at[r] \in {"idle", "download", "prepare"} => proc[r] = NoProcess
          /\ at[r] \in {"start", "running", "killed"} => CapturesOf(r) \subseteq fds

Answered(r) == at[r] \in {"return", "leave", "done"}

(* A result that may be cached holds all the output the command was making *)
(* (server.go:324): status 0, in time, not truncated and without           *)
(* attachments imply that no output was lost to a capture that could not   *)
(* be written, that no process was killed that still had a pipe, and that  *)
(* none is left that has one.  When the client went away, output may be    *)
(* missing: the group is killed then too, and TimedOut stays false         *)
(* (executor.go:105-106).                                                  *)
StorableIsWhole ==
    \A r \in Requests :
        /\ Answered(r) /\ answer[r].outcome = "inline"
        /\ code[r] = "zero" /\ ~ answer[r].timedOut
        => /\ r \notin cut \/ ctx[r] = "canceled"
           /\ \A k \in Kinds : Up(r, k) => Ends(k) \cap Streams = {}

(* "A timeout ends the whole POSIX process group" (README.md:13): when an  *)
(* answer says timed_out, no process of the group is left, whatever bash   *)
(* and its children did before (executor.go:105-111).                      *)
TimedOutLeavesNoGroup ==
    \A r \in Requests : Answered(r) /\ answer[r].timedOut =>
        \A k \in Group : ~ Up(r, k)

(* No command that names a limit is stopped by the deadline before this    *)
(* limit or the server's is over, if the limit is expressible in a         *)
(* Duration; one that names none gets the server's (executor.go:272-281,   *)
(* config.go:67-69).                                                       *)
NotCutEarly ==
    \A r \in Requests : answer[r].timedOut /\ Fits(input[r].seconds) =>
        LET asked == input[r].seconds * Second
        IN  elapsed[r] >= TicksOf(IF asked > 0 /\ asked < Maximum THEN asked
                                                                 ELSE Maximum)

(* The directory an answer reports is the one its own command left, or the *)
(* one it started in, unless a request of the same identifier ran at the   *)
(* same time or was cut off by a restart (executor.go:71-72, 125-132).     *)
FinalDirIsOwn ==
    \A r \in Requests : r \notin mixed /\ answer[r].outcome # "error" =>
        answer[r].dir \in {r, Nobody}

(* While bash runs, each file of the request is there under its name, with *)
(* the content of its own link: none was overwritten or taken away, and no *)
(* two have one name (uploads.go:63-84, 161); again for requests that met  *)
(* no other of their identifier.  docs/03-file-handling.md:82 gives each   *)
(* request a unique directory.                                             *)
InputsStayWhole ==
    \A r \in Requests \ mixed : at[r] = "running" =>
        \A i \in DOMAIN input[r].refs :
            /\ transfer[r][i] = "kept"
            /\ [id |-> Id(r), name |-> Names(input[r].refs)[i], by |-> <<r, i>>]
                   \in inputs

(* A request that is done leaves nothing behind: no transfer that goes on, *)
(* no descriptor, no capture that is not published, no input file, no      *)
(* upload directory, on any path through the handler (uploads.go:113-118,  *)
(* server.go:302, executor.go:66-72) - except where its captures failed    *)
(* it, and what a later request of its identifier has put there.           *)
FinishedLeavesNothing ==
    \A r \in Requests \ (mixed \cup mishap) : at[r] = "done" =>
        /\ States(r) \subseteq {"kept", "failed"}
        /\ CapturesOf(r) \cap fds = {}
        /\ CapturesOf(r) \cap files \subseteq items
        /\ \A f \in inputs : f.by[1] # r
        /\ Sharing(r) = {} => Id(r) \notin folders /\ cwdFile[Id(r)] = Nobody

(* A link is refused only after the instant its artifact expires, although *)
(* expiry is compared in whole seconds here and in nanoseconds there, and  *)
(* the loop may remove the file between the steps of a download            *)
(* (artifact.go:136-163, 179-192); or a new process removed the files.     *)
LinkServesUntilExpiry ==
    download.step \in {"expired", "missing"} =>
        \A c \in download.of : Expired(c) \/ c \in wiped

(* Every request that begins comes to its end, unless the server stops, or *)
(* processes that left the group keep a pipe for ever, one for output that *)
(* could be written or the input that they do not read: nothing else its   *)
(* command does can make it wait (executor.go:76-78, 101-112).             *)
ExecutionEnds ==
    \A r \in Requests : at[r] \in Busy ~>
        \/ at[r] \notin Busy
        \/ [](\E k \in Kinds \ Group, p \in pipes[r] : Holds(r, k, p))

(* A published file is removed in the end (artifact.go:179-192).           *)
AttachmentsAreRemoved == \A c \in Captures : c \in items ~> c \notin files
=============================================================================
