------------------------------ MODULE AuditLog ------------------------------
(***************************************************************************)
(* The audit trail (src/internal/audit): traces that number the events of  *)
(* a request, the file sink that chains all events of a process by hash    *)
(* and rotates its file by date, and the verifier that reads them back.    *)
(*                                                                         *)
(* Trace.Event holds the trace's mutex while the sink appends, and the     *)
(* sink's mutex makes Append one critical section; so an event is two      *)
(* steps, its numbering and its append.  Each way Append can fail is an    *)
(* action.  runCommand ignores the error (server.go:352-365).              *)
(*                                                                         *)
(* Digests are injective, and two events never have the same content, so a *)
(* hash is the number of the event in the order of their making.           *)
(***************************************************************************)
EXTENDS Integers, Sequences, SequencesExt

CONSTANTS Traces,          \* trace objects, one per request
          IdOf,            \* the identifier of each trace
          TicksPerDay, RetentionDays,
          Fsync,           \* AUDIT_FSYNC
          Faults,          \* which calls to the file system may fail, and
                           \* whether the wall clock may be set back
          MaxFailures,     \* bound of the number of such failures
          MaxEvents,       \* bound of the events of each trace
          MaxClock, MaxRestarts,
          ReaderRuns       \* whether somebody reads the log meanwhile

ASSUME AuditAssumptions ==
    /\ IdOf \in [Traces -> STRING]
    /\ MaxEvents \in [Traces -> Nat]
    /\ TicksPerDay \in Nat \ {0}
    /\ RetentionDays \in Nat \ {0}
    /\ Fsync \in BOOLEAN /\ ReaderRuns \in BOOLEAN
    /\ MaxFailures \in Nat /\ MaxClock \in Nat /\ MaxRestarts \in Nat
    /\ Faults \subseteq {"close", "open", "write", "torn", "sync", "clock"}

VARIABLES log,       \* day -> lines of the file of that day, for the files kept
          sink,      \* FileSink: chain, previous hash, date, state of its file
          trace,     \* per trace: its step and its sequence number
          clock,
          made,      \* number of hashes computed
          failures,  \* the faults that happened, in their order
          written,   \* history: per trace, the hash (0 if its n-th event was
                     \* not recorded) and the instant of its n-th event
          reader     \* mygpt-audit: its step, the days whose files it has
                     \* found and not read yet, and, per day, the lines it
                     \* has read

logVars   == <<log, sink, trace, clock, made, failures, written>>
auditVars == <<logVars, reader>>

Torn == [chain |-> 0, trace |-> "", seq |-> 0, prev |-> 0, hash |-> 0, at |-> 0]

(* Fault: every process continues the chain of the first.                  *)
NewSinkSameChain(chain) == [chain |-> 1, prev |-> 0, date |-> -1, file |-> "nil"]

NewSink(chain) == [chain |-> chain, prev |-> 0, date |-> -1, file |-> "nil"]

Today == clock \div TicksPerDay

AuditInit == /\ log = [d \in {} |-> << >>]
             /\ sink = NewSink(1)
             /\ trace = [t \in Traces |-> [step |-> "ready", seq |-> 0]]
             /\ clock = 0
             /\ made = 0
             /\ failures = << >>
             /\ written = [t \in Traces |-> << >>]
             /\ reader = [step |-> "none", todo |-> {}, got |-> [d \in {} |-> << >>]]

----------------------------------------------------------------------------

(* Fault: the trace's mutex is released before the sink appends.           *)
EventUnlocked(t) ==
    /\ trace[t].step # "gone"
    /\ trace[t].seq < MaxEvents[t]
    /\ trace' = [trace EXCEPT ![t].step = "appending", ![t].seq = @ + 1]
    /\ UNCHANGED <<log, sink, clock, made, failures, written>>

(* Trace.Event: the number is taken before, and whether or not, the sink   *)
(* appends.                                                                *)
Event(t) ==
    /\ trace[t].step = "ready"
    /\ trace[t].seq < MaxEvents[t]
    /\ trace' = [trace EXCEPT ![t].step = "appending", ![t].seq = @ + 1]
    /\ UNCHANGED <<log, sink, clock, made, failures, written>>

(* Fault: an event that could not be appended gives its number back.       *)
ReturnsTheNumber(t, hash) ==
    /\ trace[t].step = "appending"
    /\ trace' = [trace EXCEPT ![t].step = "ready",
                              ![t].seq = IF hash = 0 THEN @ - 1 ELSE @]
    /\ written' = [written EXCEPT ![t] = Append(@, [hash |-> hash, at |-> clock])]

Returns(t, hash) ==
    /\ trace[t].step = "appending"
    /\ trace' = [trace EXCEPT ![t].step = "ready"]
    /\ written' = [written EXCEPT ![t] = Append(@, [hash |-> hash, at |-> clock])]

Fails(kind) == /\ kind \in Faults
               /\ Len(failures) < MaxFailures
               /\ failures' = Append(failures, kind)

MustRotate == sink.date # Today \/ sink.file = "nil"

(* rotate gives up before a new file is open: closing the old file fails,  *)
(* which leaves it closed.                                                 *)
CloseFails(t) ==
    /\ Returns(t, 0)
    /\ MustRotate
    /\ sink.file = "open" /\ Fails("close")
    /\ sink' = [sink EXCEPT !.file = "closed"]
    /\ UNCHANGED <<log, clock, made>>

(* An earlier rotation has closed the file: rotate closes it again, which  *)
(* fails; or the clock has come back to the file's date, and the write to  *)
(* it fails (the event's hash is then seen by nobody).                     *)
FileWasClosed(t) ==
    /\ Returns(t, 0)
    /\ sink.file = "closed"
    /\ UNCHANGED <<log, sink, clock, made, failures>>

(* ... or the old file is closed and the new one cannot be opened.         *)
OpenFails(t) ==
    /\ Returns(t, 0)
    /\ MustRotate /\ Fails("open")
    /\ sink.file # "closed"
    /\ sink' = [sink EXCEPT !.file = IF @ = "open" THEN "closed" ELSE @]
    /\ UNCHANGED <<log, clock, made>>

(* A file is open, or rotate can open one.                                 *)
CanWrite == sink.file # "closed"

(* cleanup: files whose date lies before the cutoff are removed.           *)
Outdated(d) == d * TicksPerDay < clock - RetentionDays * TicksPerDay

Kept(files) == {d \in files : d = Today \/ ~ Outdated(d)}

(* The files after rotate if it is due, with a line added to today's.      *)
LogWith(lines) ==
    LET files == IF MustRotate THEN Kept(DOMAIN log) ELSE DOMAIN log
        old   == IF Today \in DOMAIN log THEN log[Today] ELSE << >>
    IN  [d \in files \cup {Today} |-> IF d = Today THEN old \o lines ELSE log[d]]

Line(t) == [chain |-> sink.chain, trace |-> IdOf[t], seq |-> trace[t].seq,
            prev |-> sink.prev, hash |-> made + 1, at |-> clock]

Opened == [sink EXCEPT !.date = Today, !.file = "open"]

AppendEvent(t) ==
    /\ Returns(t, made + 1)
    /\ CanWrite
    /\ log' = LogWith(<<Line(t)>>)
    /\ made' = made + 1
    /\ sink' = [Opened EXCEPT !.prev = made + 1]
    /\ UNCHANGED <<clock, failures>>

(* The write fails, with nothing or with a part of the line in the file.   *)
WriteFails(t) ==
    /\ Returns(t, 0)
    /\ CanWrite
    /\ \/ Fails("write") /\ log' = LogWith(<< >>)
       \/ Fails("torn") /\ log' = LogWith(<<Torn>>)
    /\ made' = made + 1
    /\ sink' = Opened
    /\ UNCHANGED clock

(* The line is in the file, and Append returns before the chain advances.  *)
SyncFails(t) ==
    /\ Returns(t, made + 1)
    /\ CanWrite
    /\ Fsync /\ Fails("sync")
    /\ log' = LogWith(<<Line(t)>>)
    /\ made' = made + 1
    /\ sink' = Opened
    /\ UNCHANGED clock

CloseSink == /\ sink.file # "nil"
             /\ sink' = [sink EXCEPT !.file = "nil"]
             /\ UNCHANGED <<log, trace, clock, made, failures, written>>

(* A new process opens a new chain; the requests of the old one are gone.  *)
RestartProcess ==
    /\ sink.chain <= MaxRestarts
    /\ sink' = NewSink(sink.chain + 1)
    /\ trace' = [t \in Traces |-> IF trace[t].seq = 0 THEN trace[t]
                                  ELSE [trace[t] EXCEPT !.step = "gone"]]
    /\ UNCHANGED <<log, clock, made, failures, written>>

Tick == /\ clock < MaxClock
        /\ clock' = clock + 1
        /\ UNCHANGED <<log, sink, trace, made, failures, written>>

(* The wall clock is set back: Append turns to the file of an earlier day. *)
ClockStepsBack == /\ clock > 0
                  /\ Fails("clock")
                  /\ clock' = clock - 1
                  /\ UNCHANGED <<log, sink, trace, made, written>>

----------------------------------------------------------------------------
(* mygpt-audit, which runs beside the server: audit.Read opens one file    *)
(* after the other, while lines are added and files made and removed.      *)

(* Fault: the files are taken with the latest first.                       *)
LatestFirst(d, e) == d > e

(* Files, sorted by name, that is by date.                                 *)
Earlier(d, e) == d < e

ReaderStarts == /\ ReaderRuns
                /\ reader.step = "none"
                /\ reader' = [reader EXCEPT !.step = "reading", !.todo = DOMAIN log]
                /\ UNCHANGED logVars

(* The file that is opened next.                                           *)
IsNext(d) == /\ d \in reader.todo
             /\ \A e \in reader.todo : e = d \/ Earlier(d, e)

ReadsFile == \E d \in DOMAIN log :
    /\ IsNext(d)
    /\ reader' = [reader EXCEPT
           !.todo = @ \ {d},
           !.got = [e \in DOMAIN @ \cup {d} |-> IF e = d THEN log[d] ELSE @[e]]]
    /\ UNCHANGED logVars

(* The file was removed meanwhile: Read fails.                             *)
FileIsGone == \E d \in reader.todo :
    /\ IsNext(d)
    /\ d \notin DOMAIN log
    /\ reader' = [step |-> "failed", todo |-> {}, got |-> [e \in {} |-> << >>]]
    /\ UNCHANGED logVars

----------------------------------------------------------------------------

Logging == \/ \E t \in Traces : \/ Event(t) \/ AppendEvent(t) \/ CloseFails(t)
                                \/ FileWasClosed(t) \/ OpenFails(t)
                                \/ WriteFails(t) \/ SyncFails(t)
           \/ CloseSink
           \/ RestartProcess
           \/ Tick
           \/ ClockStepsBack

AuditNext == \/ Logging /\ UNCHANGED reader
             \/ ReaderStarts \/ ReadsFile \/ FileIsGone

AuditSpec == AuditInit /\ [][AuditNext]_auditVars

----------------------------------------------------------------------------
(* What is read and verified: the lines of some days, es.  Read returns    *)
(* them in one sequence, file by file and line by line; here a line is     *)
(* known by its place, a day and a number in the file of that day.         *)

Places(es) == UNION {{d} \X DOMAIN es[d] : d \in DOMAIN es}

At(es, p) == es[p[1]][p[2]]

(* Read: the order in which it returns the lines.                          *)
Before(p, q) == \/ Earlier(p[1], q[1])
                \/ p[1] = q[1] /\ p[2] < q[2]

Between(es, p, q) == {m \in Places(es) : Before(p, m) /\ Before(m, q)}

(* The lines at p and q follow each other among those alike.               *)
Consecutive(es, p, q, Alike(_, _)) ==
    /\ Before(p, q)
    /\ Alike(At(es, p), At(es, q))
    /\ \A m \in Between(es, p, q) : ~ Alike(At(es, m), At(es, q))

SameChain(a, b) == a.chain = b.chain
SameTrace(a, b) == a.chain = b.chain /\ a.trace = b.trace

(* Fault: the hashes are not compared.                                     *)
VerifySequencesOnly(es) ==
    /\ \A p \in Places(es) : At(es, p) # Torn
    /\ \A p, q \in Places(es) :
          Consecutive(es, p, q, SameTrace) => At(es, q).seq = At(es, p).seq + 1

(* Verify: every event that is not the first of its chain names its        *)
(* predecessor's hash, and every event that is not the first of its trace  *)
(* has the next number.  A line that is no event makes Read fail.          *)
Verify(es) ==
    /\ \A p \in Places(es) : At(es, p) # Torn
    /\ \A p, q \in Places(es) :
          /\ Consecutive(es, p, q, SameChain) => At(es, q).prev = At(es, p).hash
          /\ Consecutive(es, p, q, SameTrace) => At(es, q).seq = At(es, p).seq + 1

----------------------------------------------------------------------------

AuditTypeOK ==
    /\ DOMAIN log \subseteq 0..(MaxClock \div TicksPerDay)
    /\ sink.file \in {"nil", "open", "closed"}
    /\ sink.prev <= made
    /\ \A t \in Traces : /\ trace[t].step \in {"ready", "appending", "gone"}
                         /\ trace[t].seq - Len(written[t]) \in {0, 1}

(* Between two events of one trace there is one that was not recorded.     *)
Gap == \E t \in Traces : \E i, j, m \in DOMAIN written[t] :
          /\ i < m /\ m < j
          /\ written[t][m].hash = 0
          /\ written[t][i].hash # 0 /\ written[t][j].hash # 0

Excused ==
    \/ Gap
    \/ \E i \in DOMAIN failures : failures[i] \in {"torn", "sync", "clock"}

(* The verifier raises no false alarm: a log passes verification over      *)
(* midnights, restarts, retention, a sink closed and used again, failed    *)
(* rotations and writes, and any interleaving of requests, unless a line   *)
(* is torn, an event is missing, a Sync failed (the line is there, but the *)
(* next one names the predecessor again, audit.go:147-150) or the clock    *)
(* was set back (docs/05-troubleshooting.md:17, audit_test.go:11-40).  It  *)
(* is so if the traces have different identifiers, and not otherwise: see  *)
(* MCAudit.cfg and MCAuditSharedId.cfg.                                    *)
LogVerifies == Verify(log) \/ Excused

(* ... and neither does it when mygpt-audit reads the files while the      *)
(* server writes: what it has got by then is a part of the log that        *)
(* follows on, even if a day begins and files are removed between its      *)
(* steps (read.go:10-43).                                                  *)
ReaderVerifies == Verify(reader.got) \/ Excused

Exchanged(es, p, q) == [es EXCEPT ![p[1]][p[2]] = At(es, q),
                                  ![q[1]][q[2]] = At(es, p)]

Without(es, p) == [es EXCEPT ![p[1]] = RemoveAt(@, p[2])]

(* A log that passes verification stops passing it when an event between   *)
(* two others of its chain is deleted, or two events of a chain are        *)
(* exchanged (docs/08-audit-tracing.md, on what the chain can show).       *)
TamperingShows ==
    Verify(log) => \A p, q \in Places(log) :
        Before(p, q) /\ SameChain(At(log, p), At(log, q)) =>
        /\ ~ Verify(Exchanged(log, p, q))
        /\ \A m \in Between(log, p, q) :
              SameChain(At(log, m), At(log, p)) => ~ Verify(Without(log, m))

InLog(hash) == hash # 0 /\ \E p \in Places(log) : At(log, p).hash = hash

(* No other trace, of this process or another, has t's identifier.         *)
HasOwnId(t) == \A u \in Traces : IdOf[u] = IdOf[t] => u = t

(* If Append fails on an event of a request and an earlier and a later one *)
(* are in the log, the log does not pass verification: the number of an    *)
(* event is spent even if it is not recorded (audit.go:75-80).  This is    *)
(* claimed only of a request whose identifier no other request has: the    *)
(* server takes a client's X-Request-Id (server.go:105), and the event of  *)
(* another request under the same identifier may have the missing number.  *)
LossShows ==
    Verify(log) => \A t \in Traces : \A i, j \in DOMAIN written[t] :
        /\ HasOwnId(t)
        /\ i < j /\ InLog(written[t][i].hash) /\ InLog(written[t][j].hash)
        => \A m \in i..j : written[t][m].hash # 0

(* "Kept for 30 days by default" (docs/08-audit-tracing.md:117): an event  *)
(* less than RetentionDays old is in the log.                              *)
EventsAreRetained ==
    \A t \in Traces : \A n \in DOMAIN written[t] :
        LET e == written[t][n]
        IN  e.hash # 0 /\ clock - e.at < RetentionDays * TicksPerDay
            => InLog(e.hash)

(* "Every request that is not a health check enters the verifiable audit   *)
(* chain" (docs/05-troubleshooting.md:17): a sink that failed once can     *)
(* still be written to.                                                    *)
SinkAcceptsEvents == CanWrite
=============================================================================
