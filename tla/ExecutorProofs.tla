--------------------------- MODULE ExecutorProofs ---------------------------
(* Theorems about the commands of any number of requests.                  *)
EXTENDS Executor, DurationsProofs, SequenceTheorems

Places == Busy \cup {"idle", "done", "lost"}

TransferStates == {"asked", "copying", "kept", "failed"}

ExecTypes ==
    /\ input \in Plans
    /\ at \in [Requests -> Places]
    /\ ctx \in [Requests -> {"live", "deadline", "canceled"}]
    /\ elapsed \in [Requests -> 0..TicksOf(Maximum)]
    /\ proc \in [Requests -> [Kinds \cup {Bash} -> {"none", "up", "gone"}]]
    /\ pipes \in [Requests -> SUBSET (Streams \cup {"stdin"})]
    /\ code \in [Requests -> {"none", "zero", "other", "killed", "copy"}]
    /\ cwdFile \in [Ids -> Requests \cup {Nobody}]
    /\ answer \in [Requests -> [outcome : {"none", "inline", "attached", "error"},
                                timedOut : BOOLEAN,
                                dir : Requests \cup {Nobody}]]
    /\ \A r \in Requests : at[r] # "idle" => input[r] \in Inputs

StoreTypes == /\ StoreTypeOK
              /\ left \in [DOMAIN left -> Int]
              /\ download \in [step : {"none", "valid", "expired", "found",
                                       "missing", "served"},
                               of : SUBSET Captures]

(* The file that transfer i of request r makes.                            *)
FileOf(r, i) == [id |-> Id(r), name |-> Names(input[r].refs)[i], by |-> <<r, i>>]

UploadTypes ==
    /\ folders \subseteq Ids
    /\ transfer \in [Requests -> UNION {[D -> TransferStates] : D \in SUBSET Nat}]
    /\ \A r \in Requests :
          /\ at[r] = "download" => input[r].refs # << >>
          /\ transfer[r] # << >> => /\ at[r] # "idle" /\ input[r].refs # << >>
                                   /\ DOMAIN transfer[r] = DOMAIN input[r].refs
    /\ \A f \in inputs : /\ f.id \in folders
                         /\ \E r \in Requests : \E i \in DOMAIN transfer[r] :
                               f = FileOf(r, i)

Types == ExecTypes /\ StoreTypes /\ UploadTypes

----------------------------------------------------------------------------
(* Bash has not been started yet.                                          *)
Early == {"idle", "download", "prepare", "start"}

(* Wait has returned, or bash was never started.                           *)
Late == {"collect", "return", "leave", "done"}

(* The process is still there that would remove what the request made.     *)
Present(r) == at[r] \in Busy \cup {"lost"}

(* Processes begin with bash, and bash is what the handler waits for.      *)
ProcessesKnown ==
    \A r \in Requests :
        /\ at[r] \in Early => proc[r] = NoProcess
        /\ Up(r, Bash) => at[r] \in {"running", "lost"}

(* The deadline fires when the limit is over.                              *)
DeadlineIsPast ==
    \A r \in Requests :
        /\ at[r] = "idle" => ctx[r] = "live"
        /\ ctx[r] = "deadline" => elapsed[r] >= TicksOf(Limit(r))

(* Who was stopped at the deadline is told so, and nothing of its group is *)
(* left.                                                                   *)
StoppedIsTold ==
    \A r \in Requests : answer[r].timedOut =>
        /\ at[r] \notin Early \cup {"running"}
        /\ ctx[r] = "deadline"
        /\ \A k \in Group : ~ Up(r, k)

(* The command was stopped, and is told so if it was at the deadline.      *)
Stopped(r) == /\ at[r] # "running" /\ ctx[r] # "live"
              /\ ctx[r] = "deadline" => answer[r].timedOut

(* Who lost output was stopped, or its copying failed and its exit code    *)
(* will not be, or is not, 0.                                              *)
LossIsTold ==
    \A r \in Requests : r \in cut =>
        /\ at[r] \notin Early
        /\ \/ Stopped(r)
           \/ CopyFailed(r) /\ at[r] \in {"running", "killed"}
           \/ at[r] = "lost"
           \/ at[r] \in Late /\ code[r] # "zero"

(* After exit code 0 no process has a pipe for output any more.            *)
NobodyPrints ==
    \A r \in Requests : at[r] \in Late /\ code[r] = "zero" =>
        \A k \in Kinds : Up(r, k) => Ends(k) \cap Streams = {}

(* Two requests of one identifier that are present have met.               *)
PresentHaveMet ==
    \A q, r \in Requests : q # r /\ Present(q) /\ Present(r) /\ Id(q) = Id(r)
                              => q \in mixed /\ r \in mixed

(* What is left in cwd-<id> is of a request that will still remove it, or  *)
(* was lost.                                                               *)
CwdFileHasOwner ==
    \A id \in Ids : cwdFile[id] # Nobody =>
        /\ Id(cwdFile[id]) = id
        /\ at[cwdFile[id]] \in {"running", "killed", "collect", "return", "lost"}

(* The directory of an answer is that of the command itself.               *)
DirIsOwn == \A r \in Requests \ mixed : answer[r].dir \in {r, Nobody}

(* An upload directory is of a request that will still remove it, or was   *)
(* lost.                                                                   *)
FolderHasOwner ==
    \A id \in folders : \E r \in Requests : /\ Present(r) /\ Id(r) = id
                                            /\ transfer[r] # << >>

(* Two transfers never make the same file.                                 *)
OneFilePerName ==
    \A f, g \in inputs : f.id = g.id /\ f.name = g.name => f = g

(* What a transfer made is there while nobody else may remove it.          *)
TransfersKeepFiles ==
    \A r \in Requests \ mixed : at[r] \in Busy =>
        \A i \in DOMAIN transfer[r] :
            transfer[r][i] \in {"copying", "kept"} => FileOf(r, i) \in inputs

(* All transfers have ended when the handler goes on.                      *)
TransfersAreOver ==
    \A r \in Requests :
        /\ at[r] \in Busy \ {"download"} =>
              /\ DOMAIN transfer[r] = DOMAIN input[r].refs
              /\ States(r) \subseteq {"kept"}
        /\ at[r] = "done" => /\ States(r) \subseteq {"kept", "failed"}
                             /\ \A f \in inputs : f.by[1] # r

(* A request's captures are open while bash runs, and then closed; the     *)
(* files that remain are in the store.                                     *)
CapturesInHand ==
    \A r \in Requests :
        /\ at[r] \in {"start", "running", "killed"} => CapturesOf(r) \subseteq fds
        /\ at[r] \notin {"start", "running", "killed"} /\ r \notin mishap =>
              CapturesOf(r) \cap fds = {}
        /\ at[r] \notin {"start", "running", "killed", "collect"} /\ r \notin mishap =>
              CapturesOf(r) \cap files \subseteq items

(* A capture is published once, and from then on kept until it expires.    *)
PublishedIsKept ==
    \A c \in DOMAIN left :
        /\ at[c[1]] \in {"return", "leave", "done", "lost"}
        /\ c \in items \cap files \/ Expired(c) \/ c \in wiped

(* A download is of one capture.                                           *)
OneAtATime == \A c, d \in download.of : c = d

(* The inductive invariant.                                                *)
ExecInv == /\ Types
           /\ ProcessesKnown /\ DeadlineIsPast /\ StoppedIsTold
           /\ LossIsTold /\ NobodyPrints
           /\ PresentHaveMet /\ CwdFileHasOwner /\ DirIsOwn
           /\ FolderHasOwner /\ OneFilePerName
           /\ TransfersKeepFiles /\ TransfersAreOver
           /\ CapturesInHand /\ PublishedIsKept
           /\ OneAtATime /\ LinkServesUntilExpiry

----------------------------------------------------------------------------
(* Time limits.                                                            *)

(* Whole ticks of a longer time are not fewer.                             *)
LEMMA DivisionIsMonotone ==
    ASSUME NEW a \in Nat, NEW b \in Nat, a <= b, NEW k \in Nat \ {0}
    PROVE  a \div k \in Nat /\ a \div k <= b \div k
  BY SMTT(60)

(* Ticks are a natural number, and a shorter limit has no more of them.    *)
LEMMA TicksAreMonotone ==
    ASSUME NEW d \in Int, NEW e \in Int, d <= e
    PROVE  TicksOf(d) \in Nat /\ TicksOf(d) <= TicksOf(e)
  <1>1. ASSUME NEW x \in Nat \ {0}, NEW y \in Nat \ {0}, x <= y
        PROVE  /\ x * TicksPerSecond \in Nat /\ y * TicksPerSecond \in Nat
               /\ x * TicksPerSecond <= y * TicksPerSecond
    <2>1. ASSUME NEW t \in Nat PROVE x * t \in Nat /\ y * t \in Nat
      OBVIOUS
    <2>2. ASSUME NEW t \in Nat PROVE x * t <= y * t
      BY <1>1
    <2> QED
      BY <2>1, <2>2, StoreAssumptions
  <1>2. CASE d <= 0 /\ e <= 0
    BY <1>2 DEF TicksOf
  <1>3. CASE d <= 0 /\ e > 0
    <2>1. e * TicksPerSecond \in Nat
      BY <1>1, <1>3
    <2>2. (e * TicksPerSecond) \div Second \in Nat
      BY <2>1, DivisionIsMonotone, DurationAssumptions
    <2> QED
      BY <1>3, <2>2 DEF TicksOf
  <1>4. CASE d > 0 /\ e > 0
    <2>1. /\ d * TicksPerSecond \in Nat /\ e * TicksPerSecond \in Nat
          /\ d * TicksPerSecond <= e * TicksPerSecond
      BY <1>1, <1>4
    <2>2. /\ (d * TicksPerSecond) \div Second \in Nat
          /\ (d * TicksPerSecond) \div Second <= (e * TicksPerSecond) \div Second
      BY <2>1, DivisionIsMonotone, DurationAssumptions
    <2> QED
      BY <1>4, <2>2 DEF TicksOf
  <1> QED
    BY <1>2, <1>3, <1>4

(* The server has a positive limit, and no request gets a longer one,      *)
(* whatever it asks for.                                                   *)
LEMMA LimitsAreBounded ==
    /\ Maximum \in 1 .. DefaultTimeout
    /\ \A n \in Int : /\ RequestTimeout(n, Maximum) \in Int
                      /\ RequestTimeout(n, Maximum) <= Maximum
  <1>1. \A n \in Int : Seconds(n) \in Int
    <2>1. ASSUME NEW n \in Int PROVE n * Second \in Int
      BY DurationAssumptions
    <2> QED
      BY <2>1, WrapInRange, DurationAssumptions DEF Seconds
  <1>2. Maximum \in 1 .. DefaultTimeout
    BY <1>1, ExecutorAssumptions DEF Maximum, CommandTimeout
  <1> QED
    BY <1>1, <1>2 DEF RequestTimeout

(* What a request carries, and what that says of its limit.                *)
LEMMA InputFacts ==
    ASSUME NEW r \in Requests, input[r] \in Inputs
    PROVE  /\ Id(r) \in Ids
           /\ input[r].seconds \in Int
           /\ DOMAIN input[r].refs \subseteq Nat
           /\ input[r].refs # << >> => DOMAIN input[r].refs # {}
           /\ TicksOf(Limit(r)) \in 0 .. TicksOf(Maximum)
  <1>1. /\ Id(r) \in Ids /\ input[r].seconds \in Int
        /\ input[r].refs \in Seq([name : Seq(STRING), expanded : BOOLEAN])
    BY ExecutorAssumptions DEF Id
  <1>2. /\ DOMAIN input[r].refs \subseteq Nat
        /\ input[r].refs # << >> => DOMAIN input[r].refs # {}
    <2> DEFINE S == [name : Seq(STRING), expanded : BOOLEAN]
               refs == input[r].refs
    <2> HIDE DEF S, refs
    <2>1. refs \in Seq(S)
      BY <1>1 DEF S, refs
    <2>2. Len(refs) \in Nat /\ DOMAIN refs = 1 .. Len(refs)
      BY <2>1, LenProperties
    <2>3. refs # << >> => Len(refs) \in Nat \ {0}
      BY <2>1, EmptySeq
    <2>4. DOMAIN refs \subseteq Nat /\ (refs # << >> => 1 \in DOMAIN refs)
      BY <2>2, <2>3
    <2> QED
      BY <2>4 DEF refs
  <1>3. Limit(r) \in Int /\ Limit(r) <= Maximum /\ Maximum \in Int
    BY SMTT(30), <1>1, LimitsAreBounded DEF Limit
  <1>4. TicksOf(Limit(r)) \in Nat /\ TicksOf(Limit(r)) <= TicksOf(Maximum)
    BY ONLY <1>3, TicksAreMonotone
  <1>5. TicksOf(Maximum) \in Nat
    BY ONLY <1>3, TicksAreMonotone
  <1> QED
    BY <1>1, <1>2, <1>4, <1>5

----------------------------------------------------------------------------
(* Types.                                                                  *)

(* What becomes of the captures of r when execute ends: they are discarded *)
(* or published, or they are left as they are.                             *)
Disposes(r) ==
    \E outcome \in {"inline", "attached", "error"} :
        /\ Collects(r, outcome)
        /\ \/ r \in mishap' /\ UNCHANGED <<files, items, left, phase>>
           \/ /\ Readable(r)
              /\ \E published \in SUBSET CapturesOf(r) :
                    Dispose(CapturesOf(r) \ published, published)

(* Each way to collect disposes of the captures.                           *)
LEMMA CollectsDispose ==
    ASSUME NEW r \in Requests,
           CollectInline(r) \/ CollectAttached(r) \/ CollectFails(r) \/ InlineFails(r)
    PROVE  Disposes(r)
  <1>1. ASSUME CollectInline(r) \/ InlineFails(r) PROVE Disposes(r)
    <2>1. {} \in SUBSET CapturesOf(r) /\ CapturesOf(r) \ {} = CapturesOf(r)
      OBVIOUS
    <2> QED
      BY <1>1, <2>1 DEF CollectInline, InlineFails, Disposes
  <1>2. ASSUME CollectAttached(r) PROVE Disposes(r)
    <2> DEFINE full == {c \in CapturesOf(r) : written[c] > 0}
    <2>1. full \in SUBSET CapturesOf(r)
      OBVIOUS
    <2> QED
      BY <1>2, <2>1 DEF CollectAttached, Disposes
  <1>3. ASSUME CollectFails(r) PROVE Disposes(r)
    BY <1>3 DEF CollectFails, Disposes
  <1> QED
    BY <1>1, <1>2, <1>3

(* A step of the system changes no variable of the executor, or is one of  *)
(* these.                                                                  *)
LEMMA StepCases ==
    ASSUME [Next]_vars
    PROVE  \/ UNCHANGED <<execVars, histVars>>
           \/ \E r \in Requests :
                \/ Begin(r) \/ Deadline(r) \/ Cancel(r)
                \/ BatchRefused(r) \/ BatchDone(r)
                \/ Prepare(r) \/ PrepareFails(r) \/ SecondCaptureFails(r)
                \/ StartBash(r) \/ StartFails(r)
                \/ OutputFails(r) \/ ReadInput(r)
                \/ BashExits(r) \/ (\E k \in Kinds : Fork(r, k) \/ ChildExits(r, k))
                \/ Interrupt(r) \/ WaitReturns(r)
                \/ Disposes(r) \/ Return(r) \/ Leave(r)
           \/ Tick \/ Restart \/ SecondProcess
  BY CollectsDispose
  DEF Next, Handler, vars, StartBatch, Transfer, Output, Client, CleanupRound

(* Which steps change which of these variables.                            *)
LEMMA Changes ==
    ASSUME [Next]_vars
    PROVE  /\ input' = input
           /\ \/ at' = at \/ Restart
              \/ \E r \in Requests, place \in Busy \cup {"done"} :
                    /\ at' = [at EXCEPT ![r] = place]
                    /\ Begin(r) \/ at[r] \in Busy
           /\ \/ ctx' = ctx
              \/ \E r \in Requests : Deadline(r) \/ Cancel(r)
           /\ \/ elapsed' = elapsed \/ Tick
              \/ \E r \in Requests : Cancel(r)
           /\ \/ proc' = proc
              \/ \E r \in Requests : \/ StartBash(r) \/ BashExits(r) \/ Interrupt(r)
                                     \/ \E k \in Kinds : Fork(r, k) \/ ChildExits(r, k)
           /\ \/ pipes' = pipes \/ Restart
              \/ \E r \in Requests : \/ StartBash(r) \/ OutputFails(r)
                                     \/ ReadInput(r) \/ WaitReturns(r)
           /\ \/ code' = code
              \/ \E r \in Requests : BashExits(r) \/ Interrupt(r) \/ WaitReturns(r)
           /\ \/ cwdFile' = cwdFile
              \/ \E r \in Requests : BashExits(r) \/ Return(r)
           /\ \/ answer' = answer
              \/ \E r \in Requests :
                    \/ Fail(r) \/ Interrupt(r)
                    \/ \E outcome \in {"inline", "attached", "error"} :
                          Collects(r, outcome)
           /\ mixed' = mixed \/ \E r \in Requests : Begin(r)
           /\ \/ cut' = cut
              \/ \E r \in Requests : OutputFails(r) \/ Interrupt(r)
  <1>1. input' = input
    BY ZenonT(30), StepCases
    DEF execVars, histVars, OutputFails, ReadInput, Begin, Deadline, Cancel,
        BatchRefused, BatchDone, Prepare, PrepareFails, SecondCaptureFails,
        StartBash, StartFails, Fork, BashExits, ChildExits, Interrupt,
        WaitReturns, Disposes, Collects, Return, Leave, Tick, Restart,
        SecondProcess
  <1>2. \/ at' = at \/ Restart
        \/ \E r \in Requests, place \in Busy \cup {"done"} :
              /\ at' = [at EXCEPT ![r] = place]
              /\ Begin(r) \/ at[r] \in Busy
    <2>1. ASSUME NEW r \in Requests, Begin(r)
          PROVE  \E place \in Busy \cup {"done"} : at' = [at EXCEPT ![r] = place]
      BY <2>1 DEF Begin, Moves, Goto, Busy
    <2> DEFINE Goes(r) == \E place \in Busy \cup {"done"} :
                             at[r] \in Busy /\ at' = [at EXCEPT ![r] = place]
    <2>2. ASSUME NEW r \in Requests,
                 \/ BatchRefused(r) \/ BatchDone(r)
                 \/ Prepare(r) \/ PrepareFails(r) \/ SecondCaptureFails(r)
          PROVE  Goes(r)
      BY <2>2
      DEF BatchRefused, BatchDone, Prepare, PrepareFails, SecondCaptureFails,
          Moves, Goto, Busy
    <2>3. ASSUME NEW r \in Requests,
                 \/ StartBash(r) \/ StartFails(r) \/ Interrupt(r)
                 \/ Disposes(r) \/ Return(r) \/ Leave(r)
          PROVE  Goes(r)
      BY <2>3
      DEF StartBash, StartFails, Interrupt, Disposes, Collects, Return, Leave,
          Moves, Goto, Busy
    <2>4. ASSUME NEW r \in Requests, WaitReturns(r) PROVE Goes(r)
      BY <2>4 DEF WaitReturns, Goto, Busy
    <2>5. ASSUME \/ UNCHANGED <<execVars, histVars>> \/ Tick \/ SecondProcess
                 \/ \E r \in Requests : \/ Deadline(r) \/ Cancel(r)
                                        \/ OutputFails(r) \/ ReadInput(r)
          PROVE  at' = at
      BY <2>5 DEF execVars, Tick, SecondProcess, Deadline, Cancel, OutputFails,
                  ReadInput
    <2>6. ASSUME NEW r \in Requests,
                 BashExits(r) \/ \E k \in Kinds : Fork(r, k) \/ ChildExits(r, k)
          PROVE  at' = at
      BY <2>6 DEF BashExits, Fork, ChildExits
    <2> HIDE DEF Goes
    <2>7. at' = at \/ Restart \/ \E r \in Requests : Begin(r) \/ Goes(r)
      BY StepCases, <2>2, <2>3, <2>4, <2>5, <2>6
    <2> QED
      BY <2>1, <2>7 DEF Goes
  <1>3. \/ ctx' = ctx
        \/ \E r \in Requests : Deadline(r) \/ Cancel(r)
    BY ZenonT(30), StepCases
    DEF execVars, histVars, OutputFails, ReadInput, Begin, BatchRefused,
        BatchDone, Prepare, PrepareFails, SecondCaptureFails, StartBash,
        StartFails, Fork, BashExits, ChildExits, Interrupt, WaitReturns,
        Disposes, Collects, Return, Leave, Tick, Restart, SecondProcess
  <1>4. \/ elapsed' = elapsed \/ Tick
        \/ \E r \in Requests : Cancel(r)
    BY ZenonT(30), StepCases
    DEF execVars, histVars, OutputFails, ReadInput, Begin, Deadline,
        BatchRefused, BatchDone, Prepare, PrepareFails, SecondCaptureFails,
        StartBash, StartFails, Fork, BashExits, ChildExits, Interrupt,
        WaitReturns, Disposes, Collects, Return, Leave, Restart, SecondProcess
  <1>5. \/ proc' = proc
        \/ \E r \in Requests : \/ StartBash(r) \/ BashExits(r) \/ Interrupt(r)
                               \/ \E k \in Kinds : Fork(r, k) \/ ChildExits(r, k)
    BY StepCases
    DEF execVars, histVars, OutputFails, ReadInput, Begin, Deadline, Cancel,
        BatchRefused, BatchDone, Prepare, PrepareFails, SecondCaptureFails,
        StartFails, WaitReturns, Disposes, Collects, Return, Leave, Tick,
        Restart, SecondProcess
  <1>6. \/ code' = code
        \/ \E r \in Requests : BashExits(r) \/ Interrupt(r) \/ WaitReturns(r)
    BY ZenonT(30), StepCases
    DEF execVars, histVars, OutputFails, ReadInput, Begin, Deadline, Cancel,
        BatchRefused, BatchDone, Prepare, PrepareFails, SecondCaptureFails,
        StartBash, StartFails, Fork, ChildExits, Disposes, Collects, Return,
        Leave, Tick, Restart, SecondProcess
  <1>7. \/ cwdFile' = cwdFile
        \/ \E r \in Requests : BashExits(r) \/ Return(r)
    BY ZenonT(30), StepCases
    DEF execVars, histVars, OutputFails, ReadInput, Begin, Deadline, Cancel,
        BatchRefused, BatchDone, Prepare, PrepareFails, SecondCaptureFails,
        StartBash, StartFails, Fork, ChildExits, Interrupt, WaitReturns,
        Disposes, Collects, Leave, Tick, Restart, SecondProcess
  <1>8. \/ answer' = answer
        \/ \E r \in Requests :
              \/ Fail(r) \/ Interrupt(r)
              \/ \E outcome \in {"inline", "attached", "error"} :
                    Collects(r, outcome)
    BY StepCases
    DEF execVars, histVars, OutputFails, ReadInput, Begin, Deadline, Cancel,
        BatchRefused, BatchDone, Prepare, PrepareFails, SecondCaptureFails,
        StartBash, StartFails, Fork, BashExits, ChildExits, WaitReturns,
        Disposes, Return, Leave, Tick, Restart, SecondProcess
  <1>9. mixed' = mixed \/ \E r \in Requests : Begin(r)
    BY ZenonT(30), StepCases
    DEF histVars, OutputFails, ReadInput, Deadline, Cancel, BatchRefused,
        BatchDone, Prepare, PrepareFails, SecondCaptureFails, StartBash,
        StartFails, Fork, BashExits, ChildExits, Interrupt, WaitReturns,
        Disposes, Collects, Return, Leave, Tick, Restart, SecondProcess
  <1>10. \/ pipes' = pipes \/ Restart
         \/ \E r \in Requests : \/ StartBash(r) \/ OutputFails(r)
                                \/ ReadInput(r) \/ WaitReturns(r)
    BY ZenonT(30), StepCases
    DEF execVars, histVars, Begin, Deadline, Cancel, BatchRefused, BatchDone,
        Prepare, PrepareFails, SecondCaptureFails, StartFails, Fork, BashExits,
        ChildExits, Interrupt, Disposes, Collects, Return, Leave, Tick,
        SecondProcess
  <1>11. \/ cut' = cut
         \/ \E r \in Requests : OutputFails(r) \/ Interrupt(r)
    BY ZenonT(30), StepCases
    DEF histVars, Begin, Deadline, Cancel, BatchRefused, BatchDone, Prepare,
        PrepareFails, SecondCaptureFails, StartBash, StartFails, Fork, ReadInput,
        BashExits, ChildExits, WaitReturns, Disposes, Collects, Return, Leave,
        Tick, Restart, SecondProcess
  <1> QED
    BY <1>1, <1>2, <1>3, <1>4, <1>5, <1>6, <1>7, <1>8, <1>9, <1>10, <1>11

(* A request goes one step further through its handler.                    *)
Advances(r) ==
    \/ Begin(r) /\ at[r] = "idle" /\ at'[r] \in {"download", "prepare"}
    \/ BatchRefused(r) /\ at[r] = "download" /\ at'[r] = "done"
    \/ BatchDone(r) /\ at[r] = "download" /\ at'[r] \in {"prepare", "done"}
    \/ Prepare(r) /\ at[r] = "prepare" /\ at'[r] = "start"
    \/ /\ PrepareFails(r) \/ SecondCaptureFails(r)
       /\ at[r] = "prepare" /\ at'[r] = "leave"
    \/ StartBash(r) /\ at[r] = "start" /\ at'[r] = "running"
    \/ StartFails(r) /\ at[r] = "start" /\ at'[r] = "return"
    \/ Interrupt(r) /\ at[r] = "running" /\ at'[r] = "killed"
    \/ WaitReturns(r) /\ at[r] \in {"running", "killed"} /\ at'[r] = "collect"
    \/ Disposes(r) /\ at[r] = "collect" /\ at'[r] = "return"
    \/ Return(r) /\ at[r] = "return" /\ at'[r] = "leave"
    \/ Leave(r) /\ at[r] = "leave" /\ at'[r] = "done"

(* There is no other way for it, unless the server stops.                  *)
LEMMA Way ==
    ASSUME at \in [Requests -> Places], [Next]_vars, NEW r \in Requests
    PROVE  at'[r] = at[r] \/ (at[r] \in Busy /\ at'[r] = "lost") \/ Advances(r)
  <1> DEFINE Goes == \E q \in Requests : at' = [at EXCEPT ![q] = at'[q]] /\ Advances(q)
  <1>1. ASSUME NEW q \in Requests,
               \/ Begin(q) \/ BatchRefused(q) \/ BatchDone(q)
               \/ Prepare(q) \/ PrepareFails(q) \/ SecondCaptureFails(q)
        PROVE  Goes
    BY <1>1
    DEF Begin, BatchRefused, BatchDone, Prepare, PrepareFails, SecondCaptureFails,
        Moves, Goto, Advances
  <1>2. ASSUME NEW q \in Requests,
               \/ StartBash(q) \/ StartFails(q) \/ Interrupt(q) \/ WaitReturns(q)
               \/ Return(q) \/ Leave(q)
        PROVE  Goes
    BY <1>2
    DEF StartBash, StartFails, Interrupt, WaitReturns, Return, Leave, Moves, Goto,
        Advances
  <1>3. ASSUME NEW q \in Requests, Disposes(q) PROVE Goes
    <2>1. at[q] = "collect" /\ at' = [at EXCEPT ![q] = "return"]
      BY <1>3 DEF Disposes, Collects, Moves, Goto
    <2> QED
      BY <1>3, <2>1 DEF Advances
  <1>4. \/ at' = at \/ Restart
        \/ \E q \in Requests :
             \/ Begin(q) \/ BatchRefused(q) \/ BatchDone(q)
             \/ Prepare(q) \/ PrepareFails(q) \/ SecondCaptureFails(q)
             \/ StartBash(q) \/ StartFails(q) \/ Interrupt(q) \/ WaitReturns(q)
             \/ Disposes(q) \/ Return(q) \/ Leave(q)
    BY StepCases
    DEF execVars, Deadline, Cancel, OutputFails, ReadInput, BashExits, Fork,
        ChildExits, Tick, SecondProcess
  <1>5. CASE Restart
    BY <1>5 DEF Restart
  <1>6. ASSUME Goes PROVE at'[r] = at[r] \/ Advances(r)
    BY <1>6
  <1> HIDE DEF Goes
  <1> QED
    BY <1>1, <1>2, <1>3, <1>4, <1>5, <1>6

(* The variables of the executor keep their types.                         *)
LEMMA StepExecTypes ==
    ASSUME ExecTypes, [Next]_vars
    PROVE  ExecTypes'
  <1>1. input' = input /\ input' \in Plans
    BY Changes DEF ExecTypes
  <1>2. at' \in [Requests -> Places]
    BY SMTT(30), Changes DEF ExecTypes, Restart, Places, Busy
  <1>3. \A r \in Requests : at'[r] # "idle" => input'[r] \in Inputs
    <2>1. \A r \in Requests : Begin(r) => input[r] \in Inputs
      BY ExecutorAssumptions DEF ExecTypes, Begin
    <2>2. \A r \in Requests : at'[r] # "idle" => at[r] # "idle" \/ Begin(r)
      BY SMTT(30), Changes DEF ExecTypes, Restart, Busy
    <2> QED
      BY <1>1, <2>1, <2>2 DEF ExecTypes
  <1>4. ctx' \in [Requests -> {"live", "deadline", "canceled"}]
    BY Changes DEF ExecTypes, Deadline, Cancel
  <1>5. elapsed' \in [Requests -> 0..TicksOf(Maximum)]
    <2>1. \A r \in Requests : at[r] # "idle" =>
              TicksOf(Limit(r)) \in 0 .. TicksOf(Maximum)
      BY InputFacts DEF ExecTypes
    <2>2. TicksOf(Maximum) \in Nat
      BY ONLY LimitsAreBounded, TicksAreMonotone, ExecutorAssumptions
    <2>3. elapsed \in [Requests -> 0..TicksOf(Maximum)]
      BY DEF ExecTypes
    <2>4. ASSUME NEW r \in Requests, Cancel(r)
          PROVE  elapsed' \in [Requests -> 0..TicksOf(Maximum)]
      BY <2>2, <2>3, <2>4 DEF Cancel
    <2>5. ASSUME Tick
          PROVE  elapsed' \in [Requests -> 0..TicksOf(Maximum)]
      BY <2>1, <2>2, <2>3, <2>5 DEF Tick, Busy
    <2> QED
      BY Changes, <2>3, <2>4, <2>5
  <1>6. proc' \in [Requests -> [Kinds \cup {Bash} -> {"none", "up", "gone"}]]
    <2> DEFINE P == [Kinds \cup {Bash} -> {"none", "up", "gone"}]
    <2>1. ASSUME NEW r \in Requests, NEW k \in Kinds \cup {Bash},
                 NEW x \in {"none", "up", "gone"}
          PROVE  [proc[r] EXCEPT ![k] = x] \in P
      BY DEF ExecTypes
    <2>2. ASSUME NEW r \in Requests
          PROVE  [proc EXCEPT ![r] = KillGroup(r)] \in [Requests -> P]
      <3>1. KillGroup(r) \in P
        BY DEF ExecTypes, KillGroup
      <3> QED
        BY <3>1 DEF ExecTypes
    <2>3. ASSUME NEW r \in Requests, StartBash(r) \/ BashExits(r)
          PROVE  proc' \in [Requests -> P]
      <3>1. /\ [proc[r] EXCEPT ![Bash] = "up"] \in P
            /\ [proc[r] EXCEPT ![Bash] = "gone"] \in P
        BY <2>1
      <3>2. \E f \in P : proc' = [proc EXCEPT ![r] = f]
        BY <2>3, <3>1 DEF StartBash, BashExits
      <3> QED
        BY <3>2 DEF ExecTypes
    <2>4. ASSUME NEW r \in Requests, NEW k \in Kinds, Fork(r, k) \/ ChildExits(r, k)
          PROVE  proc' \in [Requests -> P]
      <3>1. /\ [proc[r] EXCEPT ![k] = "up"] \in P
            /\ [proc[r] EXCEPT ![k] = "gone"] \in P
        BY <2>1
      <3>2. \E f \in P : proc' = [proc EXCEPT ![r] = f]
        BY <2>4, <3>1 DEF Fork, ChildExits
      <3> QED
        BY <3>2 DEF ExecTypes
    <2>5. ASSUME NEW r \in Requests, Interrupt(r)
          PROVE  proc' \in [Requests -> P]
      BY <2>2, <2>5 DEF Interrupt
    <2>6. proc \in [Requests -> P]
      BY DEF ExecTypes
    <2> QED
      BY Changes, <2>3, <2>4, <2>5, <2>6
  <1>7. code' \in [Requests -> {"none", "zero", "other", "killed", "copy"}]
    <2> DEFINE C == {"none", "zero", "other", "killed", "copy"}
    <2>1. code \in [Requests -> C]
      BY DEF ExecTypes
    <2>2. ASSUME NEW r \in Requests, BashExits(r) PROVE code' \in [Requests -> C]
      BY <2>1, <2>2 DEF BashExits
    <2>3. ASSUME NEW r \in Requests, Interrupt(r) PROVE code' \in [Requests -> C]
      BY <2>1, <2>3 DEF Interrupt
    <2>4. ASSUME NEW r \in Requests, WaitReturns(r) PROVE code' \in [Requests -> C]
      BY <2>1, <2>4 DEF WaitReturns
    <2> QED
      BY Changes, <2>1, <2>2, <2>3, <2>4
  <1>8. cwdFile' \in [Ids -> Requests \cup {Nobody}]
    BY SMTT(30), Changes DEF ExecTypes, BashExits, Return
  <1>9. answer' \in [Requests -> [outcome : {"none", "inline", "attached", "error"},
                                  timedOut : BOOLEAN,
                                  dir : Requests \cup {Nobody}]]
    <2> DEFINE A == [outcome : {"none", "inline", "attached", "error"},
                     timedOut : BOOLEAN, dir : Requests \cup {Nobody}]
    <2>1. answer \in [Requests -> A]
      BY DEF ExecTypes
    <2>2. ASSUME NEW r \in Requests, NEW o \in {"inline", "attached", "error"}
          PROVE  [answer[r] EXCEPT !.outcome = o] \in A
      BY <2>1
    <2>3. ASSUME NEW r \in Requests
          PROVE  [answer[r] EXCEPT !.timedOut = TimedOut(r)] \in A
      BY <2>1 DEF TimedOut
    <2>4. ASSUME NEW r \in Requests, NEW o \in {"inline", "attached", "error"},
                 NEW d \in Requests \cup {Nobody}
          PROVE  [[answer[r] EXCEPT !.outcome = o] EXCEPT !.dir = d] \in A
      BY <2>2
    <2>5. ASSUME NEW r \in Requests, Fail(r) \/ Interrupt(r)
          PROVE  answer' \in [Requests -> A]
      BY ZenonT(30), <2>1, <2>2, <2>3, <2>5 DEF Fail, Interrupt
    <2>6. ASSUME NEW r \in Requests, NEW o \in {"inline", "attached", "error"},
                 Collects(r, o)
          PROVE  answer' \in [Requests -> A]
      <3>1. cwdFile[Id(r)] \in Requests \cup {Nobody}
        BY <2>6, InputFacts DEF ExecTypes, Collects, Moves
      <3>2. answer' = [answer EXCEPT
                          ![r] = [[@ EXCEPT !.outcome = o] EXCEPT !.dir = cwdFile[Id(r)]]]
        BY <2>1, <2>6 DEF Collects
      <3> QED
        BY <2>1, <2>4, <3>1, <3>2
    <2> QED
      BY Changes, <2>1, <2>5, <2>6
  <1>10. pipes' \in [Requests -> SUBSET (Streams \cup {"stdin"})]
    <2> DEFINE P == SUBSET (Streams \cup {"stdin"})
    <2>1. pipes \in [Requests -> P]
      BY DEF ExecTypes
    <2>2. ASSUME NEW r \in Requests, StartBash(r) PROVE pipes' \in [Requests -> P]
      BY <2>1, <2>2 DEF StartBash
    <2>3. ASSUME NEW r \in Requests, OutputFails(r) \/ ReadInput(r)
          PROVE  pipes' \in [Requests -> P]
      BY <2>1, <2>3 DEF OutputFails, ReadInput
    <2>4. ASSUME NEW r \in Requests, WaitReturns(r) PROVE pipes' \in [Requests -> P]
      BY <2>1, <2>4 DEF WaitReturns
    <2>5. ASSUME Restart PROVE pipes' \in [Requests -> P]
      BY <2>5 DEF Restart
    <2> QED
      BY Changes, <2>1, <2>2, <2>3, <2>4, <2>5
  <1> QED
    BY <1>1, <1>2, <1>3, <1>4, <1>5, <1>6, <1>7, <1>8, <1>9, <1>10 DEF ExecTypes

(* Which steps change the artifact store.                                  *)
LEMMA StoreCases ==
    ASSUME [Next]_vars
    PROVE  \/ UNCHANGED storeVars
           \/ \E r \in Requests : \/ Prepare(r) \/ SecondCaptureFails(r)
                                  \/ StartFails(r) \/ Output(r) \/ OutputFails(r)
                                  \/ WaitReturns(r) \/ Disposes(r)
           \/ Tick \/ Client \/ CleanupRound \/ Restart \/ SecondProcess
  BY CollectsDispose
  DEF Next, Handler, vars, Begin, Deadline, Cancel, StartBatch, BatchRefused,
        Transfer, BatchDone, PrepareFails, StartBash, Fork, ReadInput, BashExits,
        ChildExits, Interrupt, Return, Leave

(* Files, descriptors, counts and links keep their types.                  *)
LEMMA StepStoreTypes ==
    ASSUME ExecTypes, StoreTypes, [Next]_vars
    PROVE  StoreTypes'
  <1> USE DEF StoreTypes, StoreTypeOK
  <1>1. ASSUME UNCHANGED storeVars PROVE StoreTypes'
    BY <1>1 DEF storeVars
  <1>2. ASSUME NEW r \in Requests,
               \/ Prepare(r) \/ SecondCaptureFails(r) \/ StartFails(r) \/ WaitReturns(r)
        PROVE  StoreTypes'
    BY <1>2
    DEF Prepare, NewCaptures, SecondCaptureFails, StartFails, WaitReturns,
        CapturesOf, Captures, Streams
  <1>3. ASSUME NEW r \in Requests, Output(r) PROVE StoreTypes'
    <2>1. PICK s \in Streams : WriteCapped(<<r, s>>)
      BY <1>3 DEF Output
    <2> DEFINE c == <<r, s>>
    <2>2. c \in Captures
      BY DEF Captures
    <2>3. written' \in [Captures -> 0..MaxBytes]
      BY <2>1, <2>2, StoreAssumptions DEF WriteCapped
    <2>4. truncated' \subseteq Captures
      BY <2>1, <2>2 DEF WriteCapped
    <2> QED
      BY <1>3, <2>3, <2>4 DEF Output
  <1>4. ASSUME NEW r \in Requests, Disposes(r) PROVE StoreTypes'
    <2>1. CapturesOf(r) \subseteq Captures
      BY DEF CapturesOf, Captures
    <2>2. /\ written' \in [Captures -> 0..MaxBytes]
          /\ truncated' \subseteq Captures
      BY <1>4, StoreAssumptions DEF Disposes, Collects, Forget
    <2>3. fds' = fds /\ download' = download
      BY <1>4 DEF Disposes, Collects
    <2>4. /\ files' \subseteq Captures
          /\ left' \in [DOMAIN left' -> Int] /\ DOMAIN left \subseteq DOMAIN left'
          /\ items' \subseteq DOMAIN left' /\ DOMAIN left' \subseteq Captures
          /\ phase' \in 0..(TicksPerSecond - 1)
      BY ZenonT(30), <1>4, <2>1, StoreAssumptions DEF Disposes, Dispose
    <2> QED
      BY <2>2, <2>3, <2>4
  <1>5. ASSUME Tick PROVE StoreTypes'
    <2>1. phase' \in 0..(TicksPerSecond - 1)
      BY <1>5, StoreAssumptions DEF Tick, PassTime
    <2>2. left' \in [DOMAIN left' -> Int] /\ DOMAIN left' = DOMAIN left
      BY <1>5, StoreAssumptions DEF Tick, PassTime
    <2> QED
      BY <1>5, <2>1, <2>2 DEF Tick, PassTime
  <1>6. ASSUME Client PROVE StoreTypes'
    BY <1>6
    DEF Client, CheckLink, LookUpItem, OpenFile, DownloadEnds, NoDownload
  <1>7. ASSUME CleanupRound \/ Restart \/ SecondProcess PROVE StoreTypes'
    BY <1>7 DEF CleanupRound, Cleanup, Restart, NewStore, SecondProcess
  <1>8. ASSUME NEW r \in Requests, OutputFails(r) PROVE StoreTypes'
    <2>1. PICK s \in Streams : WriteFails(<<r, s>>)
      BY <1>8 DEF OutputFails
    <2>2. truncated' \subseteq Captures
      BY <2>1 DEF WriteFails, Captures
    <2> QED
      BY <1>8, <2>2 DEF OutputFails
  <1> HIDE DEF StoreTypes, StoreTypeOK
  <1> QED
    BY StoreCases, <1>1, <1>2, <1>3, <1>4, <1>5, <1>6, <1>7, <1>8

(* r is done and removes its upload directory with all that is in it.      *)
Removes(r) ==
    /\ at[r] \in {"download", "leave"}
    /\ at' = [at EXCEPT ![r] = "done"]
    /\ RemoveFolder(Id(r))
    /\ UNCHANGED <<transfer, mixed>>

(* Which steps change the input files.                                     *)
LEMMA UploadCases ==
    ASSUME [Next]_vars
    PROVE  \/ UNCHANGED uploadVars
           \/ \E r \in Requests : \/ StartBatch(r) \/ Removes(r)
                                  \/ \E i \in DOMAIN transfer[r] : Transfer(r, i)
  <1>1. ASSUME NEW r \in Requests, BatchRefused(r) \/ BatchDone(r) \/ Leave(r)
        PROVE  UNCHANGED uploadVars \/ Removes(r)
    BY <1>1
    DEF BatchRefused, RejectReference, RejectBatch, BatchDone, BatchSucceeds,
        BatchFails, Leave, Moves, Goto, Removes, uploadVars, histVars
  <1> QED
    BY ZenonT(30), <1>1
    DEF Next, Handler, vars, Begin, Deadline, Cancel, Prepare, PrepareFails,
        SecondCaptureFails, StartBash, StartFails, Fork, Output, OutputFails,
        ReadInput, BashExits, ChildExits, Interrupt, WaitReturns, Collects,
        CollectInline, CollectAttached, CollectFails, InlineFails, Return,
        Tick, Client, CleanupRound, Restart, SecondProcess

(* Every input file is that of a transfer, in a directory that exists.     *)
LEMMA StepUploadTypes ==
    ASSUME ExecTypes, UploadTypes, [Next]_vars
    PROVE  UploadTypes'
  <1> DEFINE T == UNION {[D -> TransferStates] : D \in SUBSET Nat}
  <1>1. /\ input' = input
        /\ \A r \in Requests : at[r] # "idle" => at'[r] # "idle" /\ input[r] \in Inputs
    BY Changes DEF ExecTypes, Restart, Busy
  <1>d. \A r \in Requests : at'[r] = "download" => input'[r].refs # << >>
    <2>1. at \in [Requests -> Places]
      BY DEF ExecTypes
    <2>2. \A r \in Requests : at'[r] = "download" => at[r] = "download" \/ Begin(r)
      BY <2>1, Way DEF Advances
    <2>3. \A r \in Requests : Begin(r) /\ at'[r] = "download" => input[r].refs # << >>
      BY <2>1 DEF Begin, Moves, Goto
    <2> QED
      BY <1>1, <2>2, <2>3 DEF UploadTypes
  <1>2. \A r, i : FileOf(r, i)' = FileOf(r, i)
    BY <1>1 DEF FileOf, Id
  <1>3. ASSUME UNCHANGED uploadVars PROVE UploadTypes'
    BY <1>d, <1>1, <1>2, <1>3 DEF UploadTypes, uploadVars
  <1>4. ASSUME NEW r \in Requests, StartBatch(r) PROVE UploadTypes'
    <2>1. /\ at[r] = "download" /\ transfer[r] = << >>
          /\ folders' = folders \cup {Id(r)} /\ inputs' = inputs
          /\ transfer' = [transfer EXCEPT ![r] = [i \in DOMAIN input[r].refs |-> "asked"]]
      BY <1>4 DEF StartBatch, StartTransfers
    <2>2. Id(r) \in Ids /\ DOMAIN input[r].refs \in SUBSET Nat
      BY <1>1, <2>1, InputFacts
    <2>3. [i \in DOMAIN input[r].refs |-> "asked"] \in T
      BY <2>2 DEF TransferStates
    <2>4. transfer' \in [Requests -> T]
      BY <2>1, <2>3 DEF UploadTypes
    <2>5. \A q \in Requests : transfer'[q] # << >> =>
              /\ at'[q] # "idle" /\ input'[q].refs # << >>
              /\ DOMAIN transfer'[q] = DOMAIN input'[q].refs
      BY <1>1, <2>1 DEF UploadTypes
    <2>6. \A f \in inputs' : /\ f.id \in folders'
                            /\ \E q \in Requests : \E i \in DOMAIN transfer'[q] :
                                  f = FileOf(q, i)
      BY <2>1 DEF UploadTypes
    <2> QED
      BY <1>d, <1>2, <2>1, <2>2, <2>4, <2>5, <2>6 DEF UploadTypes
  <1>5. ASSUME NEW r \in Requests, Removes(r) PROVE UploadTypes'
    BY <1>d, <1>1, <1>2, <1>5 DEF UploadTypes, Removes, RemoveFolder
  <1>6. ASSUME NEW r \in Requests, NEW i \in DOMAIN transfer[r], Transfer(r, i)
        PROVE  UploadTypes'
    <2>1. /\ folders' = folders
          /\ \E s \in TransferStates : transfer' = [transfer EXCEPT ![r][i] = s]
          /\ inputs' \subseteq inputs \cup {FileOf(r, i)}
          /\ inputs' \subseteq inputs \/ Id(r) \in folders
      BY <1>6
      DEF Transfer, CreateFile, RequestFails, CopyEnds, CopyFails, SetTransfer,
          FileOf, TransferStates, At
    <2>2. PICK s \in TransferStates : transfer' = [transfer EXCEPT ![r][i] = s]
      BY <2>1
    <2>3. transfer \in [Requests -> T]
      BY DEF UploadTypes
    <2>4. [transfer[r] EXCEPT ![i] = s] \in T
      BY <2>3
    <2>5. transfer' \in [Requests -> T]
      BY <2>2, <2>3, <2>4
    <2>6. \A q \in Requests : DOMAIN transfer'[q] = DOMAIN transfer[q]
      BY <2>2, <2>3
    <2>7. \A q \in Requests : transfer'[q] # << >> =>
              /\ at'[q] # "idle" /\ input'[q].refs # << >>
              /\ DOMAIN transfer'[q] = DOMAIN input'[q].refs
      BY <1>1, <2>2, <2>3 DEF UploadTypes
    <2>8. \A f \in inputs' : f.id \in folders'
      BY <2>1 DEF UploadTypes, FileOf
    <2>9. \A f \in inputs' : \E q \in Requests : \E j \in DOMAIN transfer'[q] :
                               f = FileOf(q, j)
      BY <2>1, <2>6 DEF UploadTypes
    <2> QED
      BY <1>d, <1>2, <2>1, <2>5, <2>7, <2>8, <2>9 DEF UploadTypes
  <1> QED
    BY UploadCases, <1>3, <1>4, <1>5, <1>6

----------------------------------------------------------------------------
(* Processes and time.                                                     *)

(* Nothing runs before bash is started, and bash is watched until it ends. *)
LEMMA StepProcesses ==
    ASSUME ExecTypes, ProcessesKnown, [Next]_vars
    PROVE  ProcessesKnown'
  <1> USE DEF ProcessesKnown, Up, Early
  <1>1. /\ at \in [Requests -> Places]
        /\ proc \in [Requests -> [Kinds \cup {Bash} -> {"none", "up", "gone"}]]
    BY DEF ExecTypes
  <1>2. ASSUME NEW r \in Requests, StartBash(r) PROVE ProcessesKnown'
    BY <1>1, <1>2 DEF StartBash, Moves, Goto, NoProcess
  <1>3. ASSUME NEW r \in Requests, BashExits(r) PROVE ProcessesKnown'
    BY <1>1, <1>3 DEF BashExits, NoProcess
  <1>4. ASSUME NEW r \in Requests, NEW k \in Kinds, Fork(r, k) \/ ChildExits(r, k)
        PROVE  ProcessesKnown'
    BY <1>1, <1>4 DEF Fork, ChildExits, NoProcess
  <1>5. ASSUME NEW r \in Requests, Interrupt(r) PROVE ProcessesKnown'
    BY <1>1, <1>5 DEF Interrupt, Moves, Goto, KillGroup, Group
  <1>6. ASSUME NEW r \in Requests,
               \/ Begin(r) \/ Deadline(r) \/ Cancel(r)
               \/ BatchRefused(r) \/ BatchDone(r)
               \/ Prepare(r) \/ PrepareFails(r) \/ SecondCaptureFails(r)
        PROVE  ProcessesKnown'
    BY <1>1, <1>6
    DEF Begin, Deadline, Cancel, BatchRefused, BatchDone, Prepare, PrepareFails,
        SecondCaptureFails, Moves, Goto, NoProcess
  <1>7. ASSUME NEW r \in Requests,
               StartFails(r) \/ WaitReturns(r) \/ Return(r) \/ Leave(r)
        PROVE  ProcessesKnown'
    BY <1>1, <1>7
    DEF StartFails, WaitReturns, Waited, Return, Leave, Moves, Goto, NoProcess
  <1>8. ASSUME NEW r \in Requests, NEW o \in {"inline", "attached", "error"},
               Collects(r, o)
        PROVE  ProcessesKnown'
    BY <1>1, <1>8 DEF Collects, Moves, Goto
  <1>9. ASSUME Tick \/ Restart \/ SecondProcess PROVE ProcessesKnown'
    BY <1>1, <1>9 DEF Tick, Restart, SecondProcess, execVars, Busy
  <1>10. ASSUME UNCHANGED <<execVars, histVars>> PROVE ProcessesKnown'
    BY <1>10 DEF execVars
  <1>11. ASSUME NEW r \in Requests, OutputFails(r) \/ ReadInput(r)
         PROVE  ProcessesKnown'
    BY <1>11 DEF OutputFails, ReadInput
  <1> HIDE DEF ProcessesKnown, Up, Early
  <1> QED
    BY StepCases, <1>2, <1>3, <1>4, <1>5, <1>6, <1>7, <1>8, <1>9, <1>10, <1>11
    DEF Disposes

(* A context that ended does not change any more, and its time stands.     *)
LEMMA StepDeadline ==
    ASSUME ExecTypes, DeadlineIsPast, [Next]_vars
    PROVE  DeadlineIsPast'
  <1>1. /\ at \in [Requests -> Places]
        /\ ctx \in [Requests -> {"live", "deadline", "canceled"}]
        /\ elapsed \in [Requests -> 0..TicksOf(Maximum)]
    BY DEF ExecTypes
  <1>2. \A r \in Requests : Limit(r)' = Limit(r)
    BY Changes DEF Limit
  <1>3. ASSUME NEW r \in Requests PROVE at'[r] = "idle" => at[r] = "idle"
    BY <1>1, Changes DEF Restart, Busy
  <1>4. ASSUME NEW r \in Requests, at[r] = "idle" PROVE ctx'[r] = ctx[r]
    BY <1>1, <1>4, Changes DEF Deadline, Cancel, Busy
  <1>5. ASSUME NEW r \in Requests, ctx[r] = "deadline"
        PROVE  elapsed'[r] = elapsed[r]
    BY <1>1, <1>5, Changes DEF Cancel, Tick
  <1>6. ASSUME NEW r \in Requests, ctx'[r] = "deadline", ctx[r] # "deadline"
        PROVE  elapsed'[r] = elapsed[r] /\ elapsed[r] >= TicksOf(Limit(r))
    <2>1. Deadline(r)
      BY <1>1, <1>6, Changes DEF Deadline, Cancel
    <2> QED
      BY <2>1 DEF Deadline
  <1> QED
    BY <1>2, <1>3, <1>4, <1>5, <1>6 DEF DeadlineIsPast

(* A command that is stopped at the deadline is told so, and from then on  *)
(* nothing of its group can start again.                                   *)
LEMMA StepStopped ==
    ASSUME ExecTypes, StoppedIsTold, [Next]_vars
    PROVE  StoppedIsTold'
  <1> USE DEF StoppedIsTold, Up, Early
  <1>1. /\ at \in [Requests -> Places]
        /\ ctx \in [Requests -> {"live", "deadline", "canceled"}]
        /\ proc \in [Requests -> [Kinds \cup {Bash} -> {"none", "up", "gone"}]]
        /\ answer \in [Requests -> [outcome : {"none", "inline", "attached", "error"},
                                    timedOut : BOOLEAN,
                                    dir : Requests \cup {Nobody}]]
    BY DEF ExecTypes
  <1>2. ASSUME NEW r \in Requests, StartBash(r) PROVE StoppedIsTold'
    BY <1>1, <1>2 DEF StartBash, Moves, Goto, histVars
  <1>3. ASSUME NEW r \in Requests, BashExits(r) PROVE StoppedIsTold'
    BY <1>1, <1>3 DEF BashExits, Group, histVars
  <1>4. ASSUME NEW r \in Requests, NEW k \in Kinds, Fork(r, k) PROVE StoppedIsTold'
    BY <1>1, <1>4 DEF Fork, Group, histVars
  <1>5. ASSUME NEW r \in Requests, NEW k \in Kinds, ChildExits(r, k)
        PROVE  StoppedIsTold'
    BY <1>1, <1>5 DEF ChildExits, histVars
  <1>6. ASSUME NEW r \in Requests, Interrupt(r) PROVE StoppedIsTold'
    <2>1. \A q \in Requests \ {r} : /\ at'[q] = at[q] /\ proc'[q] = proc[q]
                                    /\ answer'[q] = answer[q] /\ ctx'[q] = ctx[q]
      BY <1>1, <1>6 DEF Interrupt, Moves, Goto
    <2>2. /\ at'[r] = "killed" /\ ctx'[r] = ctx[r] /\ ctx[r] # "live"
          /\ answer'[r].timedOut = (ctx[r] = "deadline")
      BY <1>1, <1>6 DEF Interrupt, Moves, Goto, TimedOut
    <2>3. \A k \in Group : proc'[r][k] # "up"
      BY <1>1, <1>6 DEF Interrupt, KillGroup, Group, Kinds, Bash
    <2>4. SUFFICES ASSUME NEW q \in Requests
                   PROVE  answer'[q].timedOut =>
                                /\ at'[q] \notin Early \cup {"running"}
                                /\ ctx'[q] = "deadline"
                                /\ \A k \in Group : proc'[q][k] # "up"
      OBVIOUS
    <2>5. CASE q = r
      BY <2>2, <2>3, <2>5
    <2>6. CASE q # r
      BY <2>1, <2>6
    <2> QED
      BY <2>5, <2>6
  <1>7. ASSUME NEW r \in Requests, Begin(r) \/ Deadline(r) \/ Cancel(r)
        PROVE  StoppedIsTold'
    BY <1>1, <1>7 DEF Begin, Deadline, Cancel, Moves, Goto, Busy, histVars
  <1>8. ASSUME NEW r \in Requests,
               \/ BatchRefused(r) \/ BatchDone(r) \/ PrepareFails(r)
               \/ SecondCaptureFails(r) \/ StartFails(r)
        PROVE  StoppedIsTold'
    BY SMTT(30), <1>1, <1>8
    DEF BatchRefused, BatchDone, PrepareFails, SecondCaptureFails, StartFails,
        Fail, Moves, Goto, histVars
  <1>9. ASSUME NEW r \in Requests,
               Prepare(r) \/ WaitReturns(r) \/ Return(r) \/ Leave(r)
        PROVE  StoppedIsTold'
    BY <1>1, <1>9
    DEF Prepare, WaitReturns, Waited, Return, Leave, Moves, Goto, histVars
  <1>10. ASSUME NEW r \in Requests, NEW o \in {"inline", "attached", "error"},
                Collects(r, o)
         PROVE  StoppedIsTold'
    BY <1>1, <1>10 DEF Collects, Moves, Goto
  <1>11. ASSUME Tick \/ Restart \/ SecondProcess PROVE StoppedIsTold'
    BY <1>1, <1>11 DEF Tick, Restart, SecondProcess, execVars, histVars, Busy
  <1>12. ASSUME UNCHANGED <<execVars, histVars>> PROVE StoppedIsTold'
    BY <1>12 DEF execVars, histVars
  <1>13. ASSUME NEW r \in Requests, OutputFails(r) \/ ReadInput(r)
         PROVE  StoppedIsTold'
    BY <1>13 DEF OutputFails, ReadInput
  <1> HIDE DEF StoppedIsTold, Up, Early
  <1> QED
    BY StepCases, <1>2, <1>3, <1>4, <1>5, <1>6, <1>7, <1>8, <1>9, <1>10, <1>11,
       <1>12, <1>13 DEF Disposes

(* What was decided at the deadline stays as it is.                        *)
LEMMA StaysStopped ==
    ASSUME ExecTypes, [Next]_vars, NEW r \in Requests, Stopped(r), at[r] \notin Early
    PROVE  Stopped(r)'
  <1>1. /\ at \in [Requests -> Places]
        /\ ctx \in [Requests -> {"live", "deadline", "canceled"}]
        /\ answer \in [Requests -> [outcome : {"none", "inline", "attached", "error"},
                                    timedOut : BOOLEAN,
                                    dir : Requests \cup {Nobody}]]
    BY DEF ExecTypes
  <1>2. at'[r] # "running"
    BY Way, <1>1 DEF Advances, Stopped, Early
  <1>3. ctx'[r] = ctx[r]
    BY Changes, <1>1 DEF Deadline, Cancel, Stopped
  <1>4. ASSUME NEW q \in Requests, Fail(q) PROVE answer'[r].timedOut = answer[r].timedOut
    BY <1>1, <1>4 DEF Fail
  <1>5. ASSUME NEW q \in Requests, Interrupt(q)
        PROVE  answer'[r].timedOut = answer[r].timedOut
    BY <1>1, <1>5 DEF Interrupt, Moves, Stopped
  <1>6. ASSUME NEW q \in Requests, NEW o \in {"inline", "attached", "error"},
               Collects(q, o)
        PROVE  answer'[r].timedOut = answer[r].timedOut
    BY <1>1, <1>6 DEF Collects
  <1>7. answer'[r].timedOut = answer[r].timedOut
    BY Changes, <1>4, <1>5, <1>6
  <1> QED
    BY <1>2, <1>3, <1>7 DEF Stopped

(* Copying that failed is not taken up again.                              *)
LEMMA StaysFailed ==
    ASSUME ExecTypes, [Next]_vars, NEW r \in Requests, CopyFailed(r),
           at[r] \in {"running", "killed"}, at'[r] \in {"running", "killed"}
    PROVE  CopyFailed(r)'
  <1>1. /\ at \in [Requests -> Places]
        /\ pipes \in [Requests -> SUBSET (Streams \cup {"stdin"})]
    BY DEF ExecTypes
  <1>2. ~ Restart
    BY DEF Restart, Busy
  <1>3. ASSUME NEW q \in Requests, StartBash(q) \/ WaitReturns(q)
        PROVE  pipes'[r] = pipes[r]
    BY <1>1, <1>3 DEF StartBash, WaitReturns, Moves, Goto
  <1>4. ASSUME NEW q \in Requests, OutputFails(q) \/ ReadInput(q)
        PROVE  pipes'[r] \subseteq pipes[r]
    BY <1>1, <1>4 DEF OutputFails, ReadInput
  <1>5. pipes'[r] \subseteq pipes[r]
    BY Changes, <1>2, <1>3, <1>4
  <1> QED
    BY <1>5 DEF CopyFailed

(* Once Wait has returned, neither the exit code changes nor does a        *)
(* process appear.                                                         *)
LEMMA LateIsSettled ==
    ASSUME ExecTypes, ProcessesKnown, [Next]_vars, NEW r \in Requests, at[r] \in Late
    PROVE  /\ code'[r] = code[r]
           /\ \A k \in Kinds : Up(r, k)' => Up(r, k)
  <1>1. /\ at \in [Requests -> Places]
        /\ proc \in [Requests -> [Kinds \cup {Bash} -> {"none", "up", "gone"}]]
        /\ code \in [Requests -> {"none", "zero", "other", "killed", "copy"}]
    BY DEF ExecTypes
  <1>2. ~ Up(r, Bash) /\ at[r] \notin {"start", "running", "killed"}
    BY DEF ProcessesKnown, Late
  <1>3. code'[r] = code[r]
    BY Changes, <1>1, <1>2 DEF BashExits, Interrupt, WaitReturns, Moves
  <1>4. ASSUME NEW q \in Requests,
               \/ StartBash(q) \/ BashExits(q) \/ Interrupt(q)
               \/ \E k \in Kinds : Fork(q, k)
        PROVE  proc'[r] = proc[r]
    BY <1>1, <1>2, <1>4 DEF StartBash, BashExits, Interrupt, Fork, Moves
  <1>5. ASSUME NEW q \in Requests, NEW c \in Kinds, ChildExits(q, c), NEW k \in Kinds
        PROVE  proc'[r][k] = "up" => proc[r][k] = "up"
    BY <1>1, <1>5 DEF ChildExits
  <1>6. \A k \in Kinds : proc'[r][k] = "up" => proc[r][k] = "up"
    BY Changes, <1>4, <1>5
  <1> QED
    BY <1>3, <1>6 DEF Up

(* Output is lost only when the command is stopped or when copying fails,  *)
(* and either is remembered until the answer is made.                      *)
LEMMA StepLoss ==
    ASSUME ExecTypes, ProcessesKnown, LossIsTold, [Next]_vars
    PROVE  LossIsTold'
  <1>1. /\ at \in [Requests -> Places]
        /\ ctx \in [Requests -> {"live", "deadline", "canceled"}]
        /\ pipes \in [Requests -> SUBSET (Streams \cup {"stdin"})]
        /\ code \in [Requests -> {"none", "zero", "other", "killed", "copy"}]
        /\ answer \in [Requests -> [outcome : {"none", "inline", "attached", "error"},
                                    timedOut : BOOLEAN,
                                    dir : Requests \cup {Nobody}]]
    BY DEF ExecTypes
  <1> DEFINE Told(r) == /\ at[r] \notin Early
                        /\ \/ Stopped(r)
                           \/ CopyFailed(r) /\ at[r] \in {"running", "killed"}
                           \/ at[r] = "lost"
                           \/ at[r] \in Late /\ code[r] # "zero"
  <1>2. ASSUME NEW r \in Requests, OutputFails(r) PROVE Told(r)'
    BY <1>1, <1>2 DEF OutputFails, Prints, CopyFailed, Early
  <1>3. ASSUME NEW r \in Requests, Interrupt(r) PROVE Told(r)'
    BY <1>1, <1>3 DEF Interrupt, Moves, Goto, TimedOut, Stopped, Early
  <1>4. ASSUME NEW r \in Requests, Told(r) PROVE Told(r)'
    <2>1. at'[r] \notin Early
      BY Way, <1>1, <1>4 DEF Advances, Early
    <2>2. CASE Stopped(r)
      BY <1>4, <2>1, <2>2, StaysStopped
    <2>3. CASE CopyFailed(r) /\ at[r] \in {"running", "killed"}
      <3>1. CASE at'[r] \in {"running", "killed", "lost"}
        BY <2>1, <2>3, <3>1, StaysFailed
      <3>2. CASE WaitReturns(r)
        BY <1>1, <2>1, <2>3, <3>2 DEF WaitReturns, Goto, Late
      <3> QED
        BY Way, <1>1, <2>3, <3>1, <3>2 DEF Advances
    <2>4. CASE at[r] = "lost"
      BY Way, <1>1, <2>1, <2>4 DEF Advances
    <2>5. CASE at[r] \in Late /\ code[r] # "zero"
      <3>1. at'[r] \in Late \cup {"lost"}
        BY Way, <1>1, <2>5 DEF Advances, Late
      <3> QED
        BY <2>1, <2>5, <3>1, LateIsSettled
    <2> QED
      BY <1>4, <2>2, <2>3, <2>4, <2>5
  <1>5. ASSUME NEW r \in Requests, r \in cut'
        PROVE  r \in cut \/ OutputFails(r) \/ Interrupt(r)
    <2>1. ASSUME NEW q \in Requests, OutputFails(q) \/ Interrupt(q)
          PROVE  cut' \subseteq cut \cup {q}
      BY <2>1 DEF OutputFails, Interrupt
    <2> QED
      BY Changes, <1>5, <2>1
  <1> QED
    BY <1>2, <1>3, <1>4, <1>5 DEF LossIsTold

(* Wait returns without an error only when nobody has a pipe for output.   *)
LEMMA StepPrints ==
    ASSUME ExecTypes, ProcessesKnown, NobodyPrints, [Next]_vars
    PROVE  NobodyPrints'
  <1>1. /\ at \in [Requests -> Places]
        /\ pipes \in [Requests -> SUBSET (Streams \cup {"stdin"})]
        /\ code \in [Requests -> {"none", "zero", "other", "killed", "copy"}]
    BY DEF ExecTypes
  <1>2. SUFFICES ASSUME NEW r \in Requests, at'[r] \in Late, code'[r] = "zero",
                        NEW k \in Kinds, Up(r, k)'
                 PROVE  Ends(k) \cap Streams = {}
    BY DEF NobodyPrints, Ends
  <1>3. CASE at[r] \in Late
    BY <1>2, <1>3, LateIsSettled DEF NobodyPrints
  <1>4. CASE WaitReturns(r)
    <2>1. Up(r, k) /\ ~ CopyFailed(r) /\ Waited(r)
      BY <1>1, <1>2, <1>4 DEF WaitReturns, Up
    <2> QED
      BY <2>1 DEF Waited, Holds, CopyFailed
  <1>5. CASE /\ \/ BatchRefused(r) \/ BatchDone(r) \/ PrepareFails(r)
                \/ SecondCaptureFails(r) \/ StartFails(r)
             /\ at[r] \in Early
    <2>1. proc' = proc /\ proc[r] = NoProcess
      BY <1>5 DEF BatchRefused, BatchDone, PrepareFails, SecondCaptureFails,
                  StartFails, ProcessesKnown
    <2> QED
      BY <1>2, <2>1 DEF Up, NoProcess
  <1> QED
    BY Way, <1>1, <1>2, <1>3, <1>4, <1>5 DEF Advances, Late, Early, Busy


----------------------------------------------------------------------------
(* Requests of one identifier.                                             *)

(* A request appears only by being begun.                                  *)
LEMMA OnlyBeginAppears ==
    ASSUME ExecTypes, [Next]_vars, NEW r \in Requests, Present(r)'
    PROVE  Present(r) \/ Begin(r)
  <1>1. at \in [Requests -> Places]
    BY DEF ExecTypes
  <1> QED
    BY <1>1, Changes DEF Present, Restart

(* Who has met another of its identifier has met it for good.              *)
LEMMA MixedGrows ==
    ASSUME [Next]_vars
    PROVE  mixed \subseteq mixed'
  BY Changes DEF Begin

(* Who begins meets those that are present.                                *)
LEMMA StepPresentHaveMet ==
    ASSUME ExecTypes, PresentHaveMet, [Next]_vars
    PROVE  PresentHaveMet'
  <1> SUFFICES ASSUME NEW q \in Requests, NEW r \in Requests, q # r,
                      Present(q)', Present(r)', Id(q)' = Id(r)'
               PROVE  q \in mixed' /\ r \in mixed'
    BY DEF PresentHaveMet
  <1>1. Id(q) = Id(r)
    BY Changes DEF Id
  <1>2. CASE Present(q) /\ Present(r)
    BY <1>1, <1>2, MixedGrows DEF PresentHaveMet
  <1>3. ASSUME NEW p \in Requests, NEW o \in Requests, p # o, Id(p) = Id(o),
               Begin(p), Present(o)
        PROVE  p \in mixed' /\ o \in mixed'
    BY <1>3 DEF Begin, Sharing, Present
  <1>4. ~ (Begin(q) /\ Begin(r))
    <2>1. at \in [Requests -> Places]
      BY DEF ExecTypes
    <2> QED
      BY <2>1 DEF Begin, Moves, Goto
  <1> QED
    BY <1>1, <1>2, <1>3, <1>4, OnlyBeginAppears

(* Only the request itself takes its directory's file away, as it returns. *)
LEMMA StepCwdFile ==
    ASSUME ExecTypes, ProcessesKnown, CwdFileHasOwner, [Next]_vars
    PROVE  CwdFileHasOwner'
  <1> DEFINE Owns == {"running", "killed", "collect", "return", "lost"}
  <1>1. /\ at \in [Requests -> Places]
        /\ cwdFile \in [Ids -> Requests \cup {Nobody}]
    BY DEF ExecTypes
  <1>2. \A r \in Requests : Id(r)' = Id(r)
    BY Changes DEF Id
  <1>3. ASSUME NEW r \in Requests, at[r] \in Owns
        PROVE  at'[r] \in Owns \/ Return(r)
    BY <1>1, <1>3, Way DEF Advances
  <1>4. ASSUME NEW r \in Requests, Return(r) PROVE CwdFileHasOwner'
    <2>1. \A id \in Ids : cwdFile'[id] # Nobody =>
              cwdFile'[id] = cwdFile[id] /\ id # Id(r)
      BY <1>1, <1>4 DEF Return
    <2>2. \A q \in Requests \ {r} : at'[q] = at[q]
      BY <1>1, <1>4 DEF Return, Moves, Goto
    <2> QED
      BY <1>1, <1>2, <2>1, <2>2 DEF CwdFileHasOwner
  <1>5. ASSUME NEW r \in Requests, BashExits(r) PROVE CwdFileHasOwner'
    BY <1>1, <1>2, <1>5 DEF BashExits, CwdFileHasOwner, ProcessesKnown
  <1>6. ASSUME cwdFile' = cwdFile, \A r \in Requests : ~ Return(r)
        PROVE  CwdFileHasOwner'
    BY <1>1, <1>2, <1>3, <1>6 DEF CwdFileHasOwner
  <1> QED
    BY Changes, <1>4, <1>5, <1>6

(* So what a request finds there, which met no other, is its own.          *)
LEMMA StepDir ==
    ASSUME ExecTypes, PresentHaveMet, CwdFileHasOwner, DirIsOwn, [Next]_vars
    PROVE  DirIsOwn'
  <1>1. /\ cwdFile \in [Ids -> Requests \cup {Nobody}]
        /\ answer \in [Requests -> [outcome : {"none", "inline", "attached", "error"},
                                    timedOut : BOOLEAN,
                                    dir : Requests \cup {Nobody}]]
    BY DEF ExecTypes
  <1>2. SUFFICES ASSUME NEW r \in Requests, r \notin mixed
                 PROVE  answer'[r].dir \in {r, Nobody}
    BY MixedGrows DEF DirIsOwn
  <1>3. answer[r].dir \in {r, Nobody}
    BY <1>2 DEF DirIsOwn
  <1>4. ASSUME NEW q \in Requests, Fail(q) \/ Interrupt(q)
        PROVE  answer'[r].dir = answer[r].dir
    BY <1>1, <1>4 DEF Fail, Interrupt
  <1>5. ASSUME NEW q \in Requests, NEW o \in {"inline", "attached", "error"},
               Collects(q, o)
        PROVE  answer'[r].dir \in {r, Nobody}
    <2>1. CASE q # r
      BY <1>1, <1>3, <1>5, <2>1 DEF Collects
    <2>2. CASE q = r
      <3>1. at[r] = "collect" /\ Id(r) \in Ids
        BY <1>5, <2>2, InputFacts DEF ExecTypes, Collects, Moves
      <3>2. answer'[r].dir = cwdFile[Id(r)]
        BY <1>1, <1>5, <2>2 DEF Collects
      <3>3. ASSUME NEW p \in Requests, p # r, cwdFile[Id(r)] = p PROVE FALSE
        <4>1. Id(p) = Id(r) /\ Present(p) /\ Present(r)
          BY <3>1, <3>3, ExecutorAssumptions DEF CwdFileHasOwner, Present, Busy
        <4> QED
          BY <1>2, <3>3, <4>1 DEF PresentHaveMet
      <3> QED
        BY <1>1, <3>1, <3>2, <3>3
    <2> QED
      BY <2>1, <2>2
  <1> QED
    BY Changes, <1>3, <1>4, <1>5

----------------------------------------------------------------------------
(* Input files.                                                            *)

(* A request that is done has removed its upload directory, or had none,   *)
(* and none of its transfers goes on.                                      *)
LEMMA BecomesDone ==
    ASSUME ExecTypes, UploadTypes, TransfersAreOver, [Next]_vars,
           NEW r \in Requests, at[r] # "done", at'[r] = "done"
    PROVE  /\ transfer' = transfer
           /\ States(r) \subseteq {"kept", "failed"}
           /\ Removes(r) \/ (transfer[r] = << >> /\ UNCHANGED uploadVars)
  <1>1. BatchRefused(r) \/ (BatchDone(r) /\ at[r] = "download") \/ Leave(r)
    BY Way DEF ExecTypes, Advances
  <1>2. CASE BatchRefused(r)
    <2>1. transfer[r] = << >> /\ transfer' = transfer
      BY <1>2 DEF BatchRefused, RejectReference, RejectBatch, uploadVars
    <2>2. States(r) = {}
      BY <2>1 DEF States
    <2>3. Removes(r) \/ UNCHANGED uploadVars
      BY <1>2
      DEF BatchRefused, RejectReference, RejectBatch, Moves, Goto, Removes, histVars
    <2> QED
      BY <2>1, <2>2, <2>3
  <1>3. CASE BatchDone(r) /\ at[r] = "download"
    <2>1. BatchFails(r, Id(r)) /\ Moves(r, "download", "done")
      BY <1>3 DEF BatchDone, Moves, Goto, ExecTypes
    <2> QED
      BY <1>3, <2>1 DEF BatchDone, BatchFails, Moves, Goto, Removes, histVars
  <1>4. CASE Leave(r)
    <2>1. /\ at[r] = "leave" /\ transfer' = transfer
          /\ Removes(r) \/ (input[r].refs = << >> /\ UNCHANGED uploadVars)
      BY <1>4 DEF Leave, Moves, Goto, Removes, histVars, uploadVars
    <2>2. States(r) \subseteq {"kept"}
      BY <2>1 DEF TransfersAreOver, Busy
    <2> QED
      BY <2>1, <2>2 DEF UploadTypes
  <1> QED
    BY <1>1, <1>2, <1>3, <1>4

(* A transfer's state is its own, and only a creation adds a file.         *)
LEMMA TransferFacts ==
    ASSUME ExecTypes, UploadTypes, NEW r \in Requests, NEW i \in DOMAIN transfer[r],
           Transfer(r, i)
    PROVE  /\ at[r] = "download" /\ UNCHANGED <<execVars, histVars>>
           /\ \A q \in Requests : DOMAIN transfer'[q] = DOMAIN transfer[q]
           /\ \A q \in Requests : \A j \in DOMAIN transfer[q] :
                 q # r \/ j # i => transfer'[q][j] = transfer[q][j]
           /\ folders' = folders
           /\ \/ /\ Id(r) \in folders /\ At(Id(r), FileOf(r, i).name) = {}
                 /\ inputs' = inputs \cup {FileOf(r, i)}
              \/ inputs' = inputs /\ transfer[r][i] = "copying"
              \/ inputs' = inputs /\ transfer'[r][i] = "failed"
              \/ /\ inputs' = inputs \ At(Id(r), FileOf(r, i).name)
                 /\ transfer[r][i] = "copying" /\ transfer'[r][i] = "failed"
  <1>1. PICK s : transfer' = [transfer EXCEPT ![r][i] = s]
    BY DEF Transfer, CreateFile, RequestFails, CopyEnds, CopyFails, SetTransfer
  <1>2. transfer \in [Requests -> UNION {[D -> TransferStates] : D \in SUBSET Nat}]
    BY DEF UploadTypes
  <1>3. /\ \A q \in Requests : DOMAIN transfer'[q] = DOMAIN transfer[q]
        /\ \A q \in Requests : \A j \in DOMAIN transfer[q] :
              q # r \/ j # i => transfer'[q][j] = transfer[q][j]
        /\ transfer'[r][i] = s
    BY <1>1, <1>2
  <1>4. /\ at[r] = "download" /\ UNCHANGED <<execVars, histVars>>
        /\ folders' = folders
    BY DEF Transfer, CreateFile, RequestFails, CopyEnds, CopyFails
  <1>5. ASSUME RequestFails(r, i) \/ CopyFails(r, i, Id(r), Names(input[r].refs)[i])
        PROVE  transfer'[r][i] = "failed"
    BY <1>2, <1>5 DEF RequestFails, CopyFails, SetTransfer
  <1>6. \/ /\ Id(r) \in folders /\ At(Id(r), FileOf(r, i).name) = {}
           /\ inputs' = inputs \cup {FileOf(r, i)}
        \/ inputs' = inputs /\ transfer[r][i] = "copying"
        \/ inputs' = inputs /\ transfer'[r][i] = "failed"
        \/ /\ inputs' = inputs \ At(Id(r), FileOf(r, i).name)
           /\ transfer[r][i] = "copying" /\ transfer'[r][i] = "failed"
    BY <1>5 DEF Transfer, CreateFile, RequestFails, CopyEnds, CopyFails, FileOf
  <1> QED
    BY <1>3, <1>4, <1>6

(* A directory stays in the hands of the request that made it.             *)
LEMMA StepFolders ==
    ASSUME ExecTypes, UploadTypes, TransfersAreOver, FolderHasOwner, [Next]_vars
    PROVE  FolderHasOwner'
  <1>1. /\ at \in [Requests -> Places]
        /\ transfer \in [Requests -> UNION {[D -> TransferStates] : D \in SUBSET Nat}]
    BY DEF ExecTypes, UploadTypes
  <1>2. \A r \in Requests : Id(r)' = Id(r)
    BY Changes DEF Id
  <1>3. SUFFICES ASSUME NEW id \in folders'
                 PROVE  \E r \in Requests : /\ Present(r)' /\ Id(r) = id
                                           /\ transfer'[r] # << >>
    BY <1>2 DEF FolderHasOwner
  <1>4. ASSUME NEW r \in Requests, Present(r), ~ Present(r)'
        PROVE  /\ transfer' = transfer
               /\ Removes(r) \/ (transfer[r] = << >> /\ UNCHANGED uploadVars)
    <2>1. at[r] # "done" /\ at'[r] = "done"
      BY <1>1, <1>4, Way DEF Present, Advances, Busy
    <2> QED
      BY <2>1, BecomesDone
  <1>5. CASE UNCHANGED uploadVars
    <2>1. PICK r \in Requests : Present(r) /\ Id(r) = id /\ transfer[r] # << >>
      BY <1>5 DEF FolderHasOwner, uploadVars
    <2>2. transfer'[r] # << >>
      BY <1>5, <2>1 DEF uploadVars
    <2>3. ASSUME Removes(r) PROVE FALSE
      BY <1>5, <2>1, <2>3 DEF Removes, RemoveFolder, uploadVars
    <2> QED
      BY <1>4, <2>1, <2>2, <2>3
  <1>6. ASSUME NEW q \in Requests, StartBatch(q)
        PROVE  \E r \in Requests : Present(r)' /\ Id(r) = id /\ transfer'[r] # << >>
    <2>1. /\ at[q] = "download" /\ at' = at /\ folders' = folders \cup {Id(q)}
          /\ transfer' = [transfer EXCEPT ![q] = [i \in DOMAIN input[q].refs |-> "asked"]]
      BY <1>6 DEF StartBatch, StartTransfers, execVars
    <2>2. DOMAIN input[q].refs # {}
      BY <2>1, InputFacts DEF UploadTypes, ExecTypes
    <2>3. transfer'[q] # << >>
      <3>1. DOMAIN transfer'[q] # {}
        BY <1>1, <2>1, <2>2
      <3> QED
        BY <3>1
    <2>4. \A r \in Requests : transfer[r] # << >> => transfer'[r] # << >>
      BY <1>1, <2>1, <2>3
    <2>5. CASE id = Id(q)
      BY <2>1, <2>3, <2>5 DEF Present, Busy
    <2>6. CASE id \in folders
      <3>1. PICK r \in Requests : Present(r) /\ Id(r) = id /\ transfer[r] # << >>
        BY <2>6 DEF FolderHasOwner
      <3> QED
        BY <2>1, <2>4, <3>1 DEF Present
    <2> QED
      BY <2>1, <2>5, <2>6
  <1>7. ASSUME NEW q \in Requests, Removes(q)
        PROVE  \E r \in Requests : Present(r)' /\ Id(r) = id /\ transfer'[r] # << >>
    <2>1. id \in folders /\ id # Id(q) /\ transfer' = transfer
      BY <1>7 DEF Removes, RemoveFolder
    <2>2. PICK r \in Requests : Present(r) /\ Id(r) = id /\ transfer[r] # << >>
      BY <2>1 DEF FolderHasOwner
    <2>3. Present(r)'
      BY <1>1, <1>7, <2>1, <2>2 DEF Removes, Present
    <2> QED
      BY <2>1, <2>2, <2>3
  <1>8. ASSUME NEW q \in Requests, NEW i \in DOMAIN transfer[q], Transfer(q, i)
        PROVE  \E r \in Requests : Present(r)' /\ Id(r) = id /\ transfer'[r] # << >>
    <2>1. /\ at' = at /\ folders' = folders
          /\ \A r \in Requests : DOMAIN transfer'[r] = DOMAIN transfer[r]
      BY <1>8, TransferFacts DEF execVars
    <2>2. PICK r \in Requests : Present(r) /\ Id(r) = id /\ transfer[r] # << >>
      BY <2>1 DEF FolderHasOwner
    <2>3. DOMAIN transfer[r] # {}
      BY <2>2, InputFacts DEF UploadTypes, ExecTypes
    <2>4. transfer'[r] # << >>
      BY <2>1, <2>3
    <2> QED
      BY <2>1, <2>2, <2>4 DEF Present
  <1> QED
    BY UploadCases, <1>5, <1>6, <1>7, <1>8

(* A name is taken by one file only: files are created exclusively.        *)
LEMMA StepNames ==
    ASSUME ExecTypes, UploadTypes, OneFilePerName, [Next]_vars
    PROVE  OneFilePerName'
  <1>1. ASSUME inputs' \subseteq inputs PROVE OneFilePerName'
    BY <1>1 DEF OneFilePerName
  <1>2. ASSUME NEW q \in Requests, NEW i \in DOMAIN transfer[q], Transfer(q, i)
        PROVE  OneFilePerName'
    <2>1. CASE inputs' \subseteq inputs
      BY <1>1, <2>1
    <2>2. CASE /\ At(Id(q), FileOf(q, i).name) = {}
               /\ inputs' = inputs \cup {FileOf(q, i)}
      BY <2>2 DEF OneFilePerName, At, FileOf
    <2> QED
      BY <1>2, <2>1, <2>2, TransferFacts
  <1>3. ASSUME NEW q \in Requests, StartBatch(q) \/ Removes(q) PROVE inputs' \subseteq inputs
    BY <1>3 DEF StartBatch, StartTransfers, Removes, RemoveFolder
  <1> QED
    BY UploadCases, <1>1, <1>2, <1>3 DEF uploadVars

(* A request that met no other keeps what its transfers made: only a       *)
(* request of the same identifier could remove it.                         *)
LEMMA StepKeepsFiles ==
    ASSUME ExecTypes, UploadTypes, PresentHaveMet, OneFilePerName,
           TransfersKeepFiles, [Next]_vars
    PROVE  TransfersKeepFiles'
  <1>1. /\ at \in [Requests -> Places]
        /\ transfer \in [Requests -> UNION {[D -> TransferStates] : D \in SUBSET Nat}]
    BY DEF ExecTypes, UploadTypes
  <1>2. \A r, i : FileOf(r, i)' = FileOf(r, i)
    BY Changes DEF FileOf, Id
  <1>3. SUFFICES ASSUME NEW r \in Requests, r \notin mixed, at'[r] \in Busy,
                        NEW i \in DOMAIN transfer'[r],
                        transfer'[r][i] \in {"copying", "kept"}
                 PROVE  FileOf(r, i) \in inputs'
    BY <1>2, MixedGrows DEF TransfersKeepFiles
  <1>4. at[r] \in Busy \/ Begin(r)
    BY <1>1, <1>3, Way DEF Advances, Busy
  <1>5. ASSUME i \in DOMAIN transfer[r], transfer[r][i] \in {"copying", "kept"}
        PROVE  at[r] \in Busy /\ FileOf(r, i) \in inputs
    BY <1>3, <1>4, <1>5 DEF TransfersKeepFiles, UploadTypes, Begin, Moves
  <1>6. ASSUME NEW q \in Requests, q # r, at[r] \in Busy, at[q] \in Busy
        PROVE  Id(q) # Id(r)
    BY <1>3, <1>6 DEF PresentHaveMet, Present
  <1>7. CASE UNCHANGED uploadVars
    BY <1>3, <1>5, <1>7 DEF uploadVars
  <1>8. ASSUME NEW q \in Requests, StartBatch(q) PROVE FileOf(r, i) \in inputs'
    <2>1. /\ inputs' = inputs
          /\ transfer' = [transfer EXCEPT ![q] = [j \in DOMAIN input[q].refs |-> "asked"]]
      BY <1>8 DEF StartBatch, StartTransfers
    <2>2. q # r
      BY <1>1, <1>3, <2>1
    <2> QED
      BY <1>1, <1>3, <1>5, <2>1, <2>2
  <1>9. ASSUME NEW q \in Requests, Removes(q) PROVE FileOf(r, i) \in inputs'
    <2>1. /\ q # r /\ transfer' = transfer /\ at[q] \in Busy
          /\ inputs' = {f \in inputs : f.id # Id(q)}
      BY <1>1, <1>3, <1>9 DEF Removes, RemoveFolder, Busy
    <2>2. at[r] \in Busy /\ FileOf(r, i) \in inputs
      BY <1>3, <1>5, <2>1
    <2> QED
      BY <1>6, <2>1, <2>2 DEF FileOf
  <1>10. ASSUME NEW q \in Requests, NEW j \in DOMAIN transfer[q], Transfer(q, j)
         PROVE  FileOf(r, i) \in inputs'
    <2>1. i \in DOMAIN transfer[r] /\ at[q] \in Busy
      BY <1>3, <1>10, TransferFacts DEF Busy
    <2>2. CASE <<q, j>> = <<r, i>>
      BY <1>3, <1>5, <1>10, <2>1, <2>2, TransferFacts
    <2>3. CASE <<q, j>> # <<r, i>>
      <3>1. transfer'[r][i] = transfer[r][i]
        BY <1>10, <2>1, <2>3, TransferFacts
      <3>2. at[r] \in Busy /\ FileOf(r, i) \in inputs
        BY <1>3, <1>5, <2>1, <3>1
      <3>3. CASE inputs \subseteq inputs'
        BY <3>2, <3>3
      <3>4. CASE /\ inputs' = inputs \ At(Id(q), FileOf(q, j).name)
                 /\ transfer[q][j] = "copying"
        <4>1. CASE q # r
          BY <1>6, <2>1, <3>2, <3>4, <4>1 DEF FileOf, At
        <4>2. CASE q = r
          <5>1. FileOf(r, j) \in inputs
            BY <1>3, <1>10, <3>2, <3>4, <4>2 DEF TransfersKeepFiles
          <5>2. i # j
            BY <2>3, <4>2
          <5>3. FileOf(r, i).name # FileOf(r, j).name
            BY <3>2, <5>1, <5>2 DEF OneFilePerName, FileOf
          <5> QED
            BY <3>2, <3>4, <4>2, <5>3 DEF At
        <4> QED
          BY <4>1, <4>2
      <3> QED
        BY <1>10, <3>3, <3>4, TransferFacts
    <2> QED
      BY <2>2, <2>3
  <1> QED
    BY UploadCases, <1>7, <1>8, <1>9, <1>10

(* Transfers are made while at "download" only, and all are kept when the  *)
(* command is prepared; whoever is done has left no file.                  *)
LEMMA StepTransfersAreOver ==
    ASSUME ExecTypes, UploadTypes, TransfersAreOver, [Next]_vars
    PROVE  TransfersAreOver'
  <1>1. /\ at \in [Requests -> Places]
        /\ transfer \in [Requests -> UNION {[D -> TransferStates] : D \in SUBSET Nat}]
    BY DEF ExecTypes, UploadTypes
  <1>2. SUFFICES ASSUME NEW r \in Requests
                 PROVE  /\ at'[r] \in Busy \ {"download"} =>
                              /\ DOMAIN transfer'[r] = DOMAIN input[r].refs
                              /\ States(r)' \subseteq {"kept"}
                        /\ at'[r] = "done" =>
                              /\ States(r)' \subseteq {"kept", "failed"}
                              /\ \A f \in inputs' : f.by[1] # r
    BY Changes DEF TransfersAreOver
  <1>3. ASSUME at[r] # "download"
        PROVE  transfer'[r] = transfer[r] /\ \A f \in inputs' \ inputs : f.by[1] # r
    <2>1. ASSUME NEW q \in Requests, StartBatch(q)
          PROVE  inputs' = inputs /\ transfer'[r] = transfer[r]
      BY <1>1, <1>3, <2>1 DEF StartBatch, StartTransfers
    <2>2. ASSUME NEW q \in Requests, Removes(q)
          PROVE  inputs' \subseteq inputs /\ transfer' = transfer
      BY <2>2 DEF Removes, RemoveFolder
    <2>3. ASSUME NEW q \in Requests, NEW i \in DOMAIN transfer[q], Transfer(q, i)
          PROVE  /\ transfer'[r] = transfer[r]
                 /\ inputs' \subseteq inputs \cup {FileOf(q, i)} /\ q # r
      BY <1>1, <1>3, <2>3
      DEF Transfer, CreateFile, RequestFails, CopyEnds, CopyFails, SetTransfer,
          FileOf
    <2> QED
      BY UploadCases, <2>1, <2>2, <2>3 DEF uploadVars, FileOf
  <1>4. States(r)' = {transfer'[r][i] : i \in DOMAIN transfer'[r]}
    BY DEF States
  <1>5. CASE at'[r] \in Busy \ {"download"}
    <2>1. CASE at[r] \in Busy \ {"download"}
      <3>1. DOMAIN transfer[r] = DOMAIN input[r].refs /\ States(r) \subseteq {"kept"}
        BY <2>1 DEF TransfersAreOver
      <3> QED
        BY <1>3, <1>4, <1>5, <2>1, <3>1 DEF States, Busy
    <2>2. CASE Begin(r)
      <3>1. transfer' = transfer /\ transfer[r] = << >> /\ input[r].refs = << >>
        BY <1>1, <1>5, <2>2 DEF Begin, Moves, Goto, UploadTypes, uploadVars
      <3> QED
        BY <1>4, <1>5, <3>1 DEF Busy
    <2>3. CASE BatchDone(r)
      <3>1. at'[r] = "prepare"
        BY <1>1, <1>5, <2>3 DEF BatchDone, Moves, Goto, Busy
      <3>2. transfer[r] # << >> /\ transfer' = transfer /\ States(r) \subseteq {"kept"}
        BY <1>1, <2>3, <3>1 DEF BatchDone, BatchSucceeds, uploadVars, Moves, Goto
      <3>3. DOMAIN transfer[r] = DOMAIN input[r].refs
        BY <3>2 DEF UploadTypes
      <3> QED
        BY <1>4, <1>5, <3>2, <3>3 DEF States, Busy
    <2> QED
      BY <1>1, <1>5, <2>1, <2>2, <2>3, Way DEF Advances, Busy
  <1>6. CASE at'[r] = "done"
    <2>1. CASE at[r] = "done"
      BY <1>3, <1>4, <1>6, <2>1 DEF TransfersAreOver, States, Busy
    <2>2. CASE at[r] # "done"
      <3>1. /\ transfer' = transfer
            /\ States(r) \subseteq {"kept", "failed"}
            /\ Removes(r) \/ (transfer[r] = << >> /\ UNCHANGED uploadVars)
        BY <1>6, <2>2, BecomesDone
      <3>2. ASSUME NEW f \in inputs', f.by[1] = r PROVE FALSE
        <4>1. f \in inputs
          BY <3>1 DEF Removes, RemoveFolder, uploadVars
        <4>2. \E i \in DOMAIN transfer[r] : f = FileOf(r, i)
          BY <3>2, <4>1 DEF UploadTypes, FileOf
        <4> QED
          BY <3>1, <4>2 DEF Removes, RemoveFolder, FileOf
      <3> QED
        BY <1>4, <1>6, <3>1, <3>2 DEF States, Busy
    <2> QED
      BY <2>1, <2>2
  <1> QED
    BY <1>5, <1>6

----------------------------------------------------------------------------
(* Captures, artifacts and links.                                          *)

(* A request whose captures failed it stays one.                           *)
LEMMA MishapGrows ==
    ASSUME [Next]_vars
    PROVE  mishap \subseteq mishap'
  <1>1. ASSUME NEW r \in Requests,
               CollectInline(r) \/ CollectAttached(r) \/ CollectFails(r) \/ InlineFails(r)
        PROVE  mishap \subseteq mishap'
    BY <1>1 DEF CollectInline, CollectAttached, CollectFails, InlineFails
  <1> QED
    BY <1>1
    DEF Next, Handler, vars, histVars, Begin, Deadline, Cancel, StartBatch,
        BatchRefused, Transfer, BatchDone, Prepare, PrepareFails,
        SecondCaptureFails, StartBash, StartFails, Fork, Output, OutputFails,
        ReadInput, BashExits, ChildExits, Interrupt, WaitReturns, Return,
        Leave, Tick, Client, CleanupRound, Restart, SecondProcess

(* A request has its captures open while its command runs; afterwards they *)
(* are closed, and gone unless they are published.                         *)
LEMMA StepCaptures ==
    ASSUME ExecTypes, CapturesInHand, [Next]_vars
    PROVE  CapturesInHand'
  <1>1. at \in [Requests -> Places]
    BY DEF ExecTypes
  <1> DEFINE Open == {"start", "running", "killed"}
             Held(r) == /\ at[r] \in Open => CapturesOf(r) \subseteq fds
                        /\ at[r] \notin Open /\ r \notin mishap =>
                              CapturesOf(r) \cap fds = {}
                        /\ at[r] \notin Open \cup {"collect"} /\ r \notin mishap =>
                              CapturesOf(r) \cap files \subseteq items
  <1>2. SUFFICES ASSUME NEW r \in Requests PROVE Held(r)'
    BY DEF CapturesInHand
  <1>3. Held(r)
    BY DEF CapturesInHand
  <1>4. ASSUME NEW q \in Requests, q # r
        PROVE  CapturesOf(q) \cap CapturesOf(r) = {}
    BY <1>4 DEF CapturesOf
  <1>5. \A c \in CapturesOf(r) : c[1] = r
    BY DEF CapturesOf
  <1>6. ASSUME NEW q \in Requests, Prepare(q) PROVE Held(r)'
    BY <1>1, <1>3, <1>4, <1>6, MishapGrows DEF Prepare, NewCaptures, Moves, Goto
  <1>7. ASSUME NEW q \in Requests, SecondCaptureFails(q) PROVE Held(r)'
    BY <1>1, <1>3, <1>5, <1>7 DEF SecondCaptureFails, Moves, Goto
  <1>8. ASSUME NEW q \in Requests, StartFails(q) PROVE Held(r)'
    BY <1>1, <1>3, <1>4, <1>8, MishapGrows DEF StartFails, Moves, Goto
  <1>9. ASSUME NEW q \in Requests, WaitReturns(q) PROVE Held(r)'
    BY <1>1, <1>3, <1>4, <1>9, MishapGrows DEF WaitReturns, Moves, Goto
  <1>10. ASSUME NEW q \in Requests, Disposes(q) PROVE Held(r)'
    <2>1. /\ at[q] = "collect" /\ at' = [at EXCEPT ![q] = "return"] /\ fds' = fds
      BY <1>10 DEF Disposes, Collects, Moves, Goto
    <2>2. CASE q = r
      <3>1. r \in mishap' \/ CapturesOf(r) \cap files' \subseteq items'
        BY <1>10, <2>2 DEF Disposes, Dispose
      <3> QED
        BY <1>1, <1>3, <2>1, <2>2, <3>1, MishapGrows
    <2>3. CASE q # r
      <3>1. CapturesOf(r) \cap files' = CapturesOf(r) \cap files /\ items \subseteq items'
        BY <1>4, <1>10, <2>3 DEF Disposes, Dispose
      <3> QED
        BY <1>1, <1>3, <2>1, <2>3, <3>1, MishapGrows
    <2> QED
      BY <2>2, <2>3
  <1>11. ASSUME Restart PROVE Held(r)'
    BY <1>1, <1>11 DEF Restart, NewStore, Busy, Places
  <1>12. ASSUME SecondProcess PROVE Held(r)'
    BY <1>3, <1>12 DEF SecondProcess, execVars
  <1>13. ASSUME \/ Tick \/ Client \/ CleanupRound
                \/ \E q \in Requests : Output(q) \/ OutputFails(q)
         PROVE  Held(r)'
    <2>1. UNCHANGED <<at, mishap>>
      BY <1>13 DEF Tick, Client, CleanupRound, Output, OutputFails, execVars, histVars
    <2>2. fds' = fds /\ files' \subseteq files /\ files' \cap items \subseteq items'
      <3>1. CASE CleanupRound
        BY <3>1 DEF CleanupRound, Cleanup
      <3>2. CASE ~ CleanupRound
        BY <1>13, <3>2
        DEF Tick, PassTime, Client, CheckLink, LookUpItem, OpenFile,
            DownloadEnds, Output, OutputFails
      <3> QED
        BY <3>1, <3>2
    <2> QED
      BY <1>3, <2>1, <2>2
  <1>14. CASE UNCHANGED storeVars
    <2>1. CASE at'[r] = at[r] \/ (at[r] \in Busy /\ at'[r] = "lost")
      <3>1. CASE at'[r] = at[r]
        BY <1>3, <1>14, <3>1, MishapGrows DEF storeVars
      <3>2. CASE at[r] \in Busy /\ at'[r] = "lost" /\ at'[r] # at[r]
        <4>1. Restart
          BY <1>1, <3>2, Changes DEF Busy
        <4> QED
          BY <1>11, <4>1
      <3> QED
        BY <2>1, <3>1, <3>2
    <2>2. CASE Advances(r)
      BY <1>3, <1>6, <1>7, <1>8, <1>9, <1>10, <1>14, <2>2, MishapGrows
      DEF Advances, storeVars
    <2> QED
      BY <1>1, <2>1, <2>2, Way
  <1> QED
    BY StoreCases, <1>6, <1>7, <1>8, <1>9, <1>10, <1>11, <1>12, <1>13, <1>14

(* A file with a link was published once, after its request had collected  *)
(* its output, and is there until it expires or a new process wipes it.    *)
LEMMA StepPublished ==
    ASSUME ExecTypes, StoreTypes, PublishedIsKept, [Next]_vars
    PROVE  PublishedIsKept'
  <1> DEFINE After == {"return", "leave", "done", "lost"}
  <1>1. /\ at \in [Requests -> Places]
        /\ left \in [DOMAIN left -> Int] /\ DOMAIN left \subseteq Captures
    BY DEF ExecTypes, StoreTypes, StoreTypeOK
  <1>2. ASSUME NEW r \in Requests, at[r] \in After PROVE at'[r] \in After
    BY <1>1, <1>2, Way DEF Advances
  <1>3. \A c \in Captures : c[1] \in Requests
    BY DEF Captures
  <1>4. ASSUME NEW c \in DOMAIN left
        PROVE  at'[c[1]] \in After
    BY <1>1, <1>2, <1>3 DEF PublishedIsKept
  <1>5. ASSUME left' = left, wiped \subseteq wiped', items \cap files \subseteq items' \cap files'
        PROVE  PublishedIsKept'
    BY <1>4, <1>5 DEF PublishedIsKept, Expired
  <1>6. ASSUME NEW q \in Requests, Disposes(q), wiped' = wiped PROVE PublishedIsKept'
    <2>1. at[q] = "collect" /\ at'[q] = "return"
      BY <1>1, <1>6 DEF Disposes, Collects, Moves, Goto
    <2>2. \A c \in DOMAIN left : c \notin CapturesOf(q)
      BY <1>1, <2>1 DEF PublishedIsKept, CapturesOf
    <2>3. CASE UNCHANGED <<files, items, left, phase>>
      BY <1>5, <1>6, <2>3
    <2>4. ASSUME NEW published \in SUBSET CapturesOf(q), Readable(q),
                 Dispose(CapturesOf(q) \ published, published)
          PROVE  PublishedIsKept'
      <3>1. /\ DOMAIN left' = DOMAIN left \cup published
            /\ items' = items \cup published
            /\ files' = files \ (CapturesOf(q) \ published)
            /\ \A c \in DOMAIN left : left'[c] = left[c]
        BY <1>1, <2>2, <2>4 DEF Dispose
      <3>2. ASSUME NEW c \in DOMAIN left
            PROVE  c \in items' \cap files' \/ left'[c] < 0 \/ c \in wiped'
        BY <1>6, <2>2, <3>1 DEF PublishedIsKept, Expired
      <3>3. ASSUME NEW c \in published
            PROVE  c \in items' \cap files' /\ at'[c[1]] \in After
        <4>1. c \in files /\ c[1] = q
          BY <2>4 DEF Readable, CapturesOf
        <4> QED
          BY <2>1, <3>1, <4>1
      <3> QED
        BY <1>4, <3>1, <3>2, <3>3 DEF PublishedIsKept, Expired
    <2> QED
      BY <1>6, <2>3, <2>4 DEF Disposes
  <1>7. ASSUME Tick PROVE PublishedIsKept'
    <2>1. /\ DOMAIN left' = DOMAIN left /\ files' = files /\ items' = items
          /\ wiped' = wiped
          /\ \A c \in DOMAIN left : left'[c] <= left[c] /\ left'[c] \in Int
      BY <1>1, <1>7 DEF Tick, PassTime, histVars
    <2> QED
      BY <1>1, <1>4, <2>1 DEF PublishedIsKept, Expired
  <1>8. ASSUME CleanupRound PROVE PublishedIsKept'
    <2>1. /\ left' = left /\ wiped' = wiped
          /\ \A c \in items \cap files : c \in items' \cap files' \/ Expired(c)
      BY <1>8 DEF CleanupRound, Cleanup, histVars
    <2> QED
      BY <1>4, <2>1 DEF PublishedIsKept, Expired
  <1>9. ASSUME Restart \/ SecondProcess PROVE PublishedIsKept'
    <2>1. left' = left /\ wiped' = wiped \cup files
      BY <1>9 DEF Restart, NewStore, SecondProcess
    <2> QED
      BY <1>4, <2>1 DEF PublishedIsKept, Expired
  <1>10. ASSUME NEW q \in Requests,
                \/ Prepare(q) \/ SecondCaptureFails(q) \/ Output(q)
                \/ OutputFails(q) \/ WaitReturns(q)
         PROVE  PublishedIsKept'
    BY <1>5, <1>10
    DEF Prepare, NewCaptures, SecondCaptureFails, Output, OutputFails, WaitReturns,
        histVars
  <1>11. ASSUME NEW q \in Requests, StartFails(q) PROVE PublishedIsKept'
    <2>1. at[q] = "start" /\ left' = left /\ items' = items /\ wiped' = wiped
          /\ files' = files \ CapturesOf(q)
      BY <1>11 DEF StartFails, Moves, histVars
    <2>2. \A c \in DOMAIN left : c \notin CapturesOf(q)
      BY <1>1, <2>1 DEF PublishedIsKept, CapturesOf
    <2> QED
      BY <1>4, <2>1, <2>2 DEF PublishedIsKept, Expired
  <1>12. ASSUME Client PROVE PublishedIsKept'
    BY <1>5, <1>12
    DEF Client, CheckLink, LookUpItem, OpenFile, DownloadEnds, histVars
  <1>13. wiped \subseteq wiped' /\ (wiped' = wiped \/ Restart \/ SecondProcess)
    BY ZenonT(30), StepCases
    DEF histVars, Begin, Deadline, Cancel, BatchRefused, BatchDone, Prepare,
        PrepareFails, SecondCaptureFails, StartBash, StartFails, Fork, OutputFails,
        ReadInput, BashExits,
        ChildExits, Interrupt, WaitReturns, Disposes, Collects, Return, Leave, Tick,
        Restart, SecondProcess
  <1>14. ASSUME UNCHANGED storeVars PROVE PublishedIsKept'
    BY <1>5, <1>13, <1>14 DEF storeVars
  <1> QED
    BY StoreCases, <1>6, <1>7, <1>8, <1>9, <1>10, <1>11, <1>12, <1>13, <1>14

(* A link never gets more time than it was given.                          *)
LEMMA LeftOnlyFalls ==
    ASSUME ExecTypes, StoreTypes, PublishedIsKept, [Next]_vars, NEW c \in DOMAIN left
    PROVE  left'[c] <= left[c] /\ left[c] \in Int /\ left'[c] \in Int
  <1>1. /\ left \in [DOMAIN left -> Int] /\ left[c] \in Int
        /\ c[1] \in Requests
    BY DEF StoreTypes, StoreTypeOK, Captures
  <1>2. ASSUME NEW q \in Requests, Disposes(q) PROVE left'[c] = left[c]
    <2>1. c \notin CapturesOf(q)
      BY <1>2 DEF PublishedIsKept, Disposes, Collects, Moves, CapturesOf
    <2> QED
      BY <1>1, <1>2, <2>1 DEF Disposes, Dispose
  <1>3. ASSUME Tick PROVE left'[c] <= left[c] /\ left'[c] \in Int
    BY <1>1, <1>3 DEF Tick, PassTime
  <1>4. ASSUME \/ UNCHANGED storeVars
               \/ \E r \in Requests : \/ Prepare(r) \/ SecondCaptureFails(r)
                                      \/ StartFails(r) \/ Output(r)
                                      \/ OutputFails(r) \/ WaitReturns(r)
               \/ Client \/ CleanupRound \/ Restart \/ SecondProcess
        PROVE  left' = left
    BY <1>4
    DEF storeVars, Prepare, SecondCaptureFails, StartFails, Output,
        OutputFails, WaitReturns, Client, CheckLink, LookUpItem, OpenFile,
        DownloadEnds, CleanupRound, Cleanup, Restart, NewStore, SecondProcess
  <1> QED
    BY <1>1, <1>2, <1>3, <1>4, StoreCases

(* A capture a new process removed stays removed.                          *)
LEMMA WipedGrows ==
    ASSUME [Next]_vars
    PROVE  wiped \subseteq wiped'
  BY ZenonT(30), StepCases
  DEF histVars, Begin, Deadline, Cancel, BatchRefused, BatchDone, Prepare,
      PrepareFails, SecondCaptureFails, StartBash, StartFails, Fork, OutputFails,
        ReadInput, BashExits,
      ChildExits, Interrupt, WaitReturns, Disposes, Collects, Return, Leave, Tick,
      Restart, SecondProcess

(* A client is refused only for a link whose time is over, or whose file a *)
(* new process has removed, and what it was told stays true.               *)
LEMMA StepLinks ==
    ASSUME ExecTypes, StoreTypes, PublishedIsKept, OneAtATime,
           LinkServesUntilExpiry, [Next]_vars
    PROVE  OneAtATime' /\ LinkServesUntilExpiry'
  <1>1. /\ left \in [DOMAIN left -> Int]
        /\ download.of \subseteq DOMAIN left
        /\ download \in [step : {"none", "valid", "expired", "found", "missing",
                                "served"},
                         of : SUBSET Captures]
        /\ phase \in Nat
    BY StoreAssumptions DEF StoreTypes, StoreTypeOK
  <1>2. ASSUME NEW c \in DOMAIN left, Expired(c) \/ c \in wiped
        PROVE  Expired(c)' \/ c \in wiped'
    BY <1>2, LeftOnlyFalls, WipedGrows DEF Expired
  <1>3. CASE download' = download
    BY <1>1, <1>2, <1>3 DEF OneAtATime, LinkServesUntilExpiry
  <1>4. CASE CheckLink
    <2>1. PICK c \in DOMAIN left :
              download' = [step |-> IF LinkExpired(c) THEN "expired" ELSE "valid",
                           of |-> {c}]
      BY <1>4 DEF CheckLink
    <2>2. LinkExpired(c) => Expired(c)
      BY <1>1, StoreAssumptions DEF LinkExpired, Expired
    <2>3. download'.of = {c} /\ (download'.step \in {"expired", "missing"} => Expired(c))
      BY <2>1, <2>2
    <2> QED
      BY <1>2, <2>3 DEF OneAtATime, LinkServesUntilExpiry
  <1>5. CASE LookUpItem \/ OpenFile
    <2>1. /\ download'.of = download.of
          /\ download'.step = "missing" => ~ (download.of \subseteq items \cap files)
          /\ download'.step # "expired"
      BY <1>1, <1>5 DEF LookUpItem, OpenFile
    <2>2. ASSUME download'.step = "missing", NEW c \in download.of
          PROVE  Expired(c) \/ c \in wiped
      BY <1>1, <2>1, <2>2 DEF PublishedIsKept, OneAtATime
    <2> QED
      BY <1>1, <1>2, <2>1, <2>2 DEF OneAtATime, LinkServesUntilExpiry
  <1>6. CASE DownloadEnds
    BY <1>6 DEF DownloadEnds, NoDownload, OneAtATime, LinkServesUntilExpiry
  <1>7. download' = download \/ Client
    BY StoreCases
    DEF storeVars, Prepare, SecondCaptureFails, StartFails, Output,
        OutputFails, WaitReturns, Disposes, Collects, Tick, PassTime,
        CleanupRound, Cleanup, Restart, NewStore, SecondProcess
  <1> QED
    BY <1>3, <1>4, <1>5, <1>6, <1>7 DEF Client

----------------------------------------------------------------------------
(* The invariant and what it says.                                         *)

(* Nothing has begun.                                                      *)
LEMMA ExecInitInv == Init => ExecInv
  <1> SUFFICES ASSUME Init PROVE ExecInv
    OBVIOUS
  <1>1. ExecTypes
    <2>1. 0 \in 0 .. TicksOf(Maximum)
      BY LimitsAreBounded, TicksAreMonotone
    <2> QED
      BY <2>1 DEF Init, ExecTypes, Places, NoProcess, NoAnswer
  <1>2. StoreTypes
    BY StoreAssumptions
    DEF Init, StoreInit, StoreTypes, StoreTypeOK, Captures, NoDownload
  <1>3. UploadTypes
    <2>1. << >> \in UNION {[D -> TransferStates] : D \in SUBSET Nat}
      <3>1. << >> \in [{} -> TransferStates]
        OBVIOUS
      <3> QED
        BY <3>1
    <2> QED
      BY <2>1, ExecutorAssumptions DEF Init, UploadInit, UploadTypes
  <1>4. /\ ProcessesKnown /\ DeadlineIsPast /\ StoppedIsTold
        /\ LossIsTold /\ NobodyPrints
    BY DEF Init, LossIsTold, NobodyPrints, Late, ProcessesKnown,
           DeadlineIsPast, StoppedIsTold, NoProcess, NoAnswer, Up, Early, Late,
           Bash, Kinds
  <1>5. PresentHaveMet /\ CwdFileHasOwner /\ DirIsOwn
    BY DEF Init, PresentHaveMet, Present, Busy, CwdFileHasOwner, DirIsOwn, NoAnswer
  <1>6. FolderHasOwner /\ OneFilePerName /\ TransfersKeepFiles /\ TransfersAreOver
    BY DEF Init, UploadInit, FolderHasOwner, OneFilePerName, TransfersKeepFiles,
           TransfersAreOver, Busy
  <1>7. CapturesInHand /\ PublishedIsKept /\ OneAtATime /\ LinkServesUntilExpiry
    BY DEF Init, StoreInit, CapturesInHand, PublishedIsKept, OneAtATime,
           LinkServesUntilExpiry, NoDownload
  <1> QED
    BY <1>1, <1>2, <1>3, <1>4, <1>5, <1>6, <1>7 DEF ExecInv, Types

(* Every step keeps the invariant.                                         *)
LEMMA ExecStepInv ==
    ASSUME ExecInv, [Next]_vars
    PROVE  ExecInv'
  BY StepExecTypes, StepStoreTypes, StepUploadTypes, StepProcesses, StepDeadline,
     StepStopped, StepLoss, StepPrints, StepPresentHaveMet, StepCwdFile,
     StepDir, StepFolders, StepNames, StepKeepsFiles, StepTransfersAreOver,
     StepCaptures, StepPublished, StepLinks
  DEF ExecInv, Types

(* The inductive invariant holds in every state.                           *)
LEMMA ExecInvariant == Spec => []ExecInv
  BY ExecInitInv, ExecStepInv, PTL DEF Spec

(* Every variable stays in its range; captures are open while they are     *)
(* written to, and no process runs before its request is prepared          *)
(* (executor.go:40-112).                                                   *)
THEOREM ExecutorTypeCorrect == Spec => []ExecutorTypeOK
  <1>1. ASSUME ExecInv PROVE ExecutorTypeOK
    <2>1. StoreTypeOK
      BY <1>1 DEF ExecInv, Types, StoreTypes
    <2>2. UploadTypeOK
      <3>1. UploadTypes
        BY <1>1 DEF ExecInv, Types
      <3>2. ASSUME NEW b \in Batches, NEW i \in DOMAIN transfer[b]
            PROVE  transfer[b][i] \in TransferStates
        <4>1. PICK D \in SUBSET Nat : transfer[b] \in [D -> TransferStates]
          BY <3>1, ExecutorAssumptions DEF UploadTypes
        <4> QED
          BY <4>1
      <3> QED
        BY <3>1, <3>2 DEF UploadTypes, UploadTypeOK, States, TransferStates
    <2>3. \A r \in Requests :
              /\ at[r] \in {"idle", "download", "prepare"} => proc[r] = NoProcess
              /\ at[r] \in {"start", "running", "killed"} => CapturesOf(r) \subseteq fds
      BY <1>1 DEF ExecInv, ProcessesKnown, Early, CapturesInHand
    <2> QED
      BY <1>1, <2>1, <2>2, <2>3
      DEF ExecInv, Types, ExecTypes, Places, ExecutorTypeOK
  <1> QED
    BY <1>1, ExecInvariant, PTL

(* A result that may be cached holds all the output the command was        *)
(* making: a command that lost a process with the pipe to the deadline is  *)
(* told so, one whose capture could not be written has not exit code 0,    *)
(* and nobody is left that could write more (executor.go:101-124,          *)
(* artifact.go:77-81, server.go:324).                                      *)
THEOREM CachedResultsAreWhole == Spec => []StorableIsWhole
  <1>1. ASSUME ExecInv PROVE StorableIsWhole
    BY <1>1
    DEF ExecInv, Types, ExecTypes, LossIsTold, NobodyPrints, Stopped,
        StorableIsWhole, Answered, Late
  <1> QED
    BY <1>1, ExecInvariant, PTL

(* When an answer says timed_out, nothing of the process group is left,    *)
(* whatever bash and its children did before (executor.go:105-111;         *)
(* README.md:13).                                                          *)
THEOREM TimeoutEndsTheGroup == Spec => []TimedOutLeavesNoGroup
  <1>1. ASSUME ExecInv PROVE TimedOutLeavesNoGroup
    BY <1>1 DEF ExecInv, StoppedIsTold, TimedOutLeavesNoGroup
  <1> QED
    BY <1>1, ExecInvariant, PTL

(* No command is stopped by the deadline before the limit it asked for, or *)
(* the server's, is over - for every width of the integers and every unit  *)
(* in which limits are given (executor.go:272-281).                        *)
THEOREM DeadlinesAreKept == Spec => []NotCutEarly
  <1>1. ASSUME ExecInv PROVE NotCutEarly
    <2> SUFFICES ASSUME NEW r \in Requests, answer[r].timedOut, Fits(input[r].seconds)
                 PROVE  LET asked == input[r].seconds * Second
                        IN  elapsed[r] >= TicksOf(IF asked > 0 /\ asked < Maximum
                                                  THEN asked ELSE Maximum)
      BY DEF NotCutEarly
    <2> DEFINE n == input[r].seconds
               asked == n * Second
    <2>1. elapsed[r] >= TicksOf(Limit(r)) /\ n \in Int
      <3>1. ctx[r] = "deadline" /\ at[r] # "idle"
        BY <1>1 DEF ExecInv, StoppedIsTold, Early
      <3> QED
        BY <1>1, <3>1, InputFacts
        DEF ExecInv, Types, ExecTypes, DeadlineIsPast
    <2>2. asked \in - MaxInt - 1 .. MaxInt /\ (n <= 0 <=> asked <= 0)
      BY <2>1, DurationAssumptions DEF Fits
    <2>3. Seconds(n) = asked
      BY <2>2, WrapIsExact DEF Seconds
    <2>4. Limit(r) = IF asked > 0 /\ asked < Maximum THEN asked ELSE Maximum
      BY <2>2, <2>3, LimitsAreBounded DEF Limit, RequestTimeout
    <2> QED
      BY <2>1, <2>4
  <1> QED
    BY <1>1, ExecInvariant, PTL

(* The directory an answer reports is the one its own command left, or the *)
(* one it started in, for a request that met no other of its identifier    *)
(* (executor.go:71-72, 125-132).                                           *)
THEOREM DirectoriesAreOwn == Spec => []FinalDirIsOwn
  <1>1. ASSUME ExecInv PROVE FinalDirIsOwn
    BY <1>1 DEF ExecInv, DirIsOwn, FinalDirIsOwn
  <1> QED
    BY <1>1, ExecInvariant, PTL

(* While bash runs, each file of a request that met no other of its        *)
(* identifier is there under its name, with the content of its own link,   *)
(* however many files there are and however they are named                 *)
(* (uploads.go:63-84, 161).                                                *)
THEOREM InputsAreWhole == Spec => []InputsStayWhole
  <1>1. ASSUME ExecInv PROVE InputsStayWhole
    <2> SUFFICES ASSUME NEW r \in Requests \ mixed, at[r] = "running",
                        NEW i \in DOMAIN input[r].refs
                 PROVE  transfer[r][i] = "kept" /\ FileOf(r, i) \in inputs
      BY DEF InputsStayWhole, FileOf
    <2>1. i \in DOMAIN transfer[r] /\ transfer[r][i] = "kept"
      BY <1>1 DEF ExecInv, TransfersAreOver, States, Busy
    <2> QED
      BY <1>1, <2>1 DEF ExecInv, TransfersKeepFiles, Busy
  <1> QED
    BY <1>1, ExecInvariant, PTL

(* A request that is done leaves nothing behind, on any path through the   *)
(* handler: no transfer, descriptor, unpublished capture, input file, or   *)
(* directory (uploads.go:113-118, server.go:302, executor.go:66-72).       *)
THEOREM NothingIsLeftBehind == Spec => []FinishedLeavesNothing
  <1>1. ASSUME ExecInv PROVE FinishedLeavesNothing
    <2> SUFFICES ASSUME NEW r \in Requests, r \notin mishap, at[r] = "done"
                 PROVE  /\ States(r) \subseteq {"kept", "failed"}
                        /\ CapturesOf(r) \cap fds = {}
                        /\ CapturesOf(r) \cap files \subseteq items
                        /\ \A f \in inputs : f.by[1] # r
                        /\ Sharing(r) = {} => /\ Id(r) \notin folders
                                             /\ cwdFile[Id(r)] = Nobody
      BY DEF FinishedLeavesNothing
    <2>1. /\ States(r) \subseteq {"kept", "failed"}
          /\ \A f \in inputs : f.by[1] # r
      BY <1>1 DEF ExecInv, TransfersAreOver
    <2>2. CapturesOf(r) \cap fds = {} /\ CapturesOf(r) \cap files \subseteq items
      BY <1>1 DEF ExecInv, CapturesInHand
    <2>3. ASSUME Sharing(r) = {}, NEW q \in Requests, Id(q) = Id(r), Present(q)
          PROVE  FALSE
      BY <2>3 DEF Sharing, Present, Busy
    <2>4. Id(r) \in Ids
      BY <1>1, InputFacts DEF ExecInv, Types, ExecTypes
    <2>5. Sharing(r) = {} => Id(r) \notin folders
      BY <1>1, <2>3 DEF ExecInv, FolderHasOwner
    <2>6. Sharing(r) = {} => cwdFile[Id(r)] = Nobody
      BY <1>1, <2>3, <2>4
      DEF ExecInv, Types, ExecTypes, CwdFileHasOwner, Present, Busy
    <2> QED
      BY <2>1, <2>2, <2>5, <2>6
  <1> QED
    BY <1>1, ExecInvariant, PTL

(* A link is refused only after the instant its artifact expires, or after *)
(* a new process has removed the file, although expiry is compared in      *)
(* whole seconds here and in nanoseconds there (artifact.go:136-163,       *)
(* 179-192).                                                               *)
THEOREM LinksServeUntilExpiry == Spec => []LinkServesUntilExpiry
  BY ExecInvariant, PTL DEF ExecInv
=============================================================================
