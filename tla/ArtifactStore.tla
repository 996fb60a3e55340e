--------------------------- MODULE ArtifactStore ---------------------------
(***************************************************************************)
(* The artifact store (src/internal/agent/artifact.go): capture files that *)
(* take the output of commands, of which some are published under signed   *)
(* links until they expire, and the loop that removes them afterwards.     *)
(*                                                                         *)
(* A capture is named by its request and stream; the code draws 128 random *)
(* bits for each.  Time is a number of ticks, some to the second: `phase`  *)
(* says where in its second the clock is, and an instant is given by its   *)
(* distance from now.  Executor drives this module, with the clock.        *)
(***************************************************************************)
EXTENDS Integers, FiniteSets

CONSTANTS Requests,
          TicksPerSecond,
          ArtifactTTL,       \* ARTIFACT_TTL_SECONDS, in ticks
          MaxBytes           \* MAX_ARTIFACT_BYTES, in pieces of output

ASSUME StoreAssumptions == /\ TicksPerSecond \in Nat \ {0}
                           /\ ArtifactTTL \in Int
                           /\ MaxBytes \in Nat \ {0}

VARIABLES files,        \* capture files in the directory
          fds,          \* captures the server has open
          written,      \* per capture, cappedFile.written
          truncated,    \* captures with cappedFile.truncated
          items,        \* artifactStore.items
          left,         \* published captures -> ticks until a.expires
          phase,        \* ticks since the last full second; of interest, and
                        \* settled, once a link exists
          download      \* a client that follows links: its step, and the set
                        \* of the one capture it asks for

storeVars == <<files, fds, written, truncated, items, left, phase, download>>

Streams  == {"stdout", "stderr"}
Captures == Requests \X Streams

CapturesOf(r) == {r} \X Streams

NoDownload == [step |-> "none", of |-> {}]

StoreInit == /\ files = {} /\ fds = {} /\ items = {} /\ truncated = {}
             /\ written = [c \in Captures |-> 0]
             /\ left = [c \in {} |-> 0]
             /\ phase = 0
             /\ download = NoDownload

----------------------------------------------------------------------------
(* Operations of the executor on its captures cs.                          *)

NewCaptures(cs) == /\ files' = files \cup cs
                   /\ fds' = fds \cup cs

(* Fault: what does not fit is written all the same.                       *)
WriteUncapped(c) ==
    /\ written' = [written EXCEPT ![c] = @ + 1]
    /\ truncated' = IF written[c] >= MaxBytes THEN truncated \cup {c}
                                              ELSE truncated

(* cappedFile.Write of one more piece of output.                           *)
WriteCapped(c) ==
    /\ written' = [written EXCEPT ![c] = IF @ < MaxBytes THEN @ + 1 ELSE @]
    /\ truncated' = IF written[c] >= MaxBytes THEN truncated \cup {c}
                                              ELSE truncated

(* The write to the file fails; a piece that would have passed the limit   *)
(* is noted before.                                                        *)
WriteFails(c) ==
    /\ written[c] < MaxBytes
    /\ truncated' \in {truncated, truncated \cup {c}}

(* Bookkeeping of the model, not of the code: once execute has returned,   *)
(* nobody asks any more what its captures counted.                         *)
Forget(cs) == /\ written' = [c \in Captures |-> IF c \in cs THEN 0 ELSE written[c]]
              /\ truncated' = truncated \ cs

(* discard of some captures and publish of others; a file that another     *)
(* process has removed meanwhile is registered all the same.               *)
Dispose(discarded, published) ==
    /\ files' = files \ discarded
    /\ items' = items \cup published
    /\ phase' \in IF DOMAIN left = {} /\ published # {}
                  THEN 0..(TicksPerSecond - 1) ELSE {phase}
    /\ left' = [c \in DOMAIN left \cup published |->
                   IF c \in published THEN ArtifactTTL ELSE left[c]]

----------------------------------------------------------------------------
(* ServeHTTP for a genuine link, in the steps between which others run.    *)

(* Now is after the whole second the link names.                           *)
LinkExpired(c) == (phase + left[c]) \div TicksPerSecond < 0

CheckLink == /\ download.step = "none"
             /\ \E c \in DOMAIN left :
                   download' = [step |-> IF LinkExpired(c) THEN "expired"
                                                           ELSE "valid",
                                of |-> {c}]
             /\ UNCHANGED <<files, fds, written, truncated, items, left, phase>>

LookUpItem == /\ download.step = "valid"
              /\ download' = [download EXCEPT !.step =
                    IF download.of \subseteq items THEN "found" ELSE "missing"]
              /\ UNCHANGED <<files, fds, written, truncated, items, left, phase>>

OpenFile == /\ download.step = "found"
            /\ download' = [download EXCEPT !.step =
                  IF download.of \subseteq files THEN "served" ELSE "missing"]
            /\ UNCHANGED <<files, fds, written, truncated, items, left, phase>>

DownloadEnds == /\ download.step \in {"expired", "missing", "served"}
                /\ download' = NoDownload
                /\ UNCHANGED <<files, fds, written, truncated, items, left, phase>>

----------------------------------------------------------------------------

Expired(c) == left[c] < 0

(* Fault: an artifact is removed at the instant it expires.                *)
CleanupTooEarly ==
    LET old == {c \in items : left[c] <= 0}
    IN  /\ old # {}
        /\ files' = files \ old
        /\ items' = items \ old
        /\ UNCHANGED <<fds, written, truncated, left, phase, download>>

(* Fault: artifacts are forgotten, but their files stay.                   *)
CleanupMapOnly ==
    /\ \E c \in items : Expired(c)
    /\ items' = {c \in items : ~ Expired(c)}
    /\ UNCHANGED <<files, fds, written, truncated, left, phase, download>>

(* One round of cleanupLoop, which holds the mutex throughout.             *)
Cleanup ==
    LET old == {c \in items : Expired(c)}
    IN  /\ old # {}
        /\ files' = files \ old
        /\ items' = items \ old
        /\ UNCHANGED <<fds, written, truncated, left, phase, download>>

(* newArtifactStore in a new process; links of the old one still exist.    *)
NewStore == /\ files' = {} /\ fds' = {} /\ items' = {}
            /\ UNCHANGED <<written, truncated, left, phase, download>>

(* A tick.  Long after an expiry its distance no longer matters.           *)
PassTime == /\ phase' = IF DOMAIN left = {} THEN phase
                        ELSE (phase + 1) % TicksPerSecond
            /\ left' = [c \in DOMAIN left |->
                  IF left[c] > - TicksPerSecond THEN left[c] - 1 ELSE left[c]]
            /\ UNCHANGED <<files, fds, written, truncated, items, download>>

StoreTypeOK == /\ files \subseteq Captures /\ fds \subseteq Captures
               /\ written \in [Captures -> 0..MaxBytes]
               /\ truncated \subseteq Captures
               /\ items \subseteq DOMAIN left /\ DOMAIN left \subseteq Captures
               /\ phase \in 0..(TicksPerSecond - 1)
               /\ download.of \subseteq DOMAIN left
=============================================================================
