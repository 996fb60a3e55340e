---------------------------- MODULE SessionStore ----------------------------
(***************************************************************************)
(* The session store (src/internal/agent/session.go): the directory each   *)
(* session is in, in memory and in sessions.json, and one lock per         *)
(* session.                                                                *)
(*                                                                         *)
(* sessionStore.mu guards the two maps.  get and the look-up of a lock are *)
(* one critical section each; set keeps mu over the memory update, the     *)
(* write of sessions.json.tmp and the rename, which are steps of their own *)
(* here because each of the file operations can fail and the process can   *)
(* stop between them.                                                      *)
(*                                                                         *)
(* Operators and actions take the actor p that calls them; CommandServer   *)
(* supplies the calls.                                                     *)
(***************************************************************************)
EXTENDS Naturals, FiniteSets

CONSTANTS SessionKeys,   \* digests sessionKey returns for a known session
          NoKey,         \* the empty key of a request that names no session
          Dirs,          \* directories, the workspace root among them
          Fallback,      \* cfg.WorkspaceRoot
          NoDir,         \* the empty string
          Nobody,        \* not a process: the lock is free
          Torn           \* the contents of a file whose write failed

ASSUME SessionAssumptions == /\ NoKey \notin SessionKeys
                             /\ Fallback \in Dirs
                             /\ NoDir \notin Dirs
                             /\ Torn \notin [SessionKeys -> Dirs \cup {NoDir}]

VARIABLES dirs,          \* key -> directory, NoDir when the map has no entry
          locks,         \* key -> holder of the session's mutex
          mu,            \* holder of sessionStore.mu
          tmpFile,       \* contents of sessions.json.tmp
          diskFile,      \* contents of sessions.json
          present,       \* the directories that exist in the file system
          behind         \* history: the last write of the map to disk failed

sessionVars == <<dirs, locks, mu, tmpFile, diskFile, present, behind>>

DirMaps == [SessionKeys -> Dirs \cup {NoDir}]

EmptyDirs == [k \in SessionKeys |-> NoDir]

----------------------------------------------------------------------------

SessionInit == /\ dirs = EmptyDirs
               /\ locks = [k \in SessionKeys |-> Nobody]
               /\ mu = Nobody
               /\ tmpFile = EmptyDirs
               /\ diskFile = EmptyDirs
               /\ present = Dirs
               /\ behind = FALSE

(* newSessionStore in a new process: no lock is held, and the map is what  *)
(* sessions.json holds.  A torn file would make the start fail.            *)
LoadSessions == /\ diskFile # Torn
                /\ dirs' = diskFile
                /\ locks' = [k \in SessionKeys |-> Nobody]
                /\ mu' = Nobody
                /\ behind' = FALSE
                /\ UNCHANGED <<tmpFile, diskFile, present>>

(* lock, first part: the mutex of the key is found or made under mu, and   *)
(* mu is released before the wait.                                         *)
FindLock == /\ mu = Nobody
            /\ UNCHANGED sessionVars

(* Fault: lock makes a new mutex for every call.                           *)
LockFreshMutex(p, key) == /\ locks' = [locks EXCEPT ![key] = p]
                          /\ UNCHANGED <<dirs, mu, tmpFile, diskFile, present, behind>>

(* lock, second part: lock.Lock().                                         *)
LockSession(p, key) == /\ locks[key] = Nobody
                       /\ locks' = [locks EXCEPT ![key] = p]
                       /\ UNCHANGED <<dirs, mu, tmpFile, diskFile, present, behind>>

(* The function lock returns: a no-op for the empty key.                   *)
UnlockSession(p, key) ==
    /\ locks' = [k \in SessionKeys |-> IF k = key THEN Nobody ELSE locks[k]]
    /\ UNCHANGED <<dirs, mu, tmpFile, diskFile, present, behind>>

(* get: the session's directory if there is one and it still exists.  It   *)
(* waits for mu unless the key is empty.                                   *)
CanGet(key) == key # NoKey => mu = Nobody

SessionDir(key) ==
    IF key # NoKey /\ dirs[key] \in present THEN dirs[key] ELSE Fallback

(* set: nothing to do for the empty key; otherwise mu is taken, the map is *)
(* updated, and the whole map goes to the temporary file and over the old. *)
SetNothing(key) == /\ key = NoKey
                   /\ UNCHANGED sessionVars

(* Fault: one directory for all sessions.                                  *)
SetMemoryShared(p, key, dir) == /\ key # NoKey
                                /\ mu = Nobody
                                /\ mu' = p
                                /\ dirs' = [k \in SessionKeys |-> dir]
                                /\ UNCHANGED <<locks, tmpFile, diskFile, present, behind>>

SetMemory(p, key, dir) == /\ key # NoKey
                          /\ mu = Nobody
                          /\ mu' = p
                          /\ dirs' = [dirs EXCEPT ![key] = dir]
                          /\ UNCHANGED <<locks, tmpFile, diskFile, present, behind>>

(* Fault: mu is released once the file is written, before the rename.      *)
WriteTmpAndUnlock == /\ tmpFile' = dirs
                     /\ mu' = Nobody
                     /\ UNCHANGED <<dirs, locks, diskFile, present, behind>>

WriteTmp == /\ tmpFile' = dirs
            /\ UNCHANGED <<dirs, locks, mu, diskFile, present, behind>>

(* Fault: sessions.json is written in place.                               *)
WriteInPlaceFails == /\ diskFile' = Torn
                     /\ mu' = Nobody
                     /\ behind' = TRUE
                     /\ UNCHANGED <<dirs, locks, tmpFile, present>>

(* Fault: the return after a failed write leaves mu locked.                *)
WriteTmpFailsLocked == /\ tmpFile' = Torn
                       /\ behind' = TRUE
                       /\ UNCHANGED <<dirs, locks, mu, diskFile, present>>

WriteTmpFails == /\ tmpFile' = Torn
                 /\ mu' = Nobody
                 /\ behind' = TRUE
                 /\ UNCHANGED <<dirs, locks, diskFile, present>>

(* The rename, and the chmod after it, whose failure set reports although  *)
(* the new file is in place.                                               *)
RenameTmp == /\ diskFile' = tmpFile
             /\ mu' = Nobody
             /\ behind' = FALSE
             /\ UNCHANGED <<dirs, locks, tmpFile, present>>

RenameFails == /\ mu' = Nobody
               /\ behind' = TRUE
               /\ UNCHANGED <<dirs, locks, tmpFile, diskFile, present>>

----------------------------------------------------------------------------

SessionTypeOK(Processes) ==
    /\ dirs \in DirMaps
    /\ locks \in [SessionKeys -> Processes \cup {Nobody}]
    /\ mu \in Processes \cup {Nobody}
    /\ tmpFile \in DirMaps \cup {Torn}
    /\ diskFile \in DirMaps \cup {Torn}
    /\ present \in SUBSET Dirs
    /\ behind \in BOOLEAN

(* sessions.json is never a partly written map, whatever fails: set writes *)
(* beside it and renames only a complete file (session.go:88-94).          *)
DiskNeverTorn == diskFile # Torn

(* Whenever no set is under way and the last one succeeded, sessions.json  *)
(* holds exactly the map in memory: a later success also repairs what an   *)
(* earlier failure left behind, because the whole map is written each time *)
(* (session.go:83-94).  A restart then loses no session's directory        *)
(* (docs/02-architecture.md:93).                                           *)
DiskCurrent == mu = Nobody /\ ~ behind => diskFile = dirs
=============================================================================
