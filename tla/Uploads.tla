------------------------------ MODULE Uploads ------------------------------
(***************************************************************************)
(* Input files (src/internal/agent/uploads.go): the directory              *)
(* uploads/<request id>, the names given to the files of a batch, and one  *)
(* goroutine per file that downloads it.  Executor drives this module.     *)
(*                                                                         *)
(* A name is a sequence: <<"a">> for the file name a, and <<"2", "a">> for *)
(* 2-a, whether the client named it so or a number was put in front of it. *)
(* Names are as safeFilename returns them.                                 *)
(***************************************************************************)
EXTENDS Integers, Sequences

CONSTANTS Batches,       \* requests with input files
          Ids,           \* request identifiers
          MaxFiles,      \* 10 in the code
          DirectoryMayFail    \* whether os.MkdirAll may fail

Numeral == <<"1", "2", "3", "4", "5", "6", "7", "8", "9", "10">>

ASSUME UploadAssumptions == /\ MaxFiles \in DOMAIN Numeral
                            /\ DirectoryMayFail \in BOOLEAN

VARIABLES folders,       \* identifiers whose upload directory exists
          inputs,        \* input files on disk: [id, name, by], where `by` is
                         \* the batch and index of the transfer that made it
          transfer       \* per batch and index, the state of the download

uploadVars == <<folders, inputs, transfer>>

UploadInit == /\ folders = {}
              /\ inputs = {}
              /\ transfer = [b \in Batches |-> << >>]

(* The names of a batch: one that is taken already gets its number in      *)
(* front, and is then not compared again.                                  *)
Names(refs) ==
    LET name[i \in 1..Len(refs)] ==
            IF \E j \in 1..(i - 1) : name[j] = refs[i].name
            THEN <<Numeral[i]>> \o refs[i].name
            ELSE refs[i].name
    IN  name

(* At most ten references, each expanded to an object with a link.         *)
BatchAccepted(refs) == /\ Len(refs) <= MaxFiles
                       /\ \A i \in DOMAIN refs : refs[i].expanded

RemoveFolder(id) == /\ folders' = folders \ {id}
                    /\ inputs' = {f \in inputs : f.id # id}

(* The directory is made and the references are in order.                  *)
StartTransfers(b, id, refs) ==
    /\ BatchAccepted(refs)
    /\ folders' = folders \cup {id}
    /\ transfer' = [transfer EXCEPT ![b] = [i \in DOMAIN refs |-> "asked"]]
    /\ UNCHANGED inputs

(* A reference is found to be bad after the directory was made.            *)
RejectReference(id, refs) ==
    /\ Len(refs) <= MaxFiles
    /\ ~ BatchAccepted(refs)
    /\ RemoveFolder(id)
    /\ UNCHANGED transfer

(* There are too many files, or the directory cannot be made.              *)
RejectBatch(refs) == /\ Len(refs) > MaxFiles \/ DirectoryMayFail
                     /\ UNCHANGED uploadVars

----------------------------------------------------------------------------
(* downloadOne, for file i of batch b.                                     *)

SetTransfer(b, i, state) == transfer' = [transfer EXCEPT ![b][i] = state]

At(id, name) == {f \in inputs : f.id = id /\ f.name = name}

(* Fault: an existing file is opened, and the two transfers share it.      *)
OpenOrCreate(b, i, id, name) ==
    /\ transfer[b][i] = "asked"
    /\ id \in folders
    /\ SetTransfer(b, i, "copying")
    /\ inputs' = (inputs \ At(id, name)) \cup
                     {[id |-> id, name |-> name, by |-> <<b, i>>]}
    /\ UNCHANGED folders

(* The answer is acceptable and the file is created, with O_EXCL.          *)
CreateFile(b, i, id, name) ==
    /\ transfer[b][i] = "asked"
    /\ id \in folders
    /\ At(id, name) = {}
    /\ SetTransfer(b, i, "copying")
    /\ inputs' = inputs \cup {[id |-> id, name |-> name, by |-> <<b, i>>]}
    /\ UNCHANGED folders

(* The link, the transfer, the answer or the creation of the file fails.   *)
RequestFails(b, i) ==
    /\ transfer[b][i] = "asked"
    /\ SetTransfer(b, i, "failed")
    /\ UNCHANGED <<folders, inputs>>

CopyEnds(b, i) ==
    /\ transfer[b][i] = "copying"
    /\ SetTransfer(b, i, "kept")
    /\ UNCHANGED <<folders, inputs>>

(* The copy fails, times out or is too long: the path is removed.          *)
CopyFails(b, i, id, name) ==
    /\ transfer[b][i] = "copying"
    /\ SetTransfer(b, i, "failed")
    /\ inputs' = inputs \ At(id, name)
    /\ UNCHANGED folders

----------------------------------------------------------------------------

States(b) == {transfer[b][i] : i \in DOMAIN transfer[b]}

BatchSucceeds(b) == /\ States(b) \subseteq {"kept"}
                    /\ UNCHANGED uploadVars

(* Fault: the first error ends the batch, without waiting for the others.  *)
BatchFailsAtOnce(b, id) ==
    /\ "failed" \in States(b)
    /\ RemoveFolder(id)
    /\ UNCHANGED transfer

(* wg.Wait has returned, and a transfer failed: nothing is left.           *)
BatchFails(b, id) ==
    /\ States(b) \subseteq {"kept", "failed"}
    /\ "failed" \in States(b)
    /\ RemoveFolder(id)
    /\ UNCHANGED transfer

UploadTypeOK ==
    /\ folders \subseteq Ids
    /\ \A f \in inputs : f.id \in folders
    /\ \A b \in Batches : States(b) \subseteq {"asked", "copying", "kept", "failed"}
=============================================================================
