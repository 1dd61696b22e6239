------------------------------- MODULE Blobs -------------------------------
(***************************************************************************)
(* Encrypted blobs of one account: the files of the local store, the rows  *)
(* that refer to them and the deletion queue that ties the two together.   *)
(* Attachments and backups are stored first and recorded afterwards; the   *)
(* history upload of a device link records an intent first.  Every key is  *)
(* a fresh name, used by one upload.                                       *)
(*                                                                         *)
(* file is the directory as the process sees it, disk what a crash leaves  *)
(* of it for certain: a rename or an unlink is in file at once and on disk *)
(* after the next sync of the directory.                                   *)
(***************************************************************************)
EXTENDS Integers, FiniteSets

CONSTANTS
    Direct,        \* keys of attachment and backup uploads
    Histories,     \* keys of history uploads of one device link
    Undeletable,   \* keys whose file may turn out impossible to remove
    AccountBlobs,  \* limits.AccountBlobs
    Batch,         \* the limit of PendingBlobDeletions
    MaxAttempts,   \* bound: attempts are told apart up to this many
    MaxFaults,     \* bound: steps in which system calls or statements fail
    MaxCrashes     \* bound: crashes

ASSUME BlobsConstants ==
    /\ {AccountBlobs, Batch, MaxAttempts} \subseteq Nat \ {0}
    /\ {MaxFaults, MaxCrashes} \subseteq Nat
    /\ Direct \cap Histories = {}

VARIABLES
    phase,         \* how far the upload of a key has come, in memory
    tmp,           \* keys with a .tmp file
    file, disk,    \* keys with a file: in the directory, and for certain
    row,           \* what the database says of a key
    lapsed,        \* intents past their expires_at
    link,          \* the device link the history belongs to
    gone,          \* whether the account was deleted
    queue,         \* keys of blob_deletion_queue
    older,         \* which of them has the earlier created_at
    attempts,      \* blob_deletion_queue.attempts
    jobs,          \* deletions in progress, in memory
    stuck,         \* keys whose file the system refuses to remove, for good
    faults, crashes,
    untraced       \* history: files a crash or a second fault let slip

files == <<tmp, file, disk>>
tables == <<row, lapsed, link, gone, queue, older, attempts>>
bounds == <<faults, crashes, stuck>>
vars == <<phase, files, tables, jobs, bounds, untraced>>

-----------------------------------------------------------------------------
Keys == Direct \cup Histories

Row == {"none", "upload", "linked", "backup", "intent", "transfer"}

Phase == {"new", "putting", "renamed", "stored", "member", "cleanup", "requeue", "abort", "done"}

Job == [key : Keys, by : {"sweep", "request"}, at : {"delete", "complete", "record"}]

InFlight(k) == phase[k] \notin {"new", "done"}

Init ==
    /\ phase = [k \in Keys |-> "new"]
    /\ tmp = {} /\ file = {} /\ disk = {}
    /\ row = [k \in Keys |-> "none"] /\ lapsed = {} /\ link = "open" /\ gone = FALSE
    /\ queue = {} /\ older = {} /\ attempts = [k \in Keys |-> 0] /\ jobs = {}
    /\ stuck \in SUBSET Undeletable
    /\ faults = 0 /\ crashes = 0 /\ untraced = {}

Fault == faults < MaxFaults /\ faults' = faults + 1 /\ UNCHANGED <<crashes, stuck>>

Goto(k, p) == phase' = [phase EXCEPT ![k] = p]

(* enqueueBlobDeletion for every key of S, ON CONFLICT DO NOTHING.  The order *)
(* of keys queued together, by their random names, is left open.             *)
Enqueue(S) ==
    /\ queue' = queue \cup S
    /\ older' = older \cup (queue \X (S \ queue))

(* The rows of S go and their blobs are queued in the same transaction. *)
Retire(S) ==
    /\ row' = [k \in Keys |-> IF k \in S THEN "none" ELSE row[k]]
    /\ lapsed' = lapsed \ S
    /\ Enqueue(S)
    /\ UNCHANGED attempts

BlobCount == Cardinality({k \in Keys : row[k] # "none"})

(* mutant: intents are not counted *)
QuotaWithoutIntents(n) == BlobCount - Cardinality({k \in Keys : row[k] = "intent"}) + n <= AccountBlobs

WithinQuotaFor(n) == BlobCount + n <= AccountBlobs

-----------------------------------------------------------------------------
(* putEncryptedBlob.                                                       *)

(* Direct uploads start the file; nothing in the database knows it. *)
PutEncryptedBlob(k) ==
    /\ k \in Direct /\ phase[k] = "new" /\ ~gone
    /\ Goto(k, "putting") /\ tmp' = tmp \cup {k}
    /\ UNCHANGED <<file, disk, tables, jobs, bounds, untraced>>

Intents == {k \in Keys : row[k] = "intent"}

(* PrepareEncryptedBlob marks the key active, RegisterHistoryUpload commits *)
(* the intent, and only then the writer opens the file.                     *)
RegisterHistoryUpload(k) ==
    /\ k \in Histories /\ phase[k] = "new" /\ ~gone
    /\ link = "open" /\ Intents \subseteq lapsed
    /\ WithinQuotaFor(1 - Cardinality(Intents))
    /\ row' = [j \in Keys |-> IF j = k THEN "intent" ELSE IF j \in Intents THEN "none" ELSE row[j]]
    /\ lapsed' = {} /\ Enqueue(Intents)
    /\ Goto(k, "putting") /\ tmp' = tmp \cup {k}
    /\ UNCHANGED <<file, disk, link, gone, attempts, jobs, bounds, untraced>>

AfterPutError(k) == IF k \in Histories THEN "abort" ELSE "done"

Rename(k) ==
    /\ phase[k] = "putting" /\ k \in tmp
    /\ Goto(k, "renamed")
    /\ tmp' = tmp \ {k} /\ file' = file \cup {k}
    /\ UNCHANGED <<disk, tables, jobs, bounds, untraced>>

(* The body ends early, a write fails, or a sweep took the .tmp file; its  *)
(* removal is best effort.                                                 *)
PutFails(k) ==
    /\ phase[k] = "putting"
    /\ Goto(k, AfterPutError(k))
    /\ \/ tmp' = tmp \ {k} /\ UNCHANGED bounds
       \/ Fault /\ UNCHANGED tmp
    /\ UNCHANGED <<file, disk, tables, jobs, untraced>>

(* mutant: the name is reported stored before the directory is flushed *)
NoFlush(k) ==
    /\ phase[k] = "renamed"
    /\ Goto(k, "stored")
    /\ UNCHANGED <<files, tables, jobs, bounds, untraced>>

SyncDirectory(k) ==
    /\ phase[k] = "renamed"
    /\ Goto(k, "stored") /\ disk' = file
    /\ UNCHANGED <<tmp, file, tables, jobs, bounds, untraced>>

(* The flush fails: the file is removed and the directory flushed again,    *)
(* whatever comes of it.  The name can stay behind, and uploadAttachment    *)
(* and uploadBackup do not look at it again.                                *)
SyncFails(k) ==
    /\ phase[k] = "renamed"
    /\ Goto(k, AfterPutError(k))
    /\ Fault
    /\ file' \in {file, file \ {k}} /\ disk' \in {disk, file, file'}
    /\ untraced' = untraced \cup ({k} \cap Direct \cap (file' \cup disk'))
    /\ UNCHANGED <<tmp, tables, jobs>>

-----------------------------------------------------------------------------
(* Recording the upload.                                                   *)

(* CreateAttachmentEnvelope reads the membership before its transaction.    *)
(* Until here an attachment and a backup are alike: which of the two a key  *)
(* is for shows now.                                                        *)
IsConversationMember(k) ==
    /\ k \in Direct /\ phase[k] = "stored"
    /\ Goto(k, IF gone THEN "cleanup" ELSE "member")
    /\ UNCHANGED <<files, tables, jobs, bounds, untraced>>

(* The transaction counts and inserts, or fails: the quota, a backup whose  *)
(* counter is not the next one, the database.                               *)
CreateEnvelope(k, from, kind) ==
    /\ k \in Direct /\ phase[k] = from
    /\ \/ WithinQuotaFor(1) /\ row' = [row EXCEPT ![k] = kind] /\ Goto(k, "done")
       \/ UNCHANGED row /\ Goto(k, "cleanup")
    /\ UNCHANGED <<files, lapsed, link, gone, queue, older, attempts, jobs, bounds, untraced>>

CreateAttachmentEnvelope(k) == CreateEnvelope(k, "member", "upload")

CreateBackupBlob(k) == CreateEnvelope(k, "stored", "backup")

(* Link, window, intent: any of them may have gone during the upload, and   *)
(* the statement may fail.  The intent is kept after an error.              *)
FinalizeHistoryUpload(k) ==
    /\ k \in Histories /\ phase[k] = "stored"
    /\ \/ /\ link = "open" /\ row[k] = "intent" /\ k \notin lapsed
          /\ row' = [row EXCEPT ![k] = "transfer"] /\ link' = "sent" /\ UNCHANGED bounds
       \/ /\ link # "open" \/ row[k] # "intent" \/ k \in lapsed
          /\ UNCHANGED <<row, link, bounds>>
       \/ Fault /\ UNCHANGED <<row, link>>
    /\ Goto(k, "done")
    /\ UNCHANGED <<files, lapsed, gone, queue, older, attempts, jobs, untraced>>

(* The ciphertext is not the one announced. *)
BodyMismatch(k) ==
    /\ k \in Histories /\ phase[k] = "stored"
    /\ Goto(k, "abort")
    /\ UNCHANGED <<files, tables, jobs, bounds, untraced>>

AbortHistoryUpload(k) ==
    /\ phase[k] = "abort"
    /\ Goto(k, "done")
    /\ \/ Retire({k} \cap Intents) /\ UNCHANGED bounds
       \/ Fault /\ UNCHANGED <<row, lapsed, queue, older, attempts>>
    /\ UNCHANGED <<files, link, gone, jobs, untraced>>

-----------------------------------------------------------------------------
(* LocalStore.Delete and its callers.                                      *)

(* mutant: Delete does not look at active *)
NeverBusy(k) == FALSE

(* PrepareEncryptedBlob to Close: the whole history handler. *)
Busy(k) == k \in Histories /\ InFlight(k)

UnlinkAndFlush(k) == file' = file \ {k} /\ disk' = file \ {k}

DeleteSucceeds(k) ==
    /\ ~Busy(k) /\ k \notin stuck \cap file
    /\ UnlinkAndFlush(k)
    /\ UNCHANGED <<tmp, bounds>>

DeleteFails(k) ==
    \/ (Busy(k) \/ k \in stuck \cap file) /\ UNCHANGED <<files, bounds>>
    \/ ~Busy(k) /\ Fault /\ UNCHANGED files
    \/ /\ ~Busy(k) /\ Fault /\ k \notin stuck
       /\ file' = file \ {k} /\ disk' \in {disk, file'} /\ UNCHANGED tmp

CleanupUncommittedBlob(k) ==
    /\ phase[k] = "cleanup"
    /\ \/ DeleteSucceeds(k) /\ Goto(k, "done")
       \/ DeleteFails(k) /\ Goto(k, "requeue")
    /\ UNCHANGED <<tables, jobs, untraced>>

QueueBlobDeletion(k) ==
    /\ phase[k] = "requeue"
    /\ Goto(k, "done")
    /\ \/ Enqueue({k}) /\ UNCHANGED <<bounds, untraced>>
       \/ Fault /\ untraced' = untraced \cup {k} /\ UNCHANGED <<queue, older>>
    /\ UNCHANGED <<files, row, lapsed, link, gone, attempts, jobs>>

DeleteBlob(j) ==
    /\ j.at = "delete"
    /\ \/ DeleteSucceeds(j.key) /\ jobs' = (jobs \ {j}) \cup {[j EXCEPT !.at = "complete"]}
       \/ DeleteFails(j.key) /\ jobs' = (jobs \ {j}) \cup {[j EXCEPT !.at = "record"]}
    /\ UNCHANGED <<phase, tables, untraced>>

CompleteBlobDeletion(j) ==
    /\ j.at = "complete"
    /\ jobs' = jobs \ {j}
    /\ \/ /\ queue' = queue \ {j.key}
          /\ older' = {p \in older : j.key \notin {p[1], p[2]}}
          /\ attempts' = [attempts EXCEPT ![j.key] = 0]
          /\ UNCHANGED bounds
       \/ Fault /\ UNCHANGED <<queue, older, attempts>>
    /\ UNCHANGED <<phase, files, row, lapsed, link, gone, untraced>>

RecordBlobDeletionFailure(j) ==
    /\ j.at = "record"
    /\ jobs' = jobs \ {j}
    /\ \/ /\ attempts' = IF j.key \in queue /\ attempts[j.key] < MaxAttempts
                         THEN [attempts EXCEPT ![j.key] = @ + 1] ELSE attempts
          /\ UNCHANGED bounds
       \/ Fault /\ UNCHANGED attempts
    /\ UNCHANGED <<phase, files, row, lapsed, link, gone, queue, older, untraced>>

-----------------------------------------------------------------------------
(* The sweeper.                                                            *)

(* mutant: the oldest first, however often it failed *)
OldestFirst(k, j) == <<k, j>> \in older

(* ORDER BY attempts, created_at.  The order of keys that failed MaxAttempts *)
(* times or more is left open: each failure puts one behind the other.       *)
Ahead(k, j) ==
    \/ attempts[k] < attempts[j]
    \/ attempts[k] = attempts[j] /\ attempts[k] < MaxAttempts /\ <<k, j>> \in older

Sweeping == {j \in jobs : j.by = "sweep"}

PendingBlobDeletions(B) ==
    /\ Sweeping = {} /\ queue # {}
    /\ Cardinality(B) = IF Cardinality(queue) < Batch THEN Cardinality(queue) ELSE Batch
    /\ \A k \in B, j \in queue \ B : ~Ahead(j, k)
    /\ jobs' = jobs \cup {[key |-> k, by |-> "sweep", at |-> "delete"] : k \in B}
    /\ UNCHANGED <<phase, files, tables, bounds, untraced>>

(* reconcileBlobDeletions takes one key of its batch after another. *)
SweeperStep(j) ==
    /\ j.by = "sweep"
    /\ j.at = "delete" => \A i \in Sweeping : i.at = "delete"
    /\ DeleteBlob(j) \/ CompleteBlobDeletion(j) \/ RecordBlobDeletionFailure(j)

(* The time budget is spent: the rest stays queued. *)
BudgetSpent ==
    /\ Sweeping # {} /\ \A j \in Sweeping : j.at = "delete"
    /\ jobs' = jobs \ Sweeping
    /\ UNCHANGED <<phase, files, tables, bounds, untraced>>

(* A .tmp file of an hour ago whose key is not active. *)
CleanupTemporaryFiles(k) ==
    /\ k \in tmp /\ ~Busy(k)
    /\ tmp' = tmp \ {k}
    /\ UNCHANGED <<phase, file, disk, tables, jobs, bounds, untraced>>

(* Expired messages' attachments, and uploads no message took in a day. *)
PruneExpiredContent(S) ==
    /\ S # {} /\ \A k \in S : row[k] \in {"upload", "linked"}
    /\ Retire(S)
    /\ UNCHANGED <<phase, files, link, gone, jobs, bounds, untraced>>

PruneOperationalRows ==
    LET over == lapsed \cup {k \in Keys : link = "over" /\ row[k] = "transfer"}
    IN  /\ over # {}
        /\ Retire(over)
        /\ UNCHANGED <<phase, files, link, gone, jobs, bounds, untraced>>

-----------------------------------------------------------------------------
(* The account, its messages and its links.                                *)

(* saveMessageEnvelope links an attachment of its sender. *)
SaveMessageEnvelope(k) ==
    /\ row[k] = "upload" /\ ~gone
    /\ row' = [row EXCEPT ![k] = "linked"]
    /\ UNCHANGED <<phase, files, lapsed, link, gone, queue, older, attempts, jobs, bounds, untraced>>

(* The message becomes a tombstone. *)
ReleaseMessageAttachments(k) ==
    /\ row[k] = "linked" /\ Retire({k})
    /\ UNCHANGED <<phase, files, link, gone, jobs, bounds, untraced>>

Request(S) == jobs' = jobs \cup {[key |-> k, by |-> "request", at |-> "delete"] : k \in S}

(* DeleteAttachment and DeleteBackup, and completeQueuedBlobDeletion next. *)
DeleteEnvelope(k) ==
    /\ row[k] \in {"upload", "linked", "backup"} /\ ~gone
    /\ Retire({k}) /\ Request({k})
    /\ UNCHANGED <<phase, files, link, gone, bounds, untraced>>

(* The history blobs are left to the sweeper. *)
DeleteAccountData ==
    LET owned == {k \in Keys : row[k] # "none"}
    IN  /\ ~gone
        /\ gone' = TRUE /\ link' = "over"
        /\ Retire(owned) /\ Request(owned \cap Direct)
        /\ UNCHANGED <<phase, files, bounds, untraced>>

HistoryRows == {k \in Keys : row[k] \in {"intent", "transfer"}}

AcknowledgeHistoryTransfer(k) ==
    /\ link = "sent" /\ row[k] = "transfer"
    /\ Retire({k})
    /\ UNCHANGED <<phase, files, link, gone, jobs, bounds, untraced>>

CancelHistoryTransfer ==
    /\ link \in {"open", "sent"}
    /\ link' = "cancelled" /\ Retire(HistoryRows)
    /\ UNCHANGED <<phase, files, gone, jobs, bounds, untraced>>

(* RevokeDevice deletes the device's links. *)
RetireDeviceLinks ==
    /\ link # "over"
    /\ link' = "over" /\ Retire(HistoryRows)
    /\ UNCHANGED <<phase, files, gone, jobs, bounds, untraced>>

(* An intent lasts ten minutes and no longer than its link. *)
IntentLapses(k) ==
    /\ k \in Intents \ lapsed
    /\ lapsed' = lapsed \cup {k}
    /\ UNCHANGED <<phase, files, row, link, gone, queue, older, attempts, jobs, bounds, untraced>>

LinkExpires ==
    /\ link # "over"
    /\ link' = "over" /\ lapsed' = lapsed \cup Intents
    /\ UNCHANGED <<phase, files, row, gone, queue, older, attempts, jobs, bounds, untraced>>

(* Requests and jobs are lost; what was not flushed may be undone. *)
Crash ==
    /\ crashes < MaxCrashes /\ crashes' = crashes + 1
    /\ \E F \in SUBSET (file \cup disk) :
         /\ file \cap disk \subseteq F
         /\ file' = F /\ disk' = F
         /\ tmp' \in SUBSET ((tmp \cup (file \ disk)) \ F)
    /\ phase' = [k \in Keys |-> IF InFlight(k) THEN "done" ELSE phase[k]]
    /\ jobs' = {}
    /\ untraced' = untraced \cup {k \in Direct : InFlight(k)}
    /\ UNCHANGED <<tables, faults, stuck>>

-----------------------------------------------------------------------------
StoreBlob(k) == Rename(k) \/ PutFails(k) \/ SyncDirectory(k) \/ SyncFails(k)

uploadAttachment(k) == IsConversationMember(k) \/ CreateAttachmentEnvelope(k)

uploadBackup(k) == CreateBackupBlob(k)

uploadHistoryTransfer(k) == FinalizeHistoryUpload(k) \/ BodyMismatch(k) \/ AbortHistoryUpload(k)

Upload(k) ==
    \/ StoreBlob(k) \/ uploadAttachment(k) \/ uploadBackup(k) \/ uploadHistoryTransfer(k)
    \/ CleanupUncommittedBlob(k) \/ QueueBlobDeletion(k)

Handler(j) ==
    /\ j.by = "request"
    /\ DeleteBlob(j) \/ CompleteBlobDeletion(j) \/ RecordBlobDeletionFailure(j)

Next ==
    \/ \E k \in Keys : PutEncryptedBlob(k) \/ RegisterHistoryUpload(k) \/ Upload(k)
    \/ \E j \in jobs : Handler(j) \/ SweeperStep(j)
    \/ \E B \in SUBSET queue : PendingBlobDeletions(B)
    \/ BudgetSpent \/ PruneOperationalRows
    \/ \E k \in Keys : CleanupTemporaryFiles(k)
    \/ \E S \in SUBSET Direct : PruneExpiredContent(S)
    \/ \E k \in Keys : SaveMessageEnvelope(k) \/ ReleaseMessageAttachments(k)
                       \/ DeleteEnvelope(k) \/ AcknowledgeHistoryTransfer(k)
    \/ DeleteAccountData \/ CancelHistoryTransfer \/ RetireDeviceLinks
    \/ \E k \in Keys : IntentLapses(k)
    \/ LinkExpires \/ Crash

Spec == Init /\ [][Next]_vars

(* Requests end, intents lapse, the sweeper runs again and again and gets   *)
(* to the first key of its batch.  Keys that failed often take turns: that  *)
(* fairness replaces the attempts beyond MaxAttempts.                       *)
FairSpec ==
    /\ Spec
    /\ WF_vars(\E k \in Keys : Upload(k))
    /\ WF_vars(\E j \in jobs : Handler(j))
    /\ WF_vars(\E k \in Keys : IntentLapses(k))
    /\ WF_vars(PruneOperationalRows)
    /\ \A k \in Keys :
         /\ SF_vars(\E B \in SUBSET queue : k \in B /\ PendingBlobDeletions(B))
         /\ SF_vars(\E j \in jobs : j.key = k /\ SweeperStep(j))

-----------------------------------------------------------------------------
(* Properties.                                                             *)

(* The directory, the tables and the work in memory have their types.       *)
(* Only an intent lapses.                                                   *)
TypeOK ==
    /\ phase \in [Keys -> Phase] /\ row \in [Keys -> Row]
    /\ tmp \subseteq Keys /\ file \subseteq Keys /\ disk \subseteq Keys
    /\ lapsed \subseteq Intents /\ link \in {"open", "sent", "cancelled", "over"}
    /\ gone \in BOOLEAN /\ jobs \subseteq Job /\ untraced \subseteq Direct
    /\ queue \subseteq Keys /\ older \subseteq queue \X queue
    /\ attempts \in [Keys -> 0..MaxAttempts] /\ stuck \subseteq Undeletable
    /\ faults \in 0..MaxFaults /\ crashes \in 0..MaxCrashes

(* What the database offers for download is on disk, and stays there over   *)
(* a crash: an attachment, a backup or a history transfer is recorded only  *)
(* after its name was flushed, and no deletion runs ahead of its row.       *)
RecordedIsStored ==
    \A k \in Keys : row[k] \notin {"none", "intent"} => k \in file \cap disk

(* No file is forgotten: a file, and a name a crash may bring back, belongs *)
(* to a row, to the deletion queue or to a request in progress.  Only an    *)
(* attachment or backup upload can slip, by a crash or a second failure;    *)
(* a history upload never does.                                             *)
NoForgottenFile ==
    \A k \in file \cup disk :
        \/ row[k] # "none" \/ k \in queue
        \/ k \in Direct /\ (InFlight(k) \/ k \in untraced)

(* The rows and the intents of an account stay within AccountBlobs, however *)
(* uploads overlap between the count and the insertion.                     *)
WithinQuota == BlobCount <= AccountBlobs

(* Every blob that is queued and every intent goes in the end, also behind  *)
(* a key whose deletion fails for ever, after a crash and after a failure   *)
(* to record what happened.                                                 *)
LeftoversGo ==
    \A k \in Keys :
        /\ k \in queue \ stuck ~> k \notin queue \cup file
        /\ row[k] = "intent" ~> row[k] # "intent"

=============================================================================
