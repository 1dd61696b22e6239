------------------------------ MODULE Backups ------------------------------
(***************************************************************************)
(* Instance backups taken beside a running server: a snapshot of the       *)
(* database, the blob files it references copied one by one, the directory *)
(* published by a rename, and, in a scheduled run, a restore drill, a copy *)
(* off the host, pruning in both places and the recorded status.  The      *)
(* server stores and deletes blobs meanwhile; runs may overlap, fail at    *)
(* any step and crash.                                                     *)
(*                                                                         *)
(* A run is a scheduled one or the backup command with its default         *)
(* destination, which publishes under the same kind of name in the same    *)
(* directory and ends there: which of the two it is shows only then.       *)
(* A backup is named by its run: later runs have later names.  Staging     *)
(* directories are private to a run and kept in its state.  Removing a     *)
(* directory tree takes time: its contents go before it does.  An off-host *)
(* directory is configured.                                                *)
(***************************************************************************)
EXTENDS Integers, FiniteSets

CONSTANTS
    BackupRuns, \* runs: positive numbers, in the order of their names
    BlobKeys,   \* storage keys
    KeepCount,  \* PRIVATE_MESSENGER_BACKUP_KEEP
    Beside      \* bound: the runs that may start while another is under way

\* scheduled_backup.go:47-50: KEEP is at least 1.
ASSUME BackupsAssumption ==
    /\ \E n \in BackupRuns \cup {0} : n \in Nat /\ BackupRuns \subseteq 1..n
    /\ KeepCount \in Nat \ {0}

VARIABLES
    referenced, \* storage keys the live database references
    onDisk,     \* blob files in the live storage directory
    dirs,       \* "local" and "offsite" -> name -> published backup, or NoDir
    runs,       \* run -> its state
    status,     \* backup-status.json
    overlapped  \* two runs have been under way at a time

backupVars == <<referenced, onDisk, dirs, runs, status, overlapped>>

\* A directory is "published", then "removing" with its manifest or "bare"
\* without it, then gone.  Its drill, kept for the properties, is the one of its
\* own run: "none", "passed", "failed", or "left" when the directory that failed
\* could not be removed.
NoDir == [state |-> "none", db |-> {}, blobs |-> {}, drill |-> "none"]
Idle == [at |-> "idle"]
UnderWay == {r \in BackupRuns : runs[r].at \notin {"idle", "done"}}
Published(place) == {n \in BackupRuns : dirs[place][n].state = "published"}
WholeDir(dir) == dir.state = "published" /\ dir.blobs = dir.db

BackupsInit ==
    /\ referenced = {} /\ onDisk = {}
    /\ dirs = [place \in {"local", "offsite"} |-> [n \in BackupRuns |-> NoDir]]
    /\ runs = [r \in BackupRuns |-> Idle]
    /\ status = [failures |-> 0, step |-> "", drill |-> FALSE]
    /\ overlapped = FALSE

-----------------------------------------------------------------------------
(* The running server.                                                     *)

ServerStores(k) ==
    /\ k \notin onDisk
    /\ onDisk' = onDisk \cup {k} /\ referenced' = referenced \cup {k}
    /\ UNCHANGED <<dirs, runs, status, overlapped>>

\* The row is deleted first, its file later.
ServerDeletes(k) ==
    /\ \/ k \in referenced /\ referenced' = referenced \ {k} /\ UNCHANGED onDisk
       \/ k \in onDisk \ referenced /\ onDisk' = onDisk \ {k} /\ UNCHANGED referenced
    /\ UNCHANGED <<dirs, runs, status, overlapped>>

-----------------------------------------------------------------------------
(* Recorders, each one read-modify-write under the status lock, which may  *)
(* fail before or after the file is replaced.                              *)

Write(new) == status' \in {status, new}
RecordSuccess == Write([status EXCEPT !.failures = 0, !.step = ""])
RecordFailure(step) == Write([status EXCEPT !.failures = @ + 1, !.step = step])
RecordDrill(passed) == Write([status EXCEPT !.drill = passed])

Finish(r) == runs' = [runs EXCEPT ![r] = [at |-> "done"]]

-----------------------------------------------------------------------------
(* backup: stage, copy, publish.                                           *)

\* BackupTo copies the database in one transaction; the keys it references are
\* read from the copy.
Snapshot == [at |-> "copying", db |-> referenced, blobs |-> {}]

StartBackup(r) ==
    /\ runs[r] = Idle /\ \A n \in BackupRuns : n < r => runs[n] # Idle
    /\ UnderWay = {} \/ r \in Beside
    /\ runs' = [runs EXCEPT ![r] = Snapshot]
    /\ overlapped' = (overlapped \/ UnderWay # {})
    /\ UNCHANGED <<referenced, onDisk, dirs, status>>

\* The copy is checked against the reference; a blob that is gone by now
\* fails the run.
CopyBlob(r, k) ==
    /\ runs[r].at = "copying" /\ k \in runs[r].db \ runs[r].blobs
    /\ IF k \in onDisk
       THEN runs' = [runs EXCEPT ![r].blobs = @ \cup {k}] /\ UNCHANGED status
       ELSE Finish(r) /\ RecordFailure("backup")
    /\ UNCHANGED <<referenced, onDisk, dirs, overlapped>>

\* Any failure before the rename: the staging directory goes.  The backup
\* command leaves the status as it is.
BackupFails(r) ==
    /\ runs[r].at = "copying"
    /\ Finish(r) /\ RecordFailure("backup")
    /\ UNCHANGED <<referenced, onDisk, dirs, overlapped>>

NewDir(r, drill) == [state |-> "published", db |-> runs[r].db, blobs |-> runs[r].blobs, drill |-> drill]

\* Published while a blob is still missing.
PublishEarly(r) ==
    /\ runs[r].at = "copying" /\ Cardinality(runs[r].db \ runs[r].blobs) <= 1
    /\ dirs' = [dirs EXCEPT !["local"][r] = NewDir(r, "none")]
    /\ runs' = [runs EXCEPT ![r].at = "published"]
    /\ UNCHANGED <<referenced, onDisk, status, overlapped>>

\* The rename, then: a scheduled run goes on to its drill; syncing the parent
\* fails and the run ends, the directory published all the same; or the run
\* was the backup command, which records nothing.
PublishBackup(r) ==
    /\ runs[r].at = "copying" /\ runs[r].blobs = runs[r].db
    /\ dirs' = [dirs EXCEPT !["local"][r] = NewDir(r, "none")]
    /\ \/ runs' = [runs EXCEPT ![r].at = "published"] /\ UNCHANGED status
       \/ Finish(r) /\ RecordFailure("backup")
       \/ Finish(r) /\ UNCHANGED status
    /\ UNCHANGED <<referenced, onDisk, overlapped>>

-----------------------------------------------------------------------------
(* The rest of scheduledBackup.                                            *)

\* A run that failed after its backup prunes the local directory, then
\* records the step it failed at.
FailAfterBackup(r, step) == runs' = [runs EXCEPT ![r] = [at |-> "prune", place |-> "local", failed |-> step]]

DrillPasses(r) ==
    /\ runs[r].at = "published" /\ WholeDir(dirs["local"][r])
    /\ dirs' = [dirs EXCEPT !["local"][r].drill = "passed"]
    /\ \/ /\ status' = [status EXCEPT !.drill = TRUE]
          /\ runs' = [runs EXCEPT ![r] = [at |-> "offsite", db |-> dirs["local"][r].db, blobs |-> {}]]
       \/ RecordDrill(TRUE) /\ FailAfterBackup(r, "verify")
    /\ UNCHANGED <<referenced, onDisk, overlapped>>

\* The backup that failed its drill is left for pruning to see.
DrillFailureKept(r) ==
    /\ runs[r].at = "published"
    /\ dirs' = [dirs EXCEPT !["local"][r].drill = "failed"]
    /\ RecordDrill(FALSE) /\ FailAfterBackup(r, "verify")
    /\ UNCHANGED <<referenced, onDisk, overlapped>>

\* The backup that failed its drill is removed before anything is pruned, so
\* that it does not count toward keep.
DrillFails(r) ==
    /\ runs[r].at = "published"
    /\ dirs' = [dirs EXCEPT !["local"][r].drill = "failed"]
    /\ runs' = [runs EXCEPT ![r] = [at |-> "discard"]]
    /\ UNCHANGED <<referenced, onDisk, status, overlapped>>

\* RemoveAll: the contents go, with or without the manifest, then the rest.
BeginRemoval(place, n) ==
    /\ dirs[place][n].state = "published"
    /\ \E state \in {"removing", "bare"} :
          dirs' = [dirs EXCEPT ![place][n] = [@ EXCEPT !.state = state, !.blobs = {}]]

EndRemoval(place, n) ==
    /\ dirs[place][n].state # "published"
    /\ dirs' = [dirs EXCEPT ![place][n] = NoDir]

\* The removal begins, ends, or fails before or after it began; the run goes on
\* to prune whether or not it can record the drill.
Discard(r) ==
    /\ runs[r].at = "discard"
    /\ \/ BeginRemoval("local", r) /\ UNCHANGED <<runs, status>>
       \/ /\ \/ EndRemoval("local", r)
             \/ dirs["local"][r].state # "none" /\ dirs' = [dirs EXCEPT !["local"][r].drill = "left"]
          /\ FailAfterBackup(r, "verify")
          /\ RecordDrill(FALSE)
    /\ UNCHANGED <<referenced, onDisk, overlapped>>

\* verify-backup on a backup of the local directory: the result is recorded
\* when it can be, and nothing else.
VerifyBackup(n, passed) ==
    /\ passed => WholeDir(dirs["local"][n])
    /\ RecordDrill(passed)
    /\ UNCHANGED <<referenced, onDisk, dirs, runs, overlapped>>

\* copyBackupOffsite: file by file from the local backup, which another run
\* may be removing.
CopyOffsite(r, k) ==
    /\ runs[r].at = "offsite" /\ k \in runs[r].db \ runs[r].blobs
    /\ k \in dirs["local"][r].blobs
    /\ runs' = [runs EXCEPT ![r].blobs = @ \cup {k}]
    /\ UNCHANGED <<referenced, onDisk, dirs, status, overlapped>>

\* The rename; syncing the parent may still fail, with the copy published.
PublishOffsite(r) ==
    /\ runs[r].at = "offsite" /\ runs[r].blobs = runs[r].db
    /\ dirs' = [dirs EXCEPT !["offsite"][r] = NewDir(r, "passed")]
    /\ \/ runs' = [runs EXCEPT ![r] = [at |-> "prune", place |-> "local", failed |-> ""]]
       \/ FailAfterBackup(r, "offsite")
    /\ UNCHANGED <<referenced, onDisk, status, overlapped>>

\* Any failure before the rename.
OffsiteFails(r) ==
    /\ runs[r].at = "offsite" /\ FailAfterBackup(r, "offsite")
    /\ UNCHANGED <<referenced, onDisk, dirs, status, overlapped>>

-----------------------------------------------------------------------------
(* pruneBackups: the oldest directories with a manifest, beyond KeepCount. *)

Counted(place) == {n \in BackupRuns : dirs[place][n].state \in {"published", "removing"}}
Surplus(place) == {n \in Counted(place) : Cardinality({m \in Counted(place) : m >= n}) > KeepCount}

ListBackups(r) ==
    /\ runs[r].at = "prune"
    /\ runs' = [runs EXCEPT ![r] = [at |-> "pruning", place |-> @.place, failed |-> @.failed,
                                    doomed |-> Surplus(@.place)]]
    /\ UNCHANGED <<referenced, onDisk, dirs, status, overlapped>>

\* RemoveAll of the oldest one listed, begun and finished.
RemoveOldest(r) ==
    /\ runs[r].at = "pruning"
    /\ \E n \in runs[r].doomed :
          /\ \A m \in runs[r].doomed : n <= m
          /\ \/ BeginRemoval(runs[r].place, n) /\ UNCHANGED runs
             \/ EndRemoval(runs[r].place, n) /\ runs' = [runs EXCEPT ![r].doomed = @ \ {n}]
    /\ UNCHANGED <<referenced, onDisk, status, overlapped>>

\* The directory cannot be listed, or a removal fails; a run that was failing
\* keeps its own step.
PruneFails(r) ==
    /\ runs[r].at = "prune" \/ (runs[r].at = "pruning" /\ runs[r].doomed # {})
    /\ Finish(r) /\ RecordFailure(IF runs[r].failed # "" THEN runs[r].failed ELSE "prune")
    /\ UNCHANGED <<referenced, onDisk, dirs, overlapped>>

\* Nothing more to prune: the failure recorded, the next place, or success.
PruneEnds(r) ==
    /\ runs[r].at = "pruning" /\ runs[r].doomed = {}
    /\ \/ runs[r].failed # "" /\ Finish(r) /\ RecordFailure(runs[r].failed)
       \/ /\ runs[r].failed = "" /\ runs[r].place = "local"
          /\ runs' = [runs EXCEPT ![r] = [at |-> "prune", place |-> "offsite", failed |-> ""]]
          /\ UNCHANGED status
       \/ runs[r].failed = "" /\ runs[r].place = "offsite" /\ Finish(r) /\ RecordSuccess
    /\ UNCHANGED <<referenced, onDisk, dirs, overlapped>>

RunCrashes(r) ==
    /\ r \in UnderWay /\ Finish(r)
    /\ dirs' = IF runs[r].at = "discard" THEN [dirs EXCEPT !["local"][r].drill = "left"] ELSE dirs
    /\ UNCHANGED <<referenced, onDisk, status, overlapped>>

BackupsNext ==
    \/ \E k \in BlobKeys : ServerStores(k) \/ ServerDeletes(k)
    \/ \E r \in BackupRuns :
          \/ StartBackup(r) \/ BackupFails(r) \/ PublishBackup(r)
          \/ \E k \in BlobKeys : CopyBlob(r, k) \/ CopyOffsite(r, k)
          \/ DrillPasses(r) \/ DrillFails(r) \/ Discard(r) \/ \E passed \in BOOLEAN : VerifyBackup(r, passed)
          \/ PublishOffsite(r) \/ OffsiteFails(r)
          \/ ListBackups(r) \/ RemoveOldest(r) \/ PruneFails(r) \/ PruneEnds(r) \/ RunCrashes(r)

-----------------------------------------------------------------------------
(* Properties.                                                             *)

\* A published backup holds every blob its database references, wherever it
\* is, until its removal begins: although the server deletes blobs between
\* the snapshot and the copies, and other runs prune the directory an
\* off-host copy is made from (backup, copyBackupOffsite).
PublishedIsWhole ==
    \A place \in {"local", "offsite"} : \A n \in Published(place) : WholeDir(dirs[place][n])

\* The backups of the local directory that passed their drill, and the ones
\* that pruning counts although they did not: left by a sync that failed after
\* the rename, by a backup command, by a crash before the drill, or by a
\* removal after a failed drill that did not finish.
Verified == {n \in BackupRuns : WholeDir(dirs["local"][n]) /\ dirs["local"][n].drill = "passed"}
Undrilled == {n \in Counted("local") : dirs["local"][n].drill \in {"none", "left"}}

\* Runs that do not overlap take the last verified backup away only when at least
\* KeepCount undrilled ones stand in its place, whatever steps fail and
\* wherever they crash: one that failed its drill and was removed never pushes
\* it out (scheduled_backup.go:81-83).
VerifiedKept ==
    [][~overlapped' /\ Verified # {} => Verified' # {} \/ Cardinality(Undrilled') >= KeepCount]_backupVars

=============================================================================
