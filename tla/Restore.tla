------------------------------ MODULE Restore ------------------------------
(***************************************************************************)
(* Restoring an instance from a backup, beside a server that may start at  *)
(* any moment: the journal, the renames that set the original files aside  *)
(* and move the staged ones in, the rollback, and the settling of a        *)
(* restore that a kill or a power loss cut short.                          *)
(*                                                                         *)
(* A file's content is the generation of the instance it belongs to: the   *)
(* number of restores begun before it was written.  A kill keeps what the  *)
(* system calls did; a power loss may take back, file by file, what no     *)
(* directory sync has made durable.  The -wal and -shm files are treated   *)
(* alike by the code: Companions names those an instance is checked with.  *)
(***************************************************************************)
EXTENDS Integers, FiniteSets

CONSTANTS
    Companions,  \* the SQLite companions of the database
    MaxRestores  \* bound: restores begun

ASSUME RestoreAssumption == Companions \cap {"database", "blobs"} = {}

VARIABLES
    file,      \* live path -> content
    kept,      \* its .pre-restore- path, for the restore in the journal -> content
    journal,   \* the restore journal
    disk,      \* what a power loss cannot take back of these three
    command,   \* the step the offline command is at; "idle" when none runs
    server,    \* down, checked (found no journal), locked, open, up
    begun,     \* restores begun
    original,  \* file as the last server run, or the operator, left it
    promised,  \* the blobs that go with the restored database
    committed, \* the journal has said "activated" since
    reported   \* the command has reported the restore done since

restoreVars == <<file, kept, journal, disk, command, server, begun, original, promised, committed, reported>>

Missing == -1
Empty == -2   \* a blob directory a starting server has just made
Items == {"database", "blobs"} \cup Companions
NoJournal == [state |-> "none", listed |-> {}, blobs |-> FALSE]

Now == [file |-> file, kept |-> kept, journal |-> journal]

RestoreInit ==
    /\ file \in [Items -> {Missing, 0}]
    /\ file["database"] = Missing => \A c \in Companions : file[c] = Missing
    /\ kept = [i \in Items |-> Missing]
    /\ journal = NoJournal
    /\ disk = Now
    /\ command = "idle" /\ server = "down" /\ begun = 0
    /\ original = file /\ promised = Missing /\ committed = FALSE /\ reported = FALSE

-----------------------------------------------------------------------------
(* restore.                                                                *)

\* acquireServerExclusion and the restore locks: no server, no other command.
Exclusive == command = "idle" /\ server \notin {"locked", "open", "up"}

Move(i, path, content) ==
    /\ file' = [file EXCEPT ![i] = path]
    /\ kept' = [kept EXCEPT ![i] = content]

\* Under the locks, and with no journal in the way, the backup is copied beside
\* the live files and verified.
stageBackup ==
    /\ Exclusive /\ journal = NoJournal /\ begun < MaxRestores
    /\ command' = "stage"
    /\ UNCHANGED <<file, kept, journal, disk, server, begun, original, promised, committed, reported>>

\* The journal is written and synced.  Its sync covers the database's
\* directory, not the blobs'.
BeginRestore(withBlobs) ==
    /\ command = "stage"
    /\ begun' = begun + 1
    /\ kept' = [i \in Items |-> Missing]
    /\ journal' = [state |-> "activating", blobs |-> withBlobs,
                   listed |-> {i \in Items : file[i] # Missing /\ (i = "blobs" => withBlobs)}]
    /\ disk' = [file |-> [file EXCEPT !["blobs"] = disk.file["blobs"]], kept |-> kept', journal |-> journal']
    /\ command' = "preserve"
    /\ promised' = IF withBlobs THEN begun' ELSE file["blobs"]
    /\ original' = file /\ committed' = FALSE /\ reported' = FALSE
    /\ UNCHANGED <<file, server>>

\* The database is set aside first, then its companions, then the blobs.
Preserve(i) ==
    /\ command = "preserve"
    /\ i \in journal.listed /\ kept[i] = Missing
    /\ i # "database" /\ "database" \in journal.listed => kept["database"] # Missing
    /\ i = "blobs" => \A c \in journal.listed \cap Companions : kept[c] # Missing
    /\ Move(i, Missing, file[i])
    /\ UNCHANGED <<journal, disk, command, server, begun, original, promised, committed, reported>>

SyncPreserved ==
    /\ command = "preserve"
    /\ \A i \in journal.listed : kept[i] # Missing
    /\ disk' = Now
    /\ command' = "activate"
    /\ UNCHANGED <<file, kept, journal, server, begun, original, promised, committed, reported>>

Activate(i) ==
    /\ command = "activate"
    /\ i = "database" \/ (i = "blobs" /\ journal.blobs)
    /\ i = "blobs" => file["database"] = begun
    /\ file[i] # begun
    /\ file' = [file EXCEPT ![i] = begun]
    /\ UNCHANGED <<kept, journal, disk, command, server, begun, original, promised, committed, reported>>

SyncActivated ==
    /\ command = "activate"
    /\ file["database"] = begun /\ (journal.blobs => file["blobs"] = begun)
    /\ disk' = Now
    /\ command' = "validate"
    /\ UNCHANGED <<file, kept, journal, server, begun, original, promised, committed, reported>>

\* The restored database opens and passes its checks.
Validate ==
    /\ command = "validate"
    /\ command' = "record"
    /\ UNCHANGED <<file, kept, journal, disk, server, begun, original, promised, committed, reported>>

\* writeJournal, state "activated"; it may fail before or after the rename,
\* and the command then leaves everything as it is.
RecordActivated(renamed, synced) ==
    /\ command = "record"
    /\ synced => renamed
    /\ journal' = IF renamed THEN [journal EXCEPT !.state = "activated"] ELSE journal
    /\ committed' = (committed \/ renamed)
    /\ disk' = IF synced THEN [disk EXCEPT !.journal = journal'] ELSE disk
    /\ command' = IF synced THEN "finish" ELSE "idle"
    /\ UNCHANGED <<file, kept, server, begun, original, promised, reported>>

\* The journal goes; the sync that follows is best effort.
RemoveJournal ==
    /\ command \in {"finish", "unjournal"}
    /\ journal' = NoJournal
    /\ reported' = (reported \/ command = "finish")
    /\ command' = "sync"
    /\ UNCHANGED <<file, kept, disk, server, begun, original, promised, committed>>

SyncRemoved ==
    /\ command = "sync"
    /\ disk' = [disk EXCEPT !.journal = journal]
    /\ command' = "idle"
    /\ UNCHANGED <<file, kept, journal, server, begun, original, promised, committed, reported>>

\* A step of the activation fails: the command rolls back itself.
ActivationFails ==
    /\ command \in {"preserve", "activate", "validate"}
    /\ command' = "rollback"
    /\ UNCHANGED <<file, kept, journal, disk, server, begun, original, promised, committed, reported>>

-----------------------------------------------------------------------------
(* rollBackRestore, and settling what a crash left.                        *)

Involved == Items \ (IF journal.blobs THEN {} ELSE {"blobs"})

\* Where an original was listed, nothing waits to be put back any more;
\* where none was, nothing is at the live path.
Settled(i) == IF i \in journal.listed THEN kept[i] = Missing ELSE file[i] = Missing

\* Companions the journal does not list, then the database, then the listed
\* companions, then the blobs.
Before(i) ==
    CASE i = "database" -> Companions \ journal.listed
      [] i \in Companions /\ i \in journal.listed -> {"database"} \cup (Companions \ journal.listed)
      [] i = "blobs" -> Items \ {"blobs"}
      [] OTHER -> {}

RollBackTurn(i) ==
    /\ command = "rollback"
    /\ i \in Involved /\ ~Settled(i)
    /\ \A j \in Before(i) : Settled(j)

\* withdraw: a restored copy moves into staging.
Withdraw(i) ==
    /\ RollBackTurn(i) /\ file[i] # Missing
    /\ file' = [file EXCEPT ![i] = Missing]
    /\ UNCHANGED <<kept, journal, disk, command, server, begun, original, promised, committed, reported>>

PutBack(i) ==
    /\ RollBackTurn(i) /\ file[i] = Missing
    /\ Move(i, kept[i], Missing)
    /\ UNCHANGED <<journal, disk, command, server, begun, original, promised, committed, reported>>

SyncRolledBack ==
    /\ command = "rollback"
    /\ \A i \in Involved : Settled(i)
    /\ disk' = Now
    /\ command' = "unjournal"
    /\ UNCHANGED <<file, kept, journal, server, begun, original, promised, committed, reported>>

\* recoverInterruptedRestore, run by every command before it opens the
\* database: an unfinished activation is rolled back, a finished one kept.
RecoverInterruptedRestore ==
    /\ Exclusive /\ journal # NoJournal
    /\ command' = IF journal.state = "activated" THEN "unjournal" ELSE "rollback"
    /\ UNCHANGED <<file, kept, journal, disk, server, begun, original, promised, committed, reported>>

\* The process is killed, the backup does not verify, or a step of a rollback
\* or of settling fails.  A validation killed midway may leave companions of
\* the restored database.
CommandEnds ==
    /\ command # "idle"
    /\ command' = "idle"
    /\ file' \in IF command = "validate"
                 THEN {[i \in Items |-> IF i \in left THEN begun ELSE file[i]] : left \in SUBSET Companions}
                 ELSE {file}
    /\ UNCHANGED <<kept, journal, disk, server, begun, original, promised, committed, reported>>

-----------------------------------------------------------------------------
(* serve, and every other command that writes the database.                *)

\* recoverInterruptedRestore finds no journal.
ServerChecks ==
    /\ server = "down" /\ journal = NoJournal
    /\ server' = "checked"
    /\ UNCHANGED <<file, kept, journal, disk, command, begun, original, promised, committed, reported>>

\* acquireWriterLocks: the blob directory is made for its lock file.
ServerLocks ==
    /\ server = "checked"
    /\ \/ /\ command = "idle"
          /\ server' = "locked"
          /\ file' = IF file["blobs"] = Missing THEN [file EXCEPT !["blobs"] = Empty] ELSE file
       \/ command # "idle" /\ server' = "down" /\ file' = file
    /\ UNCHANGED <<kept, journal, disk, command, begun, original, promised, committed, reported>>

\* Locks alone: the check for a journal is dropped.
OpenUnsettled ==
    /\ server = "locked"
    /\ server' = "open"
    /\ UNCHANGED <<file, kept, journal, disk, command, begun, original, promised, committed, reported>>

\* requireSettledRestore, under the locks; then the database is opened.
RequireSettledRestore ==
    /\ server = "locked"
    /\ server' = IF journal = NoJournal THEN "open" ELSE "down"
    /\ UNCHANGED <<file, kept, journal, disk, command, begun, original, promised, committed, reported>>

\* The server writes: what it finds becomes the instance, and is durable.
ServerWrites ==
    /\ server = "open"
    /\ server' = "up"
    /\ LET g == IF file["database"] = Missing THEN 0 ELSE file["database"]
       IN file' = [i \in Items |-> IF i = "blobs" /\ file[i] # Empty THEN file[i] ELSE g]
    /\ disk' = [disk EXCEPT !.file = file', !.journal = journal]
    /\ original' = file' /\ committed' = FALSE /\ reported' = FALSE
    /\ UNCHANGED <<kept, journal, command, begun, promised>>

\* A clean stop lets SQLite remove the companions; a kill leaves them.
ServerStops(clean) ==
    /\ server = "up"
    /\ server' = "down"
    /\ file' = IF clean THEN [i \in Items |-> IF i \in Companions THEN Missing ELSE file[i]] ELSE file
    /\ original' = file'
    /\ disk' = [disk EXCEPT !.file = file']
    /\ UNCHANGED <<kept, journal, command, begun, promised, committed, reported>>

\* Every file is as it was last synced or as it was last renamed.
PowerLoss(lost, journalLost) ==
    /\ disk # Now
    /\ file' = [i \in Items |-> IF i \in lost THEN disk.file[i] ELSE file[i]]
    /\ kept' = [i \in Items |-> IF i \in lost THEN disk.kept[i] ELSE kept[i]]
    /\ journal' = IF journalLost THEN disk.journal ELSE journal
    /\ disk' = [file |-> file', kept |-> kept', journal |-> journal']
    /\ command' = "idle" /\ server' = "down"
    /\ UNCHANGED <<begun, original, promised, committed, reported>>

RestoreNext ==
    \/ \E b \in BOOLEAN : BeginRestore(b) \/ ServerStops(b)
    \/ \E i \in Items : Preserve(i) \/ Activate(i) \/ Withdraw(i) \/ PutBack(i)
    \/ stageBackup \/ SyncPreserved \/ SyncActivated \/ Validate \/ RemoveJournal \/ SyncRemoved
    \/ \E renamed, synced \in BOOLEAN : RecordActivated(renamed, synced)
    \/ ActivationFails \/ SyncRolledBack \/ RecoverInterruptedRestore \/ CommandEnds
    \/ ServerChecks \/ ServerLocks \/ RequireSettledRestore \/ ServerWrites
    \/ \E lost \in SUBSET Items, journalLost \in BOOLEAN : PowerLoss(lost, journalLost)

-----------------------------------------------------------------------------
(* Properties.                                                             *)

AsBefore ==
    /\ \A i \in Items \ {"blobs"} : file[i] = original[i]
    /\ file["blobs"] = original["blobs"] \/ (original["blobs"] = Missing /\ file["blobs"] = Empty)

\* A database-only backup leaves the blobs that are in place.
AsRestored ==
    /\ file["database"] = begun
    /\ file["blobs"] = promised \/ (promised = Missing /\ file["blobs"] = Empty)
    /\ \A c \in Companions : file[c] \in {Missing, begun}

\* A server only ever opens a whole instance: the one that was there, with its
\* committed WAL, or, once the journal said "activated", the restored one; and
\* the restored one for certain once the command said so (backup_restore.go:8-10:
\* "a crash at any point leaves either the original instance or the restored
\* one, and the next command settles which").
RestoredOrOriginal ==
    server = "open" =>
        IF reported THEN AsRestored
        ELSE AsBefore \/ (committed /\ AsRestored)

=============================================================================
