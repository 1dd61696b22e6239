------------------------- MODULE RecoveryTransfers -------------------------
(***************************************************************************)
(* Downloads of an encrypted backup with its recovery capability: the row  *)
(* in backup_blobs leases the transfer to one request at a time, records   *)
(* how far the flushed bytes reach, and gives the capability up when they  *)
(* reach the end.  A request streams, renews its lease and records its     *)
(* progress in separate steps; leases lapse, clients drop and resume, the  *)
(* server crashes, and newer backups are uploaded in between.              *)
(*                                                                         *)
(* A backup is Size units, of which each confirmed flush covers one.       *)
(***************************************************************************)
EXTENDS Integers, FiniteSets

CONSTANTS
    Owners,     \* devices of the account that upload backups; "" for a session without one
    Size,       \* units of a backup
    Transfers,  \* recovery requests: positive numbers, which name their leases
    LastBackup, \* bound: backups uploaded
    LeaseSteps  \* RecoveryLeaseLifetime, in steps of the clock

\* A lease has a name: 0 is the row without one.
ASSUME TransfersAssumption ==
    /\ Size \in Nat /\ LastBackup \in Nat /\ LeaseSteps \in Nat
    /\ Transfers \subseteq Nat \ {0}

VARIABLES
    backups,  \* backup_blobs: id -> row, or NoBackup
    uploaded, \* backups uploaded
    transfer, \* request -> its handler's state
    latest,   \* history: id -> request that began last, or 0
    flushed   \* history: id -> units recorded when it began, and those it has
              \* flushed to its client since

historyVars == <<latest, flushed>>
transferVars == <<backups, uploaded, transfer, latest, flushed>>

NoBackup == [owner |-> "none"]
BackupIds == 1..LastBackup
Unstarted == [at |-> "start"]
Stored == {b \in BackupIds : backups[b] # NoBackup}

TransfersInit ==
    /\ backups = [b \in BackupIds |-> NoBackup]
    /\ uploaded = 0
    /\ transfer = [t \in Transfers |-> Unstarted]
    /\ latest = [b \in BackupIds |-> 0] /\ flushed = [b \in BackupIds |-> {}]

-----------------------------------------------------------------------------
(* The backups.                                                            *)

\* Clears a row's capability, and with it progress and lease.
WithoutCapability(row) ==
    [row EXCEPT !.capability = FALSE, !.next = 0, !.lease = 0, !.left = 0]

\* A newer state counter than any the device has stored; the device's older
\* capabilities end.
CreateBackupBlob(d, counter) ==
    LET own == {b \in Stored : backups[b].owner = d} IN
    /\ uploaded < LastBackup
    /\ \A b \in own : counter > backups[b].counter
    /\ uploaded' = uploaded + 1
    /\ backups' = [b \in BackupIds |->
           IF b = uploaded'
           THEN [owner |-> d, counter |-> counter, capability |-> TRUE, expired |-> FALSE,
                 next |-> 0, lease |-> 0, left |-> 0]
           ELSE IF b \in own THEN WithoutCapability(backups[b]) ELSE backups[b]]
    /\ UNCHANGED <<transfer, historyVars>>

DeleteBackup(b) ==
    /\ b \in Stored
    /\ backups' = [backups EXCEPT ![b] = NoBackup]
    /\ UNCHANGED <<uploaded, transfer, historyVars>>

CapabilityExpires(b) ==
    /\ b \in Stored /\ backups[b].capability /\ ~backups[b].expired
    /\ backups' = [backups EXCEPT ![b].expired = TRUE]
    /\ UNCHANGED <<uploaded, transfer, historyVars>>

LeaseAges(b) ==
    /\ b \in Stored /\ backups[b].left > 0
    /\ backups' = [backups EXCEPT ![b].left = @ - 1]
    /\ UNCHANGED <<uploaded, transfer, historyVars>>

-----------------------------------------------------------------------------
(* One request.                                                            *)

Streaming(b, start, end) == [at |-> "streaming", backup |-> b, start |-> start,
                             expected |-> end - start + 1, sent |-> 0, cutOff |-> FALSE]

\* A valid capability, no live lease, and a range that leaves no gap: it starts
\* at the recorded offset or before it.
BeginRecoveryTransfer(t, b, start, end) ==
    /\ transfer[t] = Unstarted
    /\ b \in Stored /\ backups[b].capability /\ ~backups[b].expired
    /\ backups[b].left = 0
    /\ start <= backups[b].next /\ start <= end
    /\ backups' = [backups EXCEPT ![b].lease = t, ![b].left = LeaseSteps]
    /\ transfer' = [transfer EXCEPT ![t] = Streaming(b, start, end)]
    /\ latest' = [latest EXCEPT ![b] = t]
    /\ flushed' = [flushed EXCEPT ![b] = @ \cap (0..backups[b].next - 1)]
    /\ UNCHANGED uploaded

\* The range ends outside the backup, or its file does not open: nothing is
\* sent, and completion is asked for an empty range.
RefuseRange(t) ==
    /\ transfer[t].at = "streaming" /\ transfer[t].sent = 0
    /\ transfer' = [transfer EXCEPT ![t].at = "ending", ![t].expected = 0]
    /\ UNCHANGED <<backups, uploaded, historyVars>>

\* One more flush of verified bytes confirmed.
WriteBody(t) ==
    LET s == transfer[t] IN
    /\ s.at = "streaming" /\ ~s.cutOff /\ s.sent < s.expected
    /\ flushed' = IF latest[s.backup] = t THEN [flushed EXCEPT ![s.backup] = @ \cup {s.start + s.sent}] ELSE flushed
    /\ transfer' = [transfer EXCEPT ![t].sent = @ + 1]
    /\ UNCHANGED <<backups, uploaded, latest>>

\* ServeContent returns: all is sent, the stream was cut off, the client
\* dropped, the deadline passed or a chunk failed its check.
EndStream(t) ==
    /\ transfer[t].at = "streaming"
    /\ transfer' = [transfer EXCEPT ![t].at = "ending"]
    /\ UNCHANGED <<backups, uploaded, historyVars>>

\* Some live lease, whichever request it was given to.
AnyLease(t, b) == b \in Stored /\ backups[b].left > 0

HoldsLease(t, b) == b \in Stored /\ backups[b].lease = t /\ backups[b].left > 0

\* A tick of the renewing goroutine: the lease is extended, or, when it was
\* lost, the stream cut off.
RenewRecoveryTransfer(t) ==
    LET b == transfer[t].backup IN
    /\ transfer[t].at = "streaming" /\ ~transfer[t].cutOff
    /\ IF HoldsLease(t, b)
       THEN backups' = [backups EXCEPT ![b].left = LeaseSteps] /\ UNCHANGED transfer
       ELSE transfer' = [transfer EXCEPT ![t].cutOff = TRUE] /\ UNCHANGED backups
    /\ UNCHANGED <<uploaded, historyVars>>

\* Under a live lease: the offset advances to the last flush, the lease ends,
\* and a complete final range consumes the capability.
CompleteRecoveryTransfer(t) ==
    LET s == transfer[t]
        reached == s.start + s.sent
    IN  /\ s.at = "ending"
        /\ transfer' = [transfer EXCEPT ![t] = [at |-> "done"]]
        /\ backups' = IF ~HoldsLease(t, s.backup) THEN backups
                      ELSE [backups EXCEPT
                               ![s.backup].next = IF reached > @ THEN reached ELSE @,
                               ![s.backup].capability = @ /\ ~(s.sent = s.expected /\ reached = Size),
                               ![s.backup].lease = 0, ![s.backup].left = 0]
        /\ UNCHANGED <<uploaded, historyVars>>

\* The process dies with its streams; rows, leases included, stay.
ServerCrashes ==
    /\ \E t \in Transfers : transfer[t].at \in {"streaming", "ending"}
    /\ transfer' = [t \in Transfers |-> IF transfer[t] = Unstarted THEN Unstarted ELSE [at |-> "done"]]
    /\ UNCHANGED <<backups, uploaded, historyVars>>

TransfersNext ==
    \/ \E d \in Owners, counter \in 1..LastBackup : CreateBackupBlob(d, counter)
    \/ \E b \in BackupIds : DeleteBackup(b) \/ CapabilityExpires(b) \/ LeaseAges(b)
    \/ \E t \in Transfers :
          \/ \E b \in BackupIds, start, end \in 0..Size - 1 : BeginRecoveryTransfer(t, b, start, end)
          \/ RefuseRange(t) \/ WriteBody(t) \/ EndStream(t)
          \/ RenewRecoveryTransfer(t) \/ CompleteRecoveryTransfer(t)
    \/ ServerCrashes

-----------------------------------------------------------------------------
(* Properties.                                                             *)

\* The recorded offset of a backup covers only what the request that began last
\* flushed and what was recorded when it began, without a gap, and a transfer
\* uses the capability up only when that is all of it: over resumes from an
\* earlier offset, crashes, and lapsed leases taken over, where the flushes and
\* the late completion of the request that lost its lease count for nothing
\* (content_store.go:985-990, 1052-1071).
ProgressWasSent ==
    [][\A b \in BackupIds :
        backups'[b] # NoBackup =>
            /\ 0..backups'[b].next - 1 \subseteq flushed'[b]
            /\ (b \in Stored /\ backups[b].capability /\ ~backups'[b].capability) =>
                   \/ flushed[b] = 0..Size - 1
                   \/ uploaded' > uploaded]_transferVars

=============================================================================
