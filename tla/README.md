# Veritra server: a TLA+ model of its state

Veritra is a self-hosted, end-to-end encrypted messenger. One Go process
(`server/`) keeps everything in SQLite and in a directory of encrypted files;
Flutter clients with a Rust MLS library talk to it over HTTP and a WebSocket.
The server never reads a message. What it promises is order, delivery and
revocation: a device that was away learns everything it may still see or is told
that it cannot, a group's commits form one sequence, a revoked credential stays
revoked, a queued wake is not lost. Those promises are kept by transactions,
cursors, leases and sweeps that interleave, and they are the subject of this
directory.

## 1. How the system runs, and what a step is

Two facts about the process decide what an action of the models is.

* **Writes.** `storage/sqlite.go` opens one writer connection. Every writing
  store method is one transaction on it, so transactions are serial and a store
  method is **one action**, with everything it calls.
* **Reads.** The reader pool has many connections, and a statement outside a
  transaction is its own snapshot. A handler that reads with several statements,
  or reads, computes and then writes, is **one action per statement**; anything
  may happen between them.

A client is an environment: it may send any request the handlers let through, at
any time, again, or never. A lost request or a lost answer is a step that is not
taken, or whose result nobody uses, followed by a retry. Clocks are monotone;
where the code compares times the models keep the outcome of the comparison (due,
lapsed, expired), set by actions that may happen at any moment.

## 2. Inventory

| Part | State | Operations | What is hard about it | Module |
|---|---|---|---|---|
| Sync log and its readers | `sync_events`, `message_envelopes`, prune marks, device cursors | save, edit, delete, expire, sweep, prune, members, blocks, bundles; a read in four statements | pruning between two statements of a read; windows that move under a cursor | `SyncLog` |
| Roles | role ranks | manage, post | | `Roles` |
| Communities and conversations | communities, channels, groups, memberships, blocks, posting policy | create, join, leave, promote, remove, block, settings, account deletion | limits and memberships kept by many different operations | `Communities` |
| MLS groups | epoch, roster windows, messages, pending changes | commit bundle, legacy message, join, leave, enrol | two commits for one epoch; retries; offered but refused changes | `MlsGroup`, `MlsOrder` |
| Revocations | `mls_revocations`, required devices | queue, elect, commit, confirm, release, complete | waiting for someone who will never answer | `MlsGroup` |
| Push wakes | subscriptions, jobs, leases, worker batch, rejection tracker | enqueue, claim, refresh, send, complete, drop, retry, retire | late answers, crashes, replaced credentials | `PushWake` |
| Sessions and credentials | password hash, sessions, devices, requests in flight | login, rehash, rotate, change, logout, revoke, suspend, delete | slow unlocked password checks, lost rotation answers | `Account` |
| Account recovery | recovery key, requests, reservations | claim, wait, complete, cancel | credentials that move during the wait; all-or-nothing completion | `Account` |
| Encrypted blobs | files, rows, upload intents, the deletion queue | upload, record, queue, sweep, expire, delete, crash | file system and database have no common transaction | `Blobs` |
| Key packages | packages, claims | publish, claim, expire, clean up | limits counted over rows that cleanup deletes | `KeyPackages` |
| Device links | `device_links`, `device_links_v3`, first sessions | create, reserve, claim, approve, complete, cancel, revoke, sweep | several links open at once; repeated completions | `DeviceLinks` |
| Registration | reservations, invites, accounts | reserve, setup, register, revoke, expire | checks before a slow hash | `Registration` |
| Live sync hub | sockets, limits, queues | handshake, register, publish, disconnect, drain | a handshake racing the end of its session | `Hub` |
| WebSocket connection | write loop, read deadline, frame reader | event, ping, pong, close, time out | starved pings; peers that vanish | `WebSocket` |
| Delivery receipts | queue, workers, cursors | queue, coalesce, take, write, retry, stop | a worker that exits while work arrives | `Deliveries` |
| Calls | `call_sessions`, requests on the network | create, transition, expire, prune | repeated and reordered requests | `Calls` |
| Rate limiter | bucket table, overflow bucket | charge, evict, reset, clean up | a full table | `RateLimiter` |
| Recovery downloads | lease, progress and capability of a backup | begin, stream, renew, complete, replace | a late transfer after its lease lapsed | `RecoveryTransfers` |
| Shutdown | handlers, writers, wakes, timers, storage | drain, wait, close | work started while it is being waited for | `Shutdown` |
| Restore and instance lock | files, journal, lock | stage, preserve, activate, roll back, settle | a kill or power loss at any step; a server that starts meanwhile | `Restore` |
| Backups | directories, status | snapshot, copy, publish, drill, discard, copy off host, prune, the backup and verify commands | a live server; overlapping, failing and crashing runs | `Backups` |

Section 8 lists what is not modelled. `PROJECT.json` has the same list with the
source files, and the hazards at the lines where they bite.

## 3. Modules

`SyncLog`: **the durable log.** `log` holds every event ever inserted, in id
order; `pruned` the ids retention deleted, so `Surviving` is the table. `envelopes`,
`expired`, `deleted`, `redacted` are the messages and the copies of them that
events carry. `role`, `blocks`, `groups`, `epoch`, `roster` decide what
`Visible(d, e)` says, which is `syncEventVisibleTo` clause by clause. A request
of a device goes through `ListSyncEventsPage`, `CheckPruneState`,
`CheckPruneMarks` and `CheckLegacy`, one action per statement of
`ListSyncEvents`; `cursor` is what the device asks with next. `lost` is a ghost:
the pruned events someone could still have been sent when they were pruned;
`gap` is a ghost set at the moment an answer is fixed. Events of reactions, receipts and
calls fall in the classes already present (membership-like or roster-filtered).
The backfill that redacts copies of messages deleted by older versions covers the
whole log of an instance or nothing. Cursor 0 asks from the start and never
expires, as in the code.

`MlsGroup`: **one conversation's group.** `log` is the sequence of MLS messages,
a bundle (commit, Welcomes, roster change) being one entry because it is one
transaction. `roster` has a window per device, `revocations` a row per revoked
device. `CreateMLSCommitBundle(b)` takes any bundle a device might build, from any
epoch it may believe in. The idempotency key is new or one the sender used before. Device
ids are naturals because the coordinator is the `MIN(id)` of the eligible
devices. `MlsOrder` is the abstract promise, a history of commits each built on
the state before it and a group that is exactly their effect; `KeepsOrder` says that
`MlsGroup` implements it.

`PushWake`: **the queue of one provider.** `jobs` are rows, `batch` the worker's
tasks in memory, `tracker` the rejection counts in memory; `Crash` empties what
is in memory. A task goes queued, sending, then one of accepted, drop,
retire, retry; each write at its end may fail instead (`WriteFails`). The process is one (the
instance lock), and a drain ends before the next claim (`DrainIdle`).

`Account`: **one account's credentials.** `tasks` are requests between two
statements: a login that has read the hash and is verifying it, a password change
that is hashing, a recovery claim that is being checked. `hash` is a password, the change
that set it (`era`) and its parameters version (`v`). Sessions record the
era they were opened under, a ghost used by `SessionsFollowPassword` only.

`Blobs`: **files and rows of one account.** Each key walks through the steps of its
upload (write, flush, rename, sync of the directory, row), and each deletion
through unlink, sync and completion, as separate actions that may fail. `file` is the directory
as the process sees it and `disk` what a crash is sure to leave; `Crash` picks anything
between them and drops what is in memory. The deletion queue is the set of its keys (`queue`) with the order of
their `created_at` (`older`), so keys queued by one statement stay unordered, as they are in the table. The sweeper
and the requests that delete at once use the same steps (`jobs`).

`KeyPackages`, `DeviceLinks`, `Registration`: **how devices come to be.** They share
`phones`, `sessions` and `packages`, and the latter two extend the first. A link is a record with its
version, so that v2 and v3 rows of an account are open together; `issued` is a ghost, the
sessions ever issued. A registration is a slot (`enrolling`) between the
statements of its handler, because hashing happens outside any transaction.

`Hub`, `WebSocket`, `Deliveries`: **the live path.** `Hub` has the handshakes of several devices
(`Authenticate`, `Register`, `RecheckSession`) and handlers that end sessions in two
steps, the commit and the disconnect (`pending`). `WebSocket` is one connection in discrete time: a `Tick` waits for work
that is due, as a goroutine scheduled in time would do it. `Deliveries` has the delivery queue with its
coalescing and its workers.

`Calls`: the network is a set `sent` whose members may be delivered any number of times in
any order; `applied` counts what each request changed. `RateLimiter`: one
address is watched, the others load the table; requests with a session are charged in two
steps. `RecoveryTransfers`: a request is between its begin, its flushes
and its completion in `transfer`. Two ghosts, `latest` and `flushed`, keep per backup the request that began last and what counts
for it: what was recorded when it began, and what it has flushed since. What a request flushes after another took
its lapsed lease over is in neither.
`Communities`: every operation is one transaction, and any account may try
any of them.

`Shutdown`: `requests` in flight, `drainer` the goroutine that drains, `caller` the stage of
`Serve`; handlers start writers and wakes until they return. `Restore`: each live path and its
preserved copy hold the generation of the instance they belong to;
a kill leaves what the calls did, a power loss any mixture with what was last synced.
`Backups`: runs beside a server that stores and deletes blobs. A run is a scheduled one or the backup command with
its default destination, which shares the directory and the form of the names. Every step may fail, a failed sync after the
rename included, and a run may crash anywhere. What is published carries a ghost, the outcome of the drill of
its own run.

**Composition.** `DeviceLinks` and `Registration` are composed with `KeyPackages` through shared
state, `Account` and `SyncLog` contain the components their transactions cross
(recovery and sessions; membership, blocks, MLS windows and retention). `MC_Server` and
`MC_Realtime` put components that share no state into one specification each: the variable `part`
chooses at the start whose behaviour it is, and the other components stand still. The
joint state space is the sum of the parts and not their product, which loses nothing, since no
property of theirs relates two parts.

## 4. Runs

| Run | Question | Instance |
|---|---|---|
| `sync_roster` | Two devices of an account join, leave and rejoin a group while retention prunes and one of them pages: is the Welcome first, is no gap hidden and no refusal unearned? | 8 events, 3 epochs, prune batches of 8 |
| `sync_upgrade` | Sends, resends, edits, deletes, expiry, blocks on a log pruned before marks existed: is no copy left, and does a device that keeps asking catch up with pages of 1? | 3 legacy and 3 new events, `FairSpec` |
| `sync_legacy` | Does the legacy test ever pass a cursor that missed something? (it does: section 7) | 3 legacy events, 1 new |
| `mls_roster` | Are windows the commits' effect and offered changes accepted, and is `MlsOrder` implemented, also for a group that starts without a roster? | 3 devices of 2 accounts, one enrolled and one account joined later, 2 messages, 2 membership changes, a revocation |
| `mls_revocations` | Is every revoked leaf queued, is completed only what is out, does every revocation end? | 3 devices, 2 revoked, `FairSpec` |
| `mls_sweep` | Are old events pruned in the end? (no: section 7) | 1 revocation, `FairSpec` |
| `push_batches` | Is a wake sent twice, or a target retired that was not refused often enough, when there are more jobs than a batch and credentials are replaced while answers are out? | 2 devices, 2 events, 2 credentials, batches of 2, tracker of 1 |
| `push_faults` | Is a wake lost, and is every wake settled, under crashes, failing writes, expiry and re-registration? | 2 credentials, 1 fault, `FairSpec` |
| `account` | Do two requests in flight against every credential change, revocation, suspension, deletion and recovery leave a wrong session, a revived token, a refused login or a stuck recovery? | 1 enrolled and 1 recovery device, 2 passwords, 1 change, `FairSpec` |
| `blobs` | Is what is recorded stored, is no file forgotten, does the quota hold and does everything queued go? | 1 direct and 1 history upload, 1 fault, 1 crash, 1 file that cannot be removed, `FairSpec` |
| `realtime` | Does a socket outlive its session, is an answering peer dropped or a silent one kept, is every queued delivery recorded, is a call request applied twice, does storage close under something that uses it? | 2 sockets, 2 devices; a ping period of 6 and a wait of 12 ticks; 2 workers, 2 messages; 2 calls, 3 requests; 3 requests to drain |
| `server` | The safety of links, packages, registration, limiter, recovery downloads, communities, restore and backups | 3 devices of one account with a limit of 2; an invite of one use; a table of 1 with 3 addresses; 2 downloads of 2 units; 2 rooms and 3 users; 2 restores; 3 backup runs, 1 of which may overlap another, with 1 backup kept |

What the runs `realtime` and `server` check, property by property:
`NoStaleSocket`, `AnsweringPeerKept`, `SilentPeerDropped`, `DeliveryRecorded`,
`ActionAppliedOnce` (calls) and `ClosedWhenIdle` (shutdown);
`WithinDeviceLimit` and `NoSessionResurrected` (links),
`RecordedClaimsWithinLimit` (packages), `AdmittedOnce` (setup and invites),
`CredentialRate` (limiter), `ProgressWasSent` (downloads), `ChannelsWithinCommunity`, `RestoredOrOriginal`,
`PublishedIsWhole` and `VerifiedKept` (backups).

**Bounds.** Every bound is a constant in a guard (`MaxEvents`, `MaxLog`,
`MaxChurn`, `MaxChanges`, `MaxTokens`, `MaxFaults`, ...), never a state
constraint. They are as small as the hazards allow. A gap needs a page, a prune of
an event the page would have had and a test; removal and rejoin need three commits with their
Welcomes (8 events). Two commits of one epoch need 2 messages. A lapsed lease with a late
answer needs two claims and one fault. A login racing a change needs two tokens. A
forgotten file needs one fault or one crash between two steps; the quota needs an
upload in flight beside another. A device limit is passed by two links approved
after both were created, hence 3 devices and a limit of 2. A limiter forgets an address when the table is
one entry short, hence 1 entry. A restore cut short must be settled by a second one. A verified backup is pushed out by
a later one that counts, and a third run must find what the second left, hence 3 runs and 1 backup kept. The
refusal of a credential that was replaced needs two of them. `server` compares states without the recorded backup status, which no guard
and no property reads (`ServerView`). In `sync_roster` there are no message keys and no legacy log: what `NoSilentGap`
says of resends, expiry and cursors beyond the legacy watermark rests on its theorem. Deadlock
is not checked where a bound ends the behaviour.

**Symmetry** is used in the safety run `push_batches` only, over devices, events and registrations, which no action
orders.

**Fairness.** `SyncLog`: a device that is behind keeps asking (the clients page
until a page is empty). `MlsGroup`: clients poll pending revocations and
confirm what they applied; the sweeper runs on a timer. `PushWake`:
workers loop on a ticker, timers fire, each send ends by its timeout, and strong
fairness on acceptance says that the provider is not down for ever. `Account`:
the recovering client polls until its request ends. `Blobs`: a request runs to its
end, intents lapse by the clock, and the sweeper comes back on its ticker; strong
fairness on a key being in a batch replaces the order by attempts beyond `MaxAttempts`.
`WebSocket`: time passes, the read deadline fires and a write ends within `writeWait`, which its
deadline enforces. `Deliveries`: a started worker goroutine goes on. No fairness is put on a user's action.

## 5. What is proved

TLAPS checks the following for all values of the constants that satisfy the assumptions named in the
modules: that bounds and limits are naturals, that sets are disjoint or owned where the tables make them so,
that `Communities` and `DeviceLinks` have finitely many accounts and devices, that no companion file of the database in
`Restore` is the database or the blob directory, and that the
keepalive constants of `WebSocket` fit together as the code's 30, 60 and 10 seconds do. Each invariant below is inductive; the
property it is for is not.

**`SyncLog_proofs`.** `TypeCorrect`: `Spec => []TypeOK`.
`MarksCoverPruned`: each pruned event that someone could still have been sent is covered by a mark
of its account (and device) or conversation, or lies below the legacy watermark. It
is inductive together with the bounds on marks: every mark is at most the prune
state, and the prune state is at most the log's length. `NeverSilentGap` needs what a read
carries between its statements: at each program counter, an event that is missing from the page and was not
hidden was pruned *before* the page was read, so its mark is already
there when the test runs; marks only grow. That is the ordering argument in the
comment of `ListSyncEvents`, and it is why the page is read before the test. `CopiesRedacted`:
a copy of a message implies a live row, by cases on the three ways a row goes.
`WelcomesComeFirst` rests on `JoinInv`, which is about the whole log and not about what a reader sees: every
join that the roster records is followed in the log by its Welcome, with nothing but rows of accounts' own chains in between. The rows a
transaction appends (`CommitRows`, `MembershipRows`) show it for the join it makes, and the log only grows. `ExpiryEarned` is the
converse of `NeverSilentGap`, and needs `EarnedInv`: each mark *is* the id of a row of its key that could be served
when it went, and the commit that closed a device's window either survives or went as such a row. A window's end is
compared with a mark although it names no event of its own, so the second part is what a refusal of a
removed device rests on.

**`MlsGroup_proofs`.** `GroupInv` says how the tables follow each other. A revocation row belongs to a revoked
device and is announced when it completes (`RowsInv`); in a group with a roster it is pending exactly while its device
has a leaf that somebody else can remove, and a row past its commit has none (`LeafInv`). A roster row is the device's last
join and the removal since (`WindowInv`), and the epoch is the number of bundles (`EpochInv`). From it
follow `WindowsMatch`, `RevocationsMatch`, `CompletedAreRemoved` and `ChangesAreAccepted`, which compares the query that
lists pending changes with the conditions of the handler that stores the bundle, and `OrderIsKept`: `Spec => KeepsOrder`,
the refinement of `MlsOrder`. Its step with content is a bundle that was accepted: its base is the number of
bundles before it, which is why the epoch check in the transaction is enough, and a retried bundle is found by its key
and is a stutter.

**`Account_proofs`.** The inductive invariant is `Inv`: types; tasks name real
devices and tokens; `CredInv`, which ties the era of every session, waiting request and checked
claim to the stored hash; `Emptied`, that a deleted account has nothing left; and
`EnrolledOnce`, that a reserved device exists only through its completed request. From it:
`SessionsFollow`, `WaitingMatches` (which makes the backstop in
`CompleteRecovery` unreachable), `TokensEnd` and `RecoveryIsAlone`. The lemma `Shape`
classifies each step as one that only drops or ages tokens, one that issues
one token, or one that completes a recovery, and the action properties follow from it.
`RehashIsHarmless` adds `HashInv`: the hash a login holds is of an older password than the stored one, or of the same
password and no newer parameters (`Follows`); only the first password's hash has old parameters; and a login that
checks a second time holds one with new ones. Two hashes with new parameters and one era are the same hash, so the second check never
fails for a rehash, and one repetition in `login` is enough. `ProgressIsSent`, of the account's recovery downloads: recorded progress was flushed from 0
without a gap (`Covered`), the range of the request that began last was flushed as far as it counts (`InRange`), and the holder of
the lease is that request and began no later than the progress recorded since. A late completion of a request whose lease was
taken over fails the lease test, so nothing has to hold for it, and nothing of what it sent is counted.

**`Enrolment_proofs`.** `DevicesWithinLimit` and `SessionsEnd` of device links: the
limit is inductive once a reserved recipient is known to be a device of the source's account
(`Sound`), for only then does the count that `checkDevices` makes in the transaction of an approval bound the
set the approval enlarges; `SessionsEnd` needs `Numbered`, that rows are numbered apart and the row of an
issued session is consumed as long as it is there. `ClaimsWithinLimit`: the claims on record are within the limit
because the count and the insertion are one transaction. `AdmissionsAreCounted`: an invite's uses are
the accounts it admitted, and there is one owner, though each request was checked long before its transaction.

**`Realtime_proofs`.** `SocketsFollowSessions`: a
disconnect reaches only subscribed sockets, so `HubInv` adds that every open socket past its registration is
subscribed; a session that ends before `RecheckSession` is seen by it, one that ends after it finds
the socket in the hub. `AnsweringPeersKept`: the invariant bounds, in each state of the writing loop, how long the next
pong can take (the rest of the ping period, the write under way, the ping's own write, the round trip) by what is left of the read deadline.
`AppliedOnce`: a request that was applied names an older version than its call's row has now, or the row was pruned and
its id is never used again. `NothingUsesClosedStorage`: for each wait of `Serve`, what can no longer be
running when it is over, first whatever starts work (handlers), then the work; swapping two waits breaks
it. `NoWakeIsLost`, `RetiredWereRefused` and `NoRepeats`: `PushInv` ties a task of the worker to the row it
claimed by the claim's token, so the row a task deletes is the one it was started for; a wake that was accepted without
a fault is still held by its task; and the tracker never counts more refusals than there were.

**`Operations_proofs`.** `MembersStayWithin`: channels have members of the community only, and no conversation
outgrows the limit; a role change that joins a member to every channel keeps this only because a channel's
members are already members of the community. `RecordedAreStored`, `FilesAreTraced` and `QuotaHolds`: `BlobsInv` says per key
(`KeyInv`) what the file system holds at each step of an upload and of a deletion. What decides it is that a key in the queue or
in a job has no row; that a job may be completed only when its upload is over and its name is gone from the
directory and from the disk, which is what the busy test in `Delete` and the flush after the unlink are for; and that
a history upload in flight has a row or is queued. A step moves one key and leaves the others better
flushed at most (`Quiet`), or retires several at once (`Retired`). The quota is kept because count and insertion are one transaction, and
an intent that turns into a row was counted as one already (`QuotaInv`).

**`Commands_proofs`.** `PublishedAreWhole`: a copy under way holds what of its snapshot it has copied, and it is
published only when nothing is missing. `VerifiedIsKept`: while no two runs overlapped (`Orderly`), runs come one after the other
(`InTurn`), so a run's backup is newer than every other; a directory that failed its drill is there only while its run discards it (`Drills`);
what an unfinished prune left of a verified backup is older than every verified one (`Remains`); and each directory
listed to go has `KeepCount` newer ones that count (`Listed`). When the last verified one goes, none of those failed its drill and none passed it,
so they are undrilled. Failed steps, crashes, unfinished removals and backup commands are all covered; only overlap is excluded.
`RestoreIsWhole`: `RestoreInv` follows the journal that a power loss cannot take back, which is at most one write
behind the one in use. While there is one, the original of each item is where that journal says, set aside if
anything is and in its place otherwise, both in the files as they are and in the files as a power loss would leave them
(`JournalInv`); without one the instance is the original or, once committed, the restored one, in both views
(`OutcomeInv`). `CommandInv` says what each step of the command may rely on, `ServerInv` that a server that has the lock excludes a
command. The second view is what the syncs between the code's steps are for.

`Lemmas` holds the facts about the greatest and least elements of bounded sets of naturals that several of these use.

**Only model-checked.** Liveness (out of TLAPS 1.4.5's reach, with `ENABLED`): `CaughtUp`, `RevocationEnds`,
`EveryWakeSettles`, `RecoveryEnds`, `LeftoversGo`, `SilentPeerDropped`, `DeliveryRecorded`.
`CredentialRate`, which sums over a minute with a fold: what a fold returns for a minute of any length takes induction over data, which is out
of reach too. Every other invariant and action property that a run shows to hold is proved. The two properties of section 7 that TLC refutes
have no theorem.

## 6. Reading a property

Each property carries a comment with what it says and the code it is about, and each has
a mutant in `PROJECT.json`: a plausible slip in the
definition that models the code (a guard dropped, an order swapped, a reset
forgotten) under which TLC finds the property violated. The mutated forms stand
just before the definition they vary.

## 7. What the models showed

1. **The legacy cursor test can pass a gap** (`sync_legacy`).
   `message_store.go:1254` says of `legacySyncCursorExpiredQuery` that "it never
   passes one that missed something". When no event the account may see survives, the
   oldest one is NULL, the bound becomes 0 and the cursor passes.
   Only cursors into ids pruned before migration 0044 are affected.
2. **A committed revocation stops retention** (`mls_sweep`).
   `mls_revocations.commit_message_id` has no ON DELETE action
   (`migrations/0022_mls_revocations.sql:9`), while the message it references cascades from
   its sync event. When that event grows older than the retention period the
   batch DELETE of `PruneSyncEvents` fails on every sweep.

Observations that contradict no document: a signed-in request is authorised when it starts, so
a password change in flight still applies when its session is revoked meanwhile; two
concurrent password changes sign out both; a late duplicate of a rotation can
supersede the token its retry received; the rejection tracker counts per subscription and not
per credentials, so refusals of replaced credentials count against the new ones;
`PruneExpiredPushWakeJobs` has no caller outside tests. A device whose account
leaves a conversation never confirms a revocation there, which `docs/crypto.md`
records as open and `RevocationEnds` excludes by name.

More of the same kind, met while modelling the other parts:

* Links and packages: an expired link of version 2 that was never consumed is not swept
  (`content_store.go:846`); a link row that is swept frees its code; deleting an expired claimed package
  forgets a claim the daily limit counted, so `RecordedClaimsWithinLimit` is about recorded claims.
* Communities: a role change joins a member to every channel without counting them against the limit on
  conversations of an account.
* Blobs: a crash between the rename and the row of a direct upload, or a second failure while it cleans up, leaves
  a file that nothing records (`untraced`, the exception `NoForgottenFile` names; a history upload has none); an
  upload in flight while its account is deleted may insert its row afterwards.
* Live path: two concurrent publications may reach a socket in either order; deliveries that are coalesced
  announce the newest only; a read cursor whose message was deleted may be announced again at an older one.
* Calls: a delayed duplicate of a creation that arrives after pruning makes a second call.
* Limiter: an address served by the overflow bucket that later gets an entry starts a new budget, so
  `CredentialRate` bounds a minute by a multiple of the limit; `now` is read before the lock.
* Backups: an undrilled backup counts toward the number kept. One is left by a sync of the parent directory that fails after the
  rename (`backup_restore.go:333`), by a crash between publication and drill, by a removal after a failed drill that
  did not finish (`scheduled_backup.go:84`), and by the backup command with its default destination (`backup_restore.go:219`). As
  many of them as are kept may displace the last verified one, which is the exception `VerifiedKept` names; with
  overlapping runs and one backup kept, a run may prune the other's.
* Two texts that say more than the code does. The comment of `BeginRecoveryTransfer` (`content_store.go:937-939`) says
  "Reusing an earlier range, beginning after a gap, or racing an active transfer is rejected"; the code accepts a start at or before the
  recorded offset and says why (`content_store.go:985-990`, and `docs/crypto.md:1099-1100`: "may resume from any offset the server has
  sent"). `ProgressWasSent` is about the code. `docs/operations.md:814-815` says of the scheduled backups kept that
  "Nothing else in those directories is removed"; `pruneBackups` goes by name and manifest, and counts and removes what
  the backup command wrote there as well.
* Shutdown: the retention sweeper and the limiter's cleanup are not waited for, and a request that was read but not
  yet counted when the drain timeout passes is not either (`uncounted`).
* Restore: commands that run online (`doctor`, `backup`) open the database without the instance lock.

## 8. Not modelled

* **Scoped sync streams** read the tables of `SyncLog` under the same clauses and keep no state.
* **Login backoff, password slots, write budget, typing limiter** are counters and semaphores in memory
  that bound load. `RateLimiter` stands for the kind: the others have no eviction and no second step. The account table of the limiter
  follows the rules of the address table.
* **Failed-attempt counters and decoy answers of recovery** bound guessing and hide existence, which are not
  properties of the stored state.
* **Push providers** are their set of answers in `PushWake`.
* **Pools and migrations**: one writer connection is the assumption that makes a write one action. SQLite, the
  file system and the providers appear as what the code relies on: serial write transactions, atomic rename, durable after a sync,
  an answer or none.
* **HTTP parsing, routing, configuration, metrics, logging**, and the encoding checks of key
  packages and frames beyond what decides a step.
* **Cryptography, MLS internals, the Flutter client's own state, the load generator and the scripts**: payloads are
  opaque values, and a client is an environment that may ask anything at any time.

Next, if this is taken further: the account table of the limiter, the failed-attempt counters of recovery, and the liveness
properties, once the proof system has `ENABLED`.
