------------------------------ MODULE MlsGroup ------------------------------
(***************************************************************************)
(* The MLS group of one conversation, as the server keeps it.              *)
(*                                                                         *)
(* The server cannot read a commit.  It orders them: a commit bundle is    *)
(* stored only when it was built on the group's current epoch, together    *)
(* with its Welcomes and the roster change.  A revoked device leaves the   *)
(* group through a revocation: a row that names a coordinator to commit    *)
(* the removal and the devices that must confirm it.  Conversations whose  *)
(* first MLS messages predate rosters have no group row and stay that way  *)
(* (legacy groups).                                                        *)
(*                                                                         *)
(* Every operation is one transaction on the single writer connection, so  *)
(* one action.  Requests are arbitrary: any device may send any bundle at  *)
(* any time, built on any epoch, with a key it used before or a new one.   *)
(* Conversations do not interact here, so one is modelled.                 *)
(***************************************************************************)
EXTENDS Integers, Sequences, FiniteSets, FiniteSetsExt

CONSTANTS
    Accounts,
    Devices,         \* device ids: naturals, ordered as SQL orders them
    Owner,           \* [Devices -> Accounts]
    Founders,        \* the accounts the conversation is created with
    Enrolled,        \* the devices that exist then
    MaxLog,          \* bound on the MLS messages other than revocations'
    MaxChurn,        \* bound on the membership changes
    MaxRevoked,      \* bound on the devices revoked
    Rostered,        \* whether clients send commit bundles
    Legacy,          \* whether older clients send messages outside one
    MayPrune         \* whether retention runs

ASSUME MlsGroupConstants ==
    /\ Devices \subseteq Nat \ {0}
    /\ Owner \in [Devices -> Accounts]
    /\ Founders \subseteq Accounts
    /\ Enrolled \subseteq Devices

VARIABLES
    members,      \* memberships of the conversation
    enrolled,     \* devices: the log position each was created at, or Never
    revoked,      \* devices.revoked_at IS NOT NULL
    epoch,        \* conversation_mls_groups.epoch, or NoGroup
    roster,       \* conversation_mls_devices
    log,          \* MLS messages by position; a bundle is one entry
    live,         \* the positions retention has not deleted
    old,          \* positions up to here are older than the retention
    revocations,  \* mls_revocations and mls_revocation_required_devices
    announced,    \* mls.revocation.completed events per revoked device
    recent,       \* devices whose last self-update is within the interval
    churn         \* membership changes so far

vars == <<members, enrolled, revoked, epoch, roster, log, live, old,
          revocations, announced, recent, churn>>

Never == -1
NoGroup == -1
NoDevice == 0

\* A roster row; removed 0 is removed_after_event_id IS NULL.
RosterRow == [row : BOOLEAN, joined : Nat, epoch : Nat, removed : Nat]
NoRow == [row |-> FALSE, joined |-> 0, epoch |-> 0, removed |-> 0]

\* A revocation with its required devices and those of them that confirmed;
\* commit is the position of the message commit_message_id references, or 0.
RevocationStates == {"none", "pending", "commit_submitted", "completed"}
Revocation == [state : RevocationStates, coordinator : Nat,
               required : SUBSET Devices, confirmed : SUBSET Devices, commit : Nat]
NoRevocation == [state |-> "none", coordinator |-> NoDevice,
                 required |-> {}, confirmed |-> {}, commit |-> 0]

\* An accepted bundle, or a single message sent outside one.  The payload of
\* a bundle's commit is opaque; base, added and removed are what it declares.
Message == [kind : {"bundle", "commit", "welcome"}, sender : Devices,
            to : Nat, key : Nat, base : Nat, added : SUBSET Devices,
            removed : SUBSET Devices, revocation : Nat]

Exists(d) == enrolled[d] # Never
GroupExists == epoch # NoGroup
Active(d) == roster[d].row /\ roster[d].removed = 0

\* A device of a member's account that is not revoked.
Eligible(d) == Exists(d) /\ d \notin revoked /\ Owner[d] \in members

Pending(d) == revocations[d].state = "pending"

\* mlsLegacyLeafEvidence: d sent or received an MLS message that is retained,
\* or is no newer than the oldest retained one.
LegacyLeafEvidence(d) ==
    /\ live # {}
    /\ \/ \E k \in live : log[k].sender = d
       \/ \E k \in live : log[k].kind = "welcome" /\ log[k].to = d
       \/ enrolled[d] < Min(live)

\* mlsRevocationEligibleDevice: x may commit the revocation of d.
RevocationEligible(d, x) ==
    /\ Eligible(x)
    /\ x # d
    /\ Active(x) \/ (~GroupExists /\ LegacyLeafEvidence(x))

\* mlsRevocationTargetInGroup: d still has a leaf to remove.
TargetInGroup(d) == IF GroupExists THEN Active(d) ELSE live # {}

\* mlsRevocationCoordinator: the recorded coordinator while it can commit,
\* else the lowest device that can.
Coordinator(d) ==
    LET candidates == {x \in Devices : RevocationEligible(d, x)}
        recorded == revocations[d].coordinator
    IN IF ~TargetInGroup(d) \/ candidates = {} THEN NoDevice
       ELSE IF recorded \in candidates THEN recorded ELSE Min(candidates)

CommitAllowed(d, x) == Pending(d) /\ Coordinator(d) = x

-----------------------------------------------------------------------------
(* Revocation bookkeeping shared by the handlers.                          *)

\* Mutant: completes with the commit.
CompletedAtOnce(r) ==
    IF r.state = "commit_submitted" THEN [r EXCEPT !.state = "completed"] ELSE r

\* completeMLSRevocationIfConfirmed on a row.
Completed(r) ==
    IF r.state = "commit_submitted" /\ r.required \subseteq r.confirmed
    THEN [r EXCEPT !.state = "completed"] ELSE r

\* The rows after the commit of the revocation of d, sent by x, is stored at
\* position k.
CommitSubmitted(r, x, k) ==
    Completed([r EXCEPT !.state = "commit_submitted", !.commit = k,
                        !.confirmed = @ \cup ({x} \cap r.required)])

\* queueMLSRevocations for d, which is revoked already, as gone is: the group
\* devices (or, in a legacy group, the members' devices) left to commit it.
Remaining(gone, d) ==
    IF GroupExists
    THEN IF Active(d) THEN {x \in Devices : Active(x) /\ x # d /\ x \notin gone} ELSE {}
    ELSE IF live # {} /\ Owner[d] \in members
         THEN {x \in Devices : Exists(x) /\ Owner[x] \in members /\ x # d /\ x \notin gone}
         ELSE {}

QueuedCoordinator(gone, d) ==
    LET evident == {x \in Remaining(gone, d) : GroupExists \/ LegacyLeafEvidence(x)}
    IN Min(IF evident = {} THEN Remaining(gone, d) ELSE evident)

RequiredDevices(gone, d) ==
    {x \in Devices : /\ Exists(x) /\ Owner[x] \in members /\ x # d /\ x \notin gone
                     /\ Active(x) \/ (~GroupExists /\ LegacyLeafEvidence(x))}

\* Mutant: rostered groups are found through the account's membership, too.
QueueForMembersOnly(gone, d, r) ==
    IF r.state = "none" /\ Remaining(gone, d) # {} /\ Owner[d] \in members
    THEN [NoRevocation EXCEPT !.state = "pending",
                              !.coordinator = QueuedCoordinator(gone, d),
                              !.required = RequiredDevices(gone, d)]
    ELSE r

\* One row of queueMLSRevocations; a row that is there already stays.
QueueRevocation(gone, d, r) ==
    IF r.state = "none" /\ Remaining(gone, d) # {}
    THEN [NoRevocation EXCEPT !.state = "pending",
                              !.coordinator = QueuedCoordinator(gone, d),
                              !.required = RequiredDevices(gone, d)]
    ELSE r

ReleaseWithoutCompletion(ds, r) == [r EXCEPT !.confirmed = @ \cup (ds \cap r.required)]

\* releaseMLSRevocationConfirmations: no row waits for the devices ds.
ReleaseConfirmations(ds, r) ==
    LET released == [r EXCEPT !.confirmed = @ \cup (ds \cap r.required)]
    IN IF ds \cap (r.required \ r.confirmed) = {} THEN r ELSE Completed(released)

\* The devices ds are revoked together: each leaves every group it is in
\* through a revocation, and owes no confirmation.
RevokeAll(ds) ==
    LET gone == revoked \cup ds
    IN [d \in Devices |-> ReleaseConfirmations(ds,
            IF d \in ds THEN QueueRevocation(gone, d, revocations[d])
                        ELSE revocations[d])]

\* One mls.revocation.completed event per row that becomes completed.
Announce(rows) ==
    [d \in Devices |->
        announced[d] + IF rows[d].state = "completed" /\ revocations[d].state # "completed"
                       THEN 1 ELSE 0]

\* dropStaleMLSRevocations once the roster is ros.
DropStale(ros, rows) ==
    [d \in Devices |-> IF rows[d].state = "pending" /\ ~(ros[d].row /\ ros[d].removed = 0)
                       THEN NoRevocation ELSE rows[d]]

-----------------------------------------------------------------------------
(* Commit bundles.                                                         *)

UpdateOnly(b) == b.commit /\ b.added = {} /\ b.removed = {}

ValidBundle(b) ==
    /\ ~b.commit => b.added = {} /\ b.removed = {} /\ b.epoch = 0
    /\ b.sender \notin b.removed
    /\ b.revocation # NoDevice => b.revocation \in b.removed

\* A retained message of the sender carries the key: the answer is that
\* message again, or a conflict.
KeyUsed(s, key) == \E k \in live : log[k].sender = s /\ log[k].key = key

\* checkMLSSelfUpdate
SelfUpdateAllowed(d) ==
    /\ \A x \in Devices : ~Pending(x)
    /\ \A x \in Devices :
          Active(x) /\ Exists(x) /\ x \notin revoked => Owner[x] \in members
    /\ d \notin recent

\* A device the server itself wants out of the group.
Removable(d) == Owner[d] \notin members \/ ~Exists(d) \/ d \in revoked

\* The checks of a bundle with a commit, once the group row is there and the
\* sender is on the roster.
CommitAccepted(b) ==
    /\ UpdateOnly(b) => SelfUpdateAllowed(b.sender)
    /\ \A d \in b.added : Eligible(d) /\ ~Active(d) /\ d # b.sender
    /\ \A d \in b.removed : /\ Active(d)
                            /\ Removable(d)
                            /\ Pending(d) => d = b.revocation
    /\ b.revocation # NoDevice => CommitAllowed(b.revocation, b.sender)

\* Mutant: the epoch the commit was built on is not compared.
AcceptAnyEpoch(b) ==
    /\ ValidBundle(b)
    /\ Eligible(b.sender)
    /\ b.commit => ~KeyUsed(b.sender, b.key)
    /\ IF GroupExists
       THEN Active(b.sender) /\ b.commit
       ELSE ~UpdateOnly(b) /\ live = {} /\ b.epoch = 0 /\ b.removed = {}
    /\ b.commit => CommitAccepted(b)

\* CreateMLSCommitBundle's checks.
BundleAccepted(b) ==
    /\ ValidBundle(b)
    /\ Eligible(b.sender)
    /\ b.commit => ~KeyUsed(b.sender, b.key)
    /\ IF GroupExists
       THEN Active(b.sender) /\ b.commit /\ b.epoch = epoch
       ELSE ~UpdateOnly(b) /\ live = {} /\ b.epoch = 0 /\ b.removed = {}
    /\ b.commit => CommitAccepted(b)

\* The roster with a new group's creator on it.
WithCreator(s) ==
    IF GroupExists THEN roster
    ELSE [roster EXCEPT ![s] = [row |-> TRUE, joined |-> 0, epoch |-> 0, removed |-> 0]]

\* Mutant: the join cursor is the event before the commit.
JoinBeforeCommit(b, k, e) ==
    [d \in Devices |->
        IF d \in b.added
        THEN [row |-> TRUE, joined |-> k - 1, epoch |-> e + 1, removed |-> 0]
        ELSE IF d \in b.removed THEN [roster[d] EXCEPT !.removed = k]
        ELSE WithCreator(b.sender)[d]]

\* The roster after the commit of b is stored at position k on epoch e.
Committed(b, k, e) ==
    [d \in Devices |->
        IF d \in b.added
        THEN [row |-> TRUE, joined |-> k, epoch |-> e + 1, removed |-> 0]
        ELSE IF d \in b.removed THEN [roster[d] EXCEPT !.removed = k]
        ELSE WithCreator(b.sender)[d]]

BaseEpoch == IF GroupExists THEN epoch ELSE 0

\* The commit and its Welcomes are stored at position k.
StoreBundle(b, k) ==
    /\ log' = Append(log, [kind |-> "bundle", sender |-> b.sender, to |-> NoDevice,
                           key |-> b.key, base |-> b.epoch, added |-> b.added,
                           removed |-> b.removed, revocation |-> b.revocation])
    /\ live' = live \cup {k}

\* CreateMLSCommitBundle.
CreateMLSCommitBundle(b) ==
    LET k == Len(log) + 1
        ros == IF b.commit THEN Committed(b, k, BaseEpoch) ELSE WithCreator(b.sender)
        rows == [d \in Devices |->
                    IF b.commit /\ d = b.revocation
                    THEN CommitSubmitted(revocations[d], b.sender, k) ELSE revocations[d]]
    IN /\ BundleAccepted(b)
       /\ epoch' = IF b.commit THEN BaseEpoch + 1 ELSE 0
       /\ roster' = ros
       /\ revocations' = DropStale(ros, rows)
       /\ announced' = Announce(rows)
       /\ recent' = IF UpdateOnly(b) THEN recent \cup {b.sender} ELSE recent
       /\ IF b.commit THEN StoreBundle(b, k) ELSE UNCHANGED <<log, live>>
       /\ UNCHANGED <<members, enrolled, revoked, old, churn>>

-----------------------------------------------------------------------------
(* Single messages, confirmations, revocations.                            *)

\* CreateMLSMessage: a message outside a bundle, which only a conversation
\* without a roster takes.
CreateMLSMessage(s, kind, to, d, key) ==
    LET k == Len(log) + 1
        rows == [x \in Devices |-> IF x = d THEN CommitSubmitted(revocations[x], s, k)
                                            ELSE revocations[x]]
    IN /\ ~GroupExists
       /\ kind = "welcome" => to # NoDevice /\ d = NoDevice
       /\ to # s
       /\ d # NoDevice => to = NoDevice
       /\ Eligible(s)
       /\ ~KeyUsed(s, key)
       /\ d # NoDevice => CommitAllowed(d, s)
       /\ to # NoDevice => Eligible(to)
       /\ log' = Append(log, [kind |-> kind, sender |-> s, to |-> to, key |-> key,
                              base |-> 0, added |-> {}, removed |-> {}, revocation |-> d])
       /\ live' = live \cup {k}
       /\ revocations' = rows
       /\ announced' = Announce(rows)
       /\ UNCHANGED <<members, enrolled, revoked, epoch, roster, old, recent, churn>>

\* ConfirmMLSRevocation by x.
ConfirmMLSRevocation(d, x) ==
    LET row == [revocations[d] EXCEPT !.confirmed = @ \cup {x}]
        rows == [revocations EXCEPT ![d] = Completed(row)]
    IN /\ revocations[d].state = "commit_submitted"
       /\ x \in revocations[d].required \ revocations[d].confirmed
       /\ Owner[x] \in members
       /\ revocations' = rows
       /\ announced' = Announce(rows)
       /\ UNCHANGED <<members, enrolled, revoked, epoch, roster, log, live, old,
                      recent, churn>>

\* revokeDeviceTx with the device.revoked event, as every caller asks for it.
\* Revoking a revoked device again queues what is not queued yet.
RevokeDevice(d) ==
    /\ Exists(d)
    /\ d \in revoked \/ Cardinality(revoked) < MaxRevoked
    /\ revoked' = revoked \cup {d}
    /\ revocations' = RevokeAll({d})
    /\ announced' = Announce(RevokeAll({d}))
    /\ UNCHANGED <<members, enrolled, epoch, roster, log, live, old, recent, churn>>

\* DeleteAccountData: the account's devices are revoked together, and only
\* then it leaves the conversation.
DeleteAccount(a) ==
    LET ds == {d \in Devices : Owner[d] = a /\ Exists(d)}
    IN /\ Cardinality(revoked \cup ds) <= MaxRevoked
       /\ revoked' = revoked \cup ds
       /\ revocations' = RevokeAll(ds)
       /\ announced' = Announce(RevokeAll(ds))
       /\ members' = members \ {a}
       /\ UNCHANGED <<enrolled, epoch, roster, log, live, old, recent, churn>>

-----------------------------------------------------------------------------
(* What the rest of the server does to this state.                         *)

\* A membership row appears or goes (AddConversationMember,
\* RemoveConversationMember, ...): the roster follows by a later commit.
Join(a) ==
    /\ a \notin members /\ churn < MaxChurn
    /\ \E d \in Devices : Owner[d] = a /\ Exists(d) /\ d \notin revoked
    /\ members' = members \cup {a}
    /\ churn' = churn + 1
    /\ UNCHANGED <<enrolled, revoked, epoch, roster, log, live, old, revocations,
                   announced, recent>>

Leave(a) ==
    /\ a \in members /\ churn < MaxChurn
    /\ members' = members \ {a}
    /\ churn' = churn + 1
    /\ UNCHANGED <<enrolled, revoked, epoch, roster, log, live, old, revocations,
                   announced, recent>>

\* An account's new device (login, device link or recovery).
Enroll(d) ==
    /\ ~Exists(d)
    /\ enrolled' = [enrolled EXCEPT ![d] = Len(log)]
    /\ UNCHANGED <<members, revoked, epoch, roster, log, live, old, revocations,
                   announced, recent, churn>>

\* Limits.MLSSelfUpdateMinutes pass.
IntervalEnds(d) ==
    /\ d \in recent
    /\ recent' = recent \ {d}
    /\ UNCHANGED <<members, enrolled, revoked, epoch, roster, log, live, old,
                   revocations, announced, churn>>

\* Events get older than the retention period.
Age ==
    /\ MayPrune /\ old < Len(log)
    /\ old' = old + 1
    /\ UNCHANGED <<members, enrolled, revoked, epoch, roster, log, live,
                   revocations, announced, recent, churn>>

\* The messages commit_message_id references: deleting such a row's event
\* fails on the foreign key, and the whole statement with it.
Referenced == {revocations[d].commit : d \in Devices}

\* PruneSyncEvents: deletes the events older than the cutoff, and by cascade
\* their messages.
PruneSyncEvents ==
    LET batch == {k \in live : k <= old}
    IN /\ batch # {}
       /\ batch \cap Referenced = {}
       /\ live' = live \ batch
       /\ UNCHANGED <<members, enrolled, revoked, epoch, roster, log, old,
                      revocations, announced, recent, churn>>

-----------------------------------------------------------------------------
(* Reads.                                                                  *)

\* ListMLSPendingChangesRead: the devices the group should add and remove.
\* Its caps (256 per group, 2000 in all) are beyond the instances.
PendingAdd == {d \in Devices : Eligible(d) /\ ~Active(d)}
\* Mutant: revoked devices are listed as well.
RemoveRevokedToo == {d \in Devices : Active(d) /\ (d \in revoked \/ Owner[d] \notin members)}
PendingRemove == {d \in Devices : Active(d) /\ d \notin revoked /\ Owner[d] \notin members}

\* mlsJoinFilterMessage: message k is served to device d.
Visible(d, k) ==
    GroupExists => /\ roster[d].row
                   /\ k > roster[d].joined
                   /\ roster[d].removed = 0 \/ k <= roster[d].removed

-----------------------------------------------------------------------------

Init ==
    /\ members = Founders
    /\ enrolled = [d \in Devices |-> IF d \in Enrolled THEN 0 ELSE Never]
    /\ revoked = {}
    /\ epoch = NoGroup
    /\ roster = [d \in Devices |-> NoRow]
    /\ log = <<>>
    /\ live = {}
    /\ old = 0
    /\ revocations = [d \in Devices |-> NoRevocation]
    /\ announced = [d \in Devices |-> 0]
    /\ recent = {}
    /\ churn = 0

\* The keys a device may send: a new one, or one it sent before.
RequestKeys(s) == {Len(log) + 1} \cup {log[k].key : k \in {j \in DOMAIN log : log[j].sender = s}}

\* Revocation commits are bounded by the devices revoked.
MayAppend(d) == d # NoDevice \/ Len(log) < MaxLog

\* Any bundle of a device that may send one at all; the requests left out are
\* the ones BundleAccepted refuses whatever the state.
SendBundle ==
    \E s \in {x \in Devices : Rostered /\ Eligible(x)} : \E key \in RequestKeys(s) :
    \E added \in SUBSET (Devices \ {s}) : \E removed \in SUBSET (Devices \ (added \cup {s})) :
    \E d \in removed \cup {NoDevice}, commit \in {TRUE, added \cup removed # {}} :
        /\ commit => MayAppend(d)
        /\ \E e \in 0..BaseEpoch :
              CreateMLSCommitBundle([sender |-> s, key |-> key, epoch |-> e, commit |-> commit,
                                     added |-> added, removed |-> removed, revocation |-> d])

SendMessage ==
    \E s \in {x \in Devices : Legacy /\ Eligible(x)} : \E key \in RequestKeys(s) :
    \E d \in {x \in Devices \cup {NoDevice} : MayAppend(x)},
       to \in Devices \cup {NoDevice}, kind \in {"commit", "welcome"} :
        CreateMLSMessage(s, kind, to, d, key)

Next ==
    \/ SendBundle
    \/ SendMessage
    \/ \E d, x \in Devices : ConfirmMLSRevocation(d, x)
    \/ \E d \in Devices : RevokeDevice(d)
    \/ \E a \in Accounts : DeleteAccount(a)
    \/ \E a \in Accounts : Join(a)
    \/ \E a \in Accounts : Leave(a)
    \/ \E d \in Devices : Enroll(d)
    \/ \E d \in Devices : IntervalEnds(d)
    \/ Age
    \/ PruneSyncEvents

Spec == Init /\ [][Next]_vars

-----------------------------------------------------------------------------
(* Properties.                                                             *)

TypeOK ==
    /\ members \subseteq Accounts
    /\ enrolled \in [Devices -> Nat \cup {Never}]
    /\ revoked \subseteq Devices
    /\ epoch \in Nat \cup {NoGroup}
    /\ roster \in [Devices -> RosterRow]
    /\ log \in Seq(Message)
    /\ live \subseteq DOMAIN log
    /\ old \in Nat
    /\ revocations \in [Devices -> Revocation]
    /\ announced \in [Devices -> Nat]
    /\ recent \subseteq Devices
    /\ churn \in Nat

Bundles == {k \in DOMAIN log : log[k].kind = "bundle"}

\* What a device that replays the bundles knows: the creator sent the first
\* one; a device's last join, and the bundles that removed it since.
Joined(d) == {k \in Bundles : d \in log[k].added}
LastJoin(d) == Max(Joined(d) \cup {0})
RemovedSince(d) == {k \in Bundles : k > LastJoin(d) /\ d \in log[k].removed}

\* The roster windows serve every device exactly the commits it can process:
\* those accepted while it was in the group since its last join, the commit
\* that removed it included and the one that added it excluded
\* (mls_group_store.go:363-376, 789-795).
WindowsMatchCommits ==
    \A d \in Devices, k \in Bundles :
        Visible(d, k) <=>
            /\ Joined(d) # {} \/ d = log[Min(Bundles)].sender
            /\ k > LastJoin(d)
            /\ \A j \in RemovedSince(d) : k <= j

\* In a rostered group the pending revocations are the revoked leaves: none is
\* left behind by a bundle that removed the device otherwise, and while anyone
\* else can still commit no revoked device keeps its leaf unnoticed
\* (identity_store.go:681-733, mls_group_store.go:307-325,
\* mls_revocation_store.go:80-95).
RevocationsMatchLeaves ==
    GroupExists =>
        \A d \in Devices :
            /\ Pending(d) => Active(d) /\ d \in revoked
            /\ Active(d) /\ d \in revoked /\ (\E x \in Devices : Active(x) /\ x \notin revoked) => Pending(d)

\* The removal bundle of a coordinator, built on the current epoch.
RemovalOf(d, x) ==
    [sender |-> x, key |-> Len(log) + 1, epoch |-> epoch, commit |-> TRUE,
     added |-> {}, removed |-> {d}, revocation |-> d]

\* Whatever changes a group device is told are pending, its bundle making
\* them on the current epoch is accepted (mls_group_store.go:541-643).
ReconcileBundle(x) ==
    [sender |-> x, key |-> Len(log) + 1, epoch |-> epoch, commit |-> TRUE,
     added |-> PendingAdd, removed |-> PendingRemove, revocation |-> NoDevice]
PendingChangesAreAccepted ==
    GroupExists /\ PendingAdd \cup PendingRemove # {} =>
        \A x \in Devices : Eligible(x) /\ Active(x) => BundleAccepted(ReconcileBundle(x))

\* A revocation is reported completed once, only after every device that had
\* to confirm it did or was released, and then the device has no leaf
\* (mls_message_store.go:220-252, docs/security-review.md:51).
CompletedMeansRemoved ==
    \A d \in Devices :
        /\ announced[d] = IF revocations[d].state = "completed" THEN 1 ELSE 0
        /\ revocations[d].state = "completed" =>
              revocations[d].required \subseteq revocations[d].confirmed
        /\ GroupExists /\ revocations[d].state \in {"commit_submitted", "completed"} => ~Active(d)

\* The group's history as its devices replay it, and its devices.
History ==
    [k \in Bundles |-> [sender |-> log[k].sender, base |-> log[k].base,
                        added |-> log[k].added, removed |-> log[k].removed]]
Leaves == {d \in Devices : Active(d)}

Order == INSTANCE MlsOrder WITH history <- History, group <- Leaves

\* The server keeps the promise of MlsOrder: the accepted bundles are one
\* sequence of commits by devices then in the group, and the roster is what
\* they declare (mls_group_store.go:139-412).
KeepsOrder == Order!Spec

-----------------------------------------------------------------------------
(* Liveness.  Clients retry: on every sync pass a device lists the         *)
(* revocations it has to act on (ListMLSRevocations) and commits or        *)
(* confirms them.  The sweeper runs every six hours.                       *)

CoordinatorCommits(d) == CreateMLSCommitBundle(RemovalOf(d, Coordinator(d)))

Fairness ==
    /\ \A d \in Devices : WF_vars(Pending(d) /\ Coordinator(d) # NoDevice /\ CoordinatorCommits(d))
    /\ \A d, x \in Devices : WF_vars(ConfirmMLSRevocation(d, x))
    /\ WF_vars(Age)
    /\ WF_vars(PruneSyncEvents)

FairSpec == Spec /\ Fairness

\* A revocation of a rostered group ends: it completes, unless no device is
\* left to commit it or it waits for a device whose account has left
\* (mls_revocation_store.go:61-69, 97-101).
RevocationEnds ==
    \A d \in Devices :
        (GroupExists /\ Pending(d)) ~>
            \/ revocations[d].state = "completed"
            \/ Pending(d) /\ Coordinator(d) = NoDevice
            \/ /\ revocations[d].state = "commit_submitted"
               /\ \E x \in revocations[d].required \ revocations[d].confirmed :
                     Owner[x] \notin members

\* The sweeper deletes every event once it is older than the retention
\* period, so the table does not grow without bound (message_store.go:856-858).
OldEventsArePruned == \A k \in 1..MaxLog : (k \in DOMAIN log) ~> (k \notin live)

=============================================================================
