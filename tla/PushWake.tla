------------------------------ MODULE PushWake ------------------------------
(***************************************************************************)
(* The push-wake queue of one provider: the jobs a message leaves for the  *)
(* recipient's subscriptions, the worker that claims, refreshes, sends and *)
(* settles them, and what the recipient, the provider and a crash do       *)
(* meanwhile.  One recipient account, one sender, one conversation.        *)
(*                                                                         *)
(* Times are kept as what the code compares them with: a job is due or     *)
(* not, its lease has lapsed or not, it has expired or not.                *)
(***************************************************************************)
EXTENDS Integers, FiniteSets, Functions

CONSTANTS
    Events,       \* sync events of messages the sender posts
    SubIds,       \* ids of subscription rows
    Devices,      \* the recipient's devices
    Creds,        \* endpoint and keys a registration may carry
    BatchLimit,   \* pushWakeBatchSize
    MinCount,     \* rejectedTargetMinCount
    MaxTracked,   \* maxTrackedRejectedTargets
    MaxChanges,   \* bound: changes the recipient makes
    MaxFaults,    \* bound: crashes and failed writes
    MayExpire     \* whether a job can outlive its day

ASSUME PushWakeConstants ==
    /\ {BatchLimit, MinCount, MaxTracked} \subseteq Nat \ {0}
    /\ {MaxChanges, MaxFaults} \subseteq Nat
    /\ MayExpire \in BOOLEAN

VARIABLES
    subs,        \* push_subscriptions: id -> row
    member, blocked, muted, revoked,   \* the recipient's side of eligibility
    jobs,        \* push_wake_jobs: wake -> row
    batch,       \* the tasks of the drain in progress, in memory
    tracker,     \* rejectedTargets.byID, in memory
    direct,      \* a self-test or recovery wake in flight, in memory
    posted,      \* the events posted so far
    changes, faults,
    queued, settled, accepted, repeated, refusals, condemned   \* history

recipient == <<subs, member, blocked, muted, revoked, changes>>
history == <<queued, settled, accepted, repeated, refusals, condemned>>
vars == <<recipient, jobs, batch, tracker, direct, posted, faults, history>>

-----------------------------------------------------------------------------
(* Rows and tasks.                                                         *)

Wakes == Events \X SubIds

Tokens == 1..(Cardinality(Wakes) + 1)

Sub == [device : Devices, cred : Creds, silent : BOOLEAN,
        disabled : {"no", "user", "provider"}]

Job == [lease : {0} \cup Tokens, lapsed : BOOLEAN, due : BOOLEAN, expired : BOOLEAN]

Task == [wake : Wakes, token : Tokens, cred : Creds,
         at : {"queued", "sending", "accepted", "drop", "retire", "retry"}]

Strike == [count : 1..MinCount, aged : BOOLEAN]

Target == [sub : SubIds, cred : Creds, at : {"sending", "disable"}]

(* The tracker and the job table are maps whose keys come and go. *)
Without(f, S) == Restrict(f, DOMAIN f \ S)
With(f, k, v) == [i \in DOMAIN f \cup {k} |-> IF i = k THEN v ELSE f[i]]

Enabled(s) == s \in DOMAIN subs /\ subs[s].disabled = "no"

Eligible(s) ==
    /\ member
    /\ subs[s].device \notin revoked
    /\ ~blocked
    /\ subs[s].silent \/ ~muted

Sendable(w) == Eligible(w[2]) /\ Enabled(w[2])

(* The jobs that have a reason not to be sent in the current state. *)
Hopeless == {w \in DOMAIN jobs : jobs[w].expired \/ ~Sendable(w)}

Init ==
    /\ subs = <<>>
    /\ member = TRUE /\ blocked = FALSE /\ muted = FALSE /\ revoked = {}
    /\ jobs = <<>> /\ batch = {} /\ tracker = <<>> /\ direct = {}
    /\ posted = {} /\ changes = 0 /\ faults = 0
    /\ queued = {} /\ settled = {} /\ accepted = {} /\ repeated = {}
    /\ refusals = [s \in SubIds |-> 0]
    /\ condemned = {}

-----------------------------------------------------------------------------
(* The recipient.                                                          *)

Change == changes < MaxChanges /\ changes' = changes + 1

ActiveSub(d) == {s \in DOMAIN subs : subs[s].device = d /\ Enabled(s)}

(* Registering again keeps the row's id and replaces what it holds. *)
CreatePushSubscription(d, cred, silent) ==
    LET row == [device |-> d, cred |-> cred, silent |-> silent, disabled |-> "no"]
    IN  /\ Change
        /\ d \notin revoked
        /\ \E s \in IF ActiveSub(d) # {} THEN ActiveSub(d) ELSE SubIds \ DOMAIN subs :
              subs' = With(subs, s, row)
        /\ UNCHANGED <<member, blocked, muted, revoked, jobs, batch, tracker,
                       direct, posted, faults, history>>

Disable(S, by) ==
    subs' = [s \in DOMAIN subs |->
               IF s \in S /\ Enabled(s) THEN [subs[s] EXCEPT !.disabled = by] ELSE subs[s]]

(* The device unsubscribes, or registers with another provider. *)
DisablePushSubscription(s) ==
    /\ Change /\ Enabled(s)
    /\ Disable({s}, "user")
    /\ UNCHANGED <<member, blocked, muted, revoked, jobs, batch, tracker,
                   direct, posted, faults, history>>

SuspendAccount ==
    /\ Change
    /\ Disable(DOMAIN subs, "user")
    /\ UNCHANGED <<member, blocked, muted, revoked, jobs, batch, tracker,
                   direct, posted, faults, history>>

(* Joins and leaves, blocks and unblocks, mutes and unmutes, revokes. *)
ChangeEligibility ==
    /\ Change
    /\ \/ member' = ~member /\ UNCHANGED <<blocked, muted, revoked>>
       \/ blocked' = ~blocked /\ UNCHANGED <<member, muted, revoked>>
       \/ muted' = ~muted /\ UNCHANGED <<member, blocked, revoked>>
       \/ /\ \E d \in Devices \ revoked : revoked' = revoked \cup {d}
          /\ UNCHANGED <<member, blocked, muted>>
    /\ UNCHANGED <<subs, jobs, batch, tracker, direct, posted, faults, history>>

(* saveMessageEnvelope enqueues in the transaction of the message. *)
EnqueuePushWakeJobs(e) ==
    LET woken == {<<e, s>> : s \in {s \in DOMAIN subs : Eligible(s) /\ Enabled(s)}}
        fresh == [lease |-> 0, lapsed |-> FALSE, due |-> TRUE, expired |-> FALSE]
    IN  /\ e \notin posted
        /\ posted' = posted \cup {e}
        /\ jobs' = [w \in DOMAIN jobs \cup woken |-> IF w \in woken THEN fresh ELSE jobs[w]]
        /\ queued' = queued \cup woken
        /\ UNCHANGED <<recipient, batch, tracker, direct, faults,
                       settled, accepted, repeated, refusals, condemned>>

-----------------------------------------------------------------------------
(* Time.                                                                   *)

LeaseLapses(w) ==
    /\ w \in DOMAIN jobs /\ jobs[w].lease # 0 /\ ~jobs[w].lapsed
    /\ jobs' = [jobs EXCEPT ![w].lapsed = TRUE]
    /\ UNCHANGED <<recipient, batch, tracker, direct, posted, faults, history>>

BackoffEnds(w) ==
    /\ w \in DOMAIN jobs /\ ~jobs[w].due
    /\ jobs' = [jobs EXCEPT ![w].due = TRUE]
    /\ UNCHANGED <<recipient, batch, tracker, direct, posted, faults, history>>

Expires(w) ==
    /\ MayExpire
    /\ w \in DOMAIN jobs /\ ~jobs[w].expired
    /\ jobs' = [jobs EXCEPT ![w].expired = TRUE]
    /\ UNCHANGED <<recipient, batch, tracker, direct, posted, faults, history>>

ADayPasses(s) ==
    /\ s \in DOMAIN tracker /\ ~tracker[s].aged
    /\ tracker' = [tracker EXCEPT ![s].aged = TRUE]
    /\ UNCHANGED <<recipient, jobs, batch, direct, posted, faults, history>>

-----------------------------------------------------------------------------
(* The worker.                                                             *)

(* At most BatchLimit rows of S, in an order the properties do not depend on. *)
Limited(S) == {T \in SUBSET S : Cardinality(T) = IF Cardinality(S) < BatchLimit
                                                 THEN Cardinality(S) ELSE BatchLimit}

(* The first statement's rows: could have been sent and were not. *)
Abandoned == {w \in DOMAIN jobs : jobs[w].expired /\ Eligible(w[2])}

Ineligible == {w \in DOMAIN jobs : ~Eligible(w[2])}

Disabled == {w \in DOMAIN jobs : ~Enabled(w[2])}

(* mutant: a lease outlives the process that took it *)
ClaimUnleased(w) ==
    /\ Sendable(w) /\ ~jobs[w].expired /\ jobs[w].due
    /\ jobs[w].lease = 0

Claimable(w) ==
    /\ Sendable(w) /\ ~jobs[w].expired /\ jobs[w].due
    /\ jobs[w].lease = 0 \/ jobs[w].lapsed

(* A token no row and no task carries. *)
NewToken == CHOOSE t \in Tokens : \A w \in DOMAIN jobs : jobs[w].lease # t

(* A drain waits for all its tasks before the next one claims. *)
DrainIdle == batch = {}

(* One transaction of three deletions and a lease. *)
ClaimPushWakeJobs ==
    /\ DrainIdle
    /\ \E A \in Limited(Abandoned), B \in Limited(Ineligible) :
       \E C \in Limited(Disabled \ (A \cup B)) :
         LET left == DOMAIN jobs \ (A \cup B \cup C)
         IN  \E L \in Limited({w \in left : Claimable(w)}) :
               /\ A \cup B \cup C \cup L # {}
               /\ jobs' = [w \in left |-> IF w \in L
                             THEN [jobs[w] EXCEPT !.lease = NewToken, !.lapsed = FALSE]
                             ELSE jobs[w]]
               /\ batch' = batch \cup
                     {[wake |-> w, token |-> NewToken, cred |-> subs[w[2]].cred,
                       at |-> "queued"] : w \in L}
    /\ settled' = settled \cup Hopeless
    /\ UNCHANGED <<recipient, tracker, direct, posted, faults,
                   queued, accepted, repeated, refusals, condemned>>

Moved(t, at) == batch' = (batch \ {t}) \cup {[t EXCEPT !.at = at]}
Done(t) == batch' = batch \ {t}

(* The row the task's statements match: its wake under its own token. *)
HeldBy(t) == t.wake \in DOMAIN jobs /\ jobs[t.wake].lease = t.token

Refreshed(t) == HeldBy(t) /\ ~jobs[t.wake].expired /\ Sendable(t.wake)

RefreshPushWakeJob(t) ==
    /\ t.at = "queued"
    /\ IF Refreshed(t)
       THEN batch' = (batch \ {t}) \cup {[t EXCEPT !.at = "sending", !.cred = subs[t.wake[2]].cred]}
       ELSE Moved(t, "drop")
    /\ settled' = settled \cup Hopeless
    /\ UNCHANGED <<recipient, jobs, tracker, direct, posted, faults,
                   queued, accepted, repeated, refusals, condemned>>

Fault == faults < MaxFaults /\ faults' = faults + 1

(* mutant: a job whose refresh fails is dropped *)
RefreshFailureDrops(t) ==
    /\ Fault /\ t.at = "queued"
    /\ Moved(t, "drop")
    /\ UNCHANGED <<recipient, jobs, tracker, direct, posted, history>>

RefreshFails(t) ==
    /\ Fault /\ t.at = "queued"
    /\ Moved(t, "retry")
    /\ UNCHANGED <<recipient, jobs, tracker, direct, posted, history>>

Accept(t) ==
    /\ accepted' = accepted \cup {t.wake}
    /\ repeated' = IF t.wake \in accepted THEN repeated \cup {t.wake} ELSE repeated
    /\ settled' = settled \cup {t.wake}

ClearRejections(s) == tracker' = Without(tracker, {s})

SendAccepted(t) ==
    /\ t.at = "sending"
    /\ Moved(t, "accepted")
    /\ Accept(t)
    /\ ClearRejections(t.wake[2])
    /\ refusals' = [refusals EXCEPT ![t.wake[2]] = 0]
    /\ UNCHANGED <<recipient, jobs, direct, posted, faults, queued, condemned>>

(* note: the count is per subscription, whatever it registered since. *)
NoteRejection(s) ==
    LET known == s \in DOMAIN tracker
        full == Cardinality(DOMAIN tracker) >= MaxTracked
        entry == IF known THEN tracker[s] ELSE [count |-> 0, aged |-> FALSE]
        count == IF entry.count < MinCount THEN entry.count + 1 ELSE MinCount
        dead == count >= MinCount /\ entry.aged
    IN  [retire |-> dead,
         trackers |->
            {IF dead THEN Without(tracker, {s})
             ELSE With(Without(tracker, gone), s, [count |-> count, aged |-> entry.aged]) :
               gone \in IF ~known /\ full THEN {{x} : x \in DOMAIN tracker} ELSE {{}}}]

SendRejected(t) ==
    LET s == t.wake[2]
        n == refusals[s] + 1
        noted == NoteRejection(s)
    IN  /\ t.at = "sending"
        /\ tracker' \in noted.trackers
        /\ Moved(t, IF noted.retire THEN "retire" ELSE "drop")
        /\ refusals' = [refusals EXCEPT ![s] = IF n > MinCount THEN MinCount ELSE n]
        /\ condemned' = IF n >= MinCount THEN condemned \cup {<<s, t.cred>>} ELSE condemned
        /\ settled' = settled \cup {t.wake}
        /\ UNCHANGED <<recipient, jobs, direct, posted, faults, queued, accepted, repeated>>

SendGone(t) ==
    /\ t.at = "sending"
    /\ Moved(t, "retire")
    /\ condemned' = condemned \cup {<<t.wake[2], t.cred>>}
    /\ UNCHANGED <<recipient, jobs, tracker, direct, posted, faults,
                   queued, settled, accepted, repeated, refusals>>

(* The provider fails, or answers after sendTimeout: it may have accepted. *)
SendFails(t) ==
    /\ t.at = "sending"
    /\ Moved(t, "retry")
    /\ \/ UNCHANGED <<faults, history>>
       \/ /\ Fault /\ Accept(t)
          /\ UNCHANGED <<queued, refusals, condemned>>
    /\ UNCHANGED <<recipient, jobs, tracker, direct, posted>>

(* mutant: completing needs a lease that has not lapsed *)
DeleteUnderLease(t) ==
    jobs' = IF HeldBy(t) /\ ~jobs[t.wake].lapsed THEN Without(jobs, {t.wake}) ELSE jobs

DeleteHeld(t) == jobs' = IF HeldBy(t) THEN Without(jobs, {t.wake}) ELSE jobs

CompletePushWakeJob(t) ==
    /\ t.at = "accepted"
    /\ DeleteHeld(t) /\ Done(t)
    /\ UNCHANGED <<recipient, tracker, direct, posted, faults, history>>

DropPushWakeJob(t) ==
    /\ t.at = "drop"
    /\ DeleteHeld(t) /\ Done(t)
    /\ UNCHANGED <<recipient, tracker, direct, posted, faults, history>>

RetryPushWakeJob(t) ==
    /\ t.at = "retry"
    /\ jobs' = IF HeldBy(t) /\ ~jobs[t.wake].expired
               THEN [jobs EXCEPT ![t.wake].lease = 0, ![t.wake].lapsed = FALSE,
                                 ![t.wake].due = FALSE]
               ELSE jobs
    /\ Done(t)
    /\ UNCHANGED <<recipient, tracker, direct, posted, faults, history>>

(* mutant: the registration is not compared *)
AnyTarget(s, cred) == s \in DOMAIN subs

SameTarget(s, cred) == s \in DOMAIN subs /\ subs[s].cred = cred

(* A refreshed registration is kept and the job is due again at once. *)
RetirePushWakeSubscription(t) ==
    LET s == t.wake[2]
        ofSub == {w \in DOMAIN jobs : w[2] = s}
    IN  /\ t.at = "retire"
        /\ IF SameTarget(s, t.cred)
           THEN /\ Disable({s}, "provider")
                /\ jobs' = Without(jobs, ofSub)
                /\ settled' = settled \cup Hopeless
                        \cup {w \in ofSub : <<s, subs[s].cred>> \in condemned}
           ELSE /\ jobs' = IF HeldBy(t)
                           THEN [jobs EXCEPT ![t.wake].lease = 0, ![t.wake].lapsed = FALSE]
                           ELSE jobs
                /\ UNCHANGED <<subs, settled>>
        /\ Done(t)
        /\ UNCHANGED <<member, blocked, muted, revoked, changes, tracker, direct,
                       posted, faults, queued, accepted, repeated, refusals, condemned>>

(* Any of these statements may fail: the job stays under its lease. *)
WriteFails(t) ==
    /\ Fault /\ t.at \notin {"queued", "sending"}
    /\ Done(t)
    /\ UNCHANGED <<recipient, jobs, tracker, direct, posted, history>>

(* Everything in memory is lost; the rows stay. *)
Crash ==
    /\ Fault
    /\ batch' = {} /\ tracker' = <<>> /\ direct' = {}
    /\ UNCHANGED <<recipient, jobs, posted, history>>

-----------------------------------------------------------------------------
(* The self-test and the recovery wake send outside the queue.             *)

DirectSend(s) ==
    /\ direct = {}
    /\ Enabled(s) /\ subs[s].device \notin revoked
    /\ direct' = {[sub |-> s, cred |-> subs[s].cred, at |-> "sending"]}
    /\ UNCHANGED <<recipient, jobs, batch, tracker, posted, faults, history>>

DirectEnds(g) ==
    /\ g.at = "sending"
    /\ \/ direct' = {} /\ UNCHANGED condemned
       \/ /\ direct' = {[g EXCEPT !.at = "disable"]}
          /\ condemned' = condemned \cup {<<g.sub, g.cred>>}
    /\ UNCHANGED <<recipient, jobs, batch, tracker, posted, faults,
                   queued, settled, accepted, repeated, refusals>>

DisablePushTarget(g) ==
    /\ g.at = "disable"
    /\ direct' = {}
    /\ IF SameTarget(g.sub, g.cred) THEN Disable({g.sub}, "provider") ELSE UNCHANGED subs
    /\ UNCHANGED <<member, blocked, muted, revoked, changes, jobs, batch, tracker,
                   posted, faults, history>>

-----------------------------------------------------------------------------
Settle(t) ==
    \/ CompletePushWakeJob(t) \/ DropPushWakeJob(t)
    \/ RetryPushWakeJob(t) \/ RetirePushWakeSubscription(t)

Answer(t) == SendAccepted(t) \/ SendRejected(t) \/ SendGone(t) \/ SendFails(t)

Passes(w) == LeaseLapses(w) \/ BackoffEnds(w)

Next ==
    \/ \E d \in Devices, cred \in Creds, silent \in BOOLEAN :
          CreatePushSubscription(d, cred, silent)
    \/ \E s \in SubIds : DisablePushSubscription(s) \/ ADayPasses(s) \/ DirectSend(s)
    \/ SuspendAccount \/ ChangeEligibility
    \/ \E e \in Events : EnqueuePushWakeJobs(e)
    \/ \E w \in Wakes : Passes(w) \/ Expires(w)
    \/ ClaimPushWakeJobs
    \/ \E t \in batch : RefreshPushWakeJob(t) \/ RefreshFails(t) \/ Answer(t)
                        \/ Settle(t) \/ WriteFails(t)
    \/ Crash
    \/ \E g \in direct : DirectEnds(g) \/ DisablePushTarget(g)

Spec == Init /\ [][Next]_vars

(* The drain loop never stops, sends and statements have timeouts, leases   *)
(* and backoffs end; the provider is not down for ever: a wake tried again  *)
(* and again is in the end accepted.  That a job outlives its day is never  *)
(* needed.                                                                  *)
FairSpec ==
    /\ Spec
    /\ WF_vars(ClaimPushWakeJobs)
    /\ WF_vars(\E t \in batch : RefreshPushWakeJob(t))
    /\ WF_vars(\E t \in batch : Answer(t))
    /\ WF_vars(\E t \in batch : Settle(t))
    /\ \A w \in Wakes :
         /\ WF_vars(LeaseLapses(w)) /\ WF_vars(BackoffEnds(w))
         /\ SF_vars(\E t \in batch : t.wake = w /\ SendAccepted(t))

-----------------------------------------------------------------------------
(* Properties.                                                             *)

(* The rows, the tasks and the history have their types. *)
TypeOK ==
    /\ DOMAIN subs \subseteq SubIds /\ \A s \in DOMAIN subs : subs[s] \in Sub
    /\ {member, blocked, muted} \subseteq BOOLEAN /\ revoked \subseteq Devices
    /\ DOMAIN jobs \subseteq Wakes /\ \A w \in DOMAIN jobs : jobs[w] \in Job
    /\ batch \subseteq Task /\ direct \subseteq Target
    /\ DOMAIN tracker \subseteq SubIds /\ \A s \in DOMAIN tracker : tracker[s] \in Strike
    /\ Cardinality(DOMAIN tracker) <= MaxTracked
    /\ posted \subseteq Events /\ changes \in 0..MaxChanges /\ faults \in 0..MaxFaults
    /\ queued \cup settled \cup accepted \cup repeated \subseteq Wakes
    /\ refusals \in [SubIds -> 0..MinCount] /\ condemned \subseteq SubIds \X Creds

(* No wake is lost: a job leaves the queue only after the provider took or  *)
(* refused its wake, after its day, or when it could not be sent, whatever  *)
(* crashes, failed writes, re-registrations and changes of eligibility come *)
(* between the claim, the refresh, the send and the deletion.               *)
NoLostWake == \A w \in queued : w \in DOMAIN jobs \/ w \in settled

(* A subscription is disabled for the provider's answer only while it holds *)
(* the registration that answer was about: the provider called that target  *)
(* gone, or refused it as the last of MinCount refusals without a success.  *)
(* A late answer about an old registration never disables a refreshed one.  *)
RetiredMeansRefused ==
    \A s \in DOMAIN subs :
        subs[s].disabled = "provider" => <<s, subs[s].cred>> \in condemned

(* A wake reaches the provider a second time only after a crash, a failed   *)
(* statement or an answer that came too late, never because a lease lapsed  *)
(* while its own task was still sending.                                    *)
NoRepeatWithoutFault == faults = 0 => repeated = {}

(* Every queued wake is settled in the end: taken, refused, or given up for *)
(* a reason.  Leases left by a crash lapse and are claimed again.           *)
EveryWakeSettles == \A w \in Wakes : w \in queued ~> w \in settled

=============================================================================
