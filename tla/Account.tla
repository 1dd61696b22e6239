------------------------------ MODULE Account ------------------------------
(***************************************************************************)
(* The credentials of one account: its password hash, recovery key,        *)
(* devices, sessions and recovery requests, and the HTTP handlers that     *)
(* read some of them, check a password for a tenth of a second, and only   *)
(* then write.  A slot holds one request between two of its statements.    *)
(*                                                                         *)
(* A hash is a password, the password change that stored it (era) and      *)
(* whether it has the current Argon2 parameters (v = 1).  A wrong password *)
(* is refused by the read step and leaves nothing, so only right ones are  *)
(* enumerated.  Recent authentication only ends, which only disables       *)
(* handlers, so its five minutes need no clock.                            *)
(***************************************************************************)
EXTENDS Integers, FiniteSets

CONSTANTS
    Enrolled,     \* devices the account starts with
    Reserved,     \* devices named by recovery reservations
    Passwords,    \* positive numbers standing for passwords
    Slots,        \* requests handled at the same time
    Kinds,        \* the signed-in requests made
    MaxChanges,   \* bound: password and recovery key changes
    MaxTokens     \* bound: session tokens issued

\* Requests that ask for recent authentication.
RecentAuthKinds == {"password", "logoutAll", "revoke", "setKey", "cancel", "delete"}

ASSUME AccountConstants ==
    /\ Enrolled \cap Reserved = {}
    /\ 1 \in Passwords /\ Passwords \subseteq Nat \ {0}
    /\ Kinds \subseteq RecentAuthKinds \cup {"reauth", "logout"}
    /\ {MaxChanges, MaxTokens} \subseteq Nat

VARIABLES
    status,      \* accounts.status
    hash,        \* accounts.password_hash
    key,         \* account_recovery_keys.auth_public_key, 0 for none
    devices,     \* device -> absent, active or revoked
    sessions,    \* the rows of sessions
    requests,    \* account_recovery_requests, by the device they enrol
    consumed,    \* reservations consumed
    tasks,       \* slot -> the request it handles
    issued,      \* tokens issued so far
    changes

vars == <<status, hash, key, devices, sessions, requests, consumed, tasks, issued, changes>>

-----------------------------------------------------------------------------
(* Rows and requests in flight.                                            *)

Devices == Enrolled \cup Reserved

Hash == [pw : Passwords \cup {0}, era : 0..MaxChanges, v : {0, 1}]

Session == [token : 1..MaxTokens, prev : 0..MaxTokens, grace : BOOLEAN,
            device : Devices, recent : BOOLEAN, era : 0..MaxChanges]

Request == [state : {"none", "waiting", "completed", "cancelled", "expired"},
            ready : BOOLEAN, lapsed : BOOLEAN, hash : Hash, key : 0..(MaxChanges + 1)]

Task == [kind : RecentAuthKinds \cup {"idle", "login", "claim", "reauth", "logout"},
         at : {"read", "refused", "again", "upgrade", "store"},
         device : Devices \cup {0}, token : 0..MaxTokens, hash : Hash, key : 0..(MaxChanges + 1)]

NoHash == [pw |-> 0, era |-> 0, v |-> 1]

Idle == [kind |-> "idle", at |-> "read", device |-> 0, token |-> 0, hash |-> NoHash, key |-> 0]

NoRequest == [state |-> "none", ready |-> FALSE, lapsed |-> FALSE, hash |-> NoHash, key |-> 0]

TypeOK ==
    /\ status \in {"active", "suspended", "deleted"}
    /\ hash \in Hash
    /\ key \in 0..(MaxChanges + 1)
    /\ devices \in [Devices -> {"absent", "active", "revoked"}]
    /\ sessions \subseteq Session
    /\ requests \in [Reserved -> Request]
    /\ consumed \subseteq Reserved
    /\ tasks \in [Slots -> Task]
    /\ issued \in 0..MaxTokens
    /\ changes \in 0..MaxChanges

Init ==
    /\ status = "active"
    /\ hash = [pw |-> 1, era |-> 0, v |-> 0]
    /\ key = 1
    /\ devices = [d \in Devices |-> IF d \in Enrolled THEN "active" ELSE "absent"]
    /\ sessions = {}
    /\ requests = [d \in Reserved |-> NoRequest]
    /\ consumed = {}
    /\ tasks = [i \in Slots |-> Idle]
    /\ issued = 0
    /\ changes = 0

-----------------------------------------------------------------------------
(* What the statements look up.                                            *)

\* sessionValidity: rows that are past a lifetime have left the model.
Valid(s) == status = "active" /\ devices[s.device] = "active"

Owns(s, token) == s.token = token \/ (s.prev = token /\ s.grace)

Accepted == {n \in 1..issued : \E s \in sessions : Valid(s) /\ Owns(s, n)}

CanSignIn(d) == status = "active" /\ devices[d] = "active"

CancelWaitingRecovery ==
    [d \in Reserved |-> IF requests[d].state = "waiting"
                        THEN [requests[d] EXCEPT !.state = "cancelled"]
                        ELSE requests[d]]

Begin(i, task) == tasks[i].kind = "idle" /\ tasks' = [tasks EXCEPT ![i] = task]

Move(i, stage) == tasks' = [tasks EXCEPT ![i].at = stage]

Finish(i) == tasks' = [tasks EXCEPT ![i] = Idle]

In(i, kind, stage) == tasks[i].kind = kind /\ tasks[i].at = stage

-----------------------------------------------------------------------------
(* Login: the record and the check; the session; a second try when the     *)
(* hash moved; the rehash.                                                 *)

LoginRecord(i, d) ==
    /\ CanSignIn(d)
    /\ Begin(i, [Idle EXCEPT !.kind = "login", !.device = d, !.hash = hash])
    /\ UNCHANGED <<status, hash, key, devices, sessions, requests, consumed, issued, changes>>

\* Mutant: the insert does not look at the account's status.
LoginInsertsWhileSuspended(t) == hash = t.hash

\* Mutant: the insert does not compare the hash.
LoginInsertsAnyHash(t) == status = "active"

LoginMayInsert(t) == hash = t.hash /\ status = "active"

CreateLoginSession(i) ==
    LET t == tasks[i] IN
    /\ t.kind = "login" /\ t.at \in {"read", "again"}
    /\ issued < MaxTokens
    /\ IF LoginMayInsert(t)
       THEN /\ issued' = issued + 1
            /\ sessions' = sessions \cup
                   {[token |-> issued + 1, prev |-> 0, grace |-> FALSE, device |-> t.device,
                     recent |-> TRUE, era |-> t.hash.era]}
            /\ IF t.hash.v = 0 THEN Move(i, "upgrade") ELSE Finish(i)
       ELSE /\ IF t.at = "read" THEN Move(i, "refused") ELSE Finish(i)
            /\ UNCHANGED <<sessions, issued>>
    /\ UNCHANGED <<status, hash, key, devices, requests, consumed, changes>>

\* Mutant: no second try.
NoSecondTry(t) == FALSE

WorthRechecking(t) == CanSignIn(t.device) /\ hash # t.hash /\ hash.pw = t.hash.pw

LoginRecheck(i) ==
    /\ In(i, "login", "refused")
    /\ IF WorthRechecking(tasks[i])
       THEN tasks' = [tasks EXCEPT ![i].at = "again", ![i].hash = hash]
       ELSE Finish(i)
    /\ UNCHANGED <<status, hash, key, devices, sessions, requests, consumed, issued, changes>>

Rehashed(h) == [h EXCEPT !.v = 1]

\* Mutant: the waiting request keeps the hash it verified.
RehashAlone(old) == requests

FollowRehash(old) ==
    [d \in Reserved |-> IF requests[d].state = "waiting" /\ requests[d].hash = old
                        THEN [requests[d] EXCEPT !.hash = Rehashed(old)]
                        ELSE requests[d]]

\* The rehash, which a failure or a hash that moved skips, after a login's
\* session and before a reauthentication's.
UpgradePasswordHash(i) ==
    LET t == tasks[i] IN
    /\ t.at = "upgrade"
    /\ \/ /\ hash = t.hash /\ status # "deleted"
          /\ hash' = Rehashed(hash)
          /\ requests' = FollowRehash(hash)
       \/ UNCHANGED <<hash, requests>>
    /\ IF t.kind = "login" THEN Finish(i) ELSE Move(i, "store")
    /\ UNCHANGED <<status, key, devices, sessions, consumed, issued, changes>>

-----------------------------------------------------------------------------
(* Signed-in requests.                                                     *)

\* withAuth and withRecentAuth.  A rotated-out token has no recent authentication.
Authenticate(i, kind, n) ==
    /\ \E s \in sessions :
        /\ Valid(s) /\ Owns(s, n)
        /\ kind \in RecentAuthKinds => s.recent /\ s.token = n
        /\ Begin(i, [Idle EXCEPT !.kind = kind, !.device = s.device, !.token = n])
    /\ UNCHANGED <<status, hash, key, devices, sessions, requests, consumed, issued, changes>>

ReauthenticationRecord(i) ==
    /\ In(i, "reauth", "read")
    /\ IF CanSignIn(tasks[i].device)
       THEN tasks' = [tasks EXCEPT ![i].hash = hash,
                                   ![i].at = IF hash.v = 0 THEN "upgrade" ELSE "store"]
       ELSE Finish(i)
    /\ UNCHANGED <<status, hash, key, devices, sessions, requests, consumed, issued, changes>>

Rotated(s, presented, token) ==
    [s EXCEPT !.token = token, !.recent = TRUE,
              !.prev = IF s.token = presented THEN presented ELSE s.prev,
              !.grace = IF s.token = presented THEN TRUE ELSE s.grace]

RotateSession(i) ==
    LET presented == tasks[i].token
        row == {s \in sessions : Owns(s, presented)} IN
    /\ In(i, "reauth", "store")
    /\ issued < MaxTokens
    /\ IF row # {}
       THEN /\ sessions' = (sessions \ row) \cup {Rotated(s, presented, issued + 1) : s \in row}
            /\ issued' = issued + 1
       ELSE UNCHANGED <<sessions, issued>>
    /\ Finish(i)
    /\ UNCHANGED <<status, hash, key, devices, requests, consumed, changes>>

MarkSessionRecentlyAuthenticated(i) ==
    /\ In(i, "reauth", "store")
    /\ sessions' = {IF s.token = tasks[i].token THEN [s EXCEPT !.recent = TRUE] ELSE s : s \in sessions}
    /\ Finish(i)
    /\ UNCHANGED <<status, hash, key, devices, requests, consumed, issued, changes>>

\* changePassword refuses the password it finds stored, and hashes the new one.
HashNewPassword(i, pw) ==
    /\ In(i, "password", "read")
    /\ IF CanSignIn(tasks[i].device) /\ hash.pw # pw
       THEN tasks' = [tasks EXCEPT ![i].at = "store", ![i].hash.pw = pw]
       ELSE Finish(i)
    /\ UNCHANGED <<status, hash, key, devices, sessions, requests, consumed, issued, changes>>

\* The rows ... AND token_hash <> keep leaves, without a rotated-out token.
KeptSessions(keep) ==
    {[s EXCEPT !.prev = 0, !.grace = FALSE] : s \in {r \in sessions : r.token = keep}}

\* The hash, sessions and requests a password change leaves; the caller's own
\* row counts as authenticated with the new password.
StorePassword(pw, kept, keep) ==
    /\ changes < MaxChanges
    /\ changes' = changes + 1
    /\ hash' = [pw |-> pw, era |-> changes + 1, v |-> 1]
    /\ sessions' = {IF s.token = keep THEN [s EXCEPT !.recent = TRUE, !.era = changes + 1] ELSE s :
                    s \in kept}
    /\ requests' = CancelWaitingRecovery

ChangePassword(i) ==
    /\ In(i, "password", "store")
    /\ IF status = "deleted"
       THEN UNCHANGED <<hash, sessions, requests, changes>>
       ELSE StorePassword(tasks[i].hash.pw, KeptSessions(tasks[i].token), tasks[i].token)
    /\ Finish(i)
    /\ UNCHANGED <<status, key, devices, consumed, issued>>

\* The offline owner reset.
ResetOwnerPassword(pw) ==
    /\ status # "deleted"
    /\ StorePassword(pw, {}, 0)
    /\ UNCHANGED <<status, key, devices, consumed, tasks, issued>>

DeleteSession(i) ==
    /\ In(i, "logout", "read")
    /\ sessions' = {s \in sessions : ~Owns(s, tasks[i].token)}
    /\ Finish(i)
    /\ UNCHANGED <<status, hash, key, devices, requests, consumed, issued, changes>>

DeleteAccountSessionsExcept(i) ==
    /\ In(i, "logoutAll", "read")
    /\ sessions' = KeptSessions(tasks[i].token)
    /\ Finish(i)
    /\ UNCHANGED <<status, hash, key, devices, requests, consumed, issued, changes>>

RevokeDevice(i, d) ==
    /\ In(i, "revoke", "read")
    /\ devices[d] # "absent"
    /\ devices' = [devices EXCEPT ![d] = "revoked"]
    /\ sessions' = {s \in sessions : s.device # d}
    /\ Finish(i)
    /\ UNCHANGED <<status, hash, key, requests, consumed, issued, changes>>

SetRecoveryKey(i) ==
    /\ In(i, "setKey", "read")
    /\ changes < MaxChanges
    /\ IF status = "active"
       THEN key' = key + 1 /\ requests' = CancelWaitingRecovery /\ changes' = changes + 1
       ELSE UNCHANGED <<key, requests, changes>>
    /\ Finish(i)
    /\ UNCHANGED <<status, hash, devices, sessions, consumed, issued>>

CancelRecoveryRequest(i, d) ==
    /\ In(i, "cancel", "read")
    /\ requests' = IF requests[d].state = "waiting" THEN CancelWaitingRecovery ELSE requests
    /\ Finish(i)
    /\ UNCHANGED <<status, hash, key, devices, sessions, consumed, issued, changes>>

DeleteAccountData(i) ==
    /\ In(i, "delete", "read")
    /\ IF status = "deleted"
       THEN UNCHANGED <<status, hash, key, devices, sessions, requests>>
       ELSE /\ status' = "deleted"
            /\ hash' = [hash EXCEPT !.pw = 0, !.v = 1]
            /\ key' = 0
            /\ devices' = [d \in Devices |-> IF devices[d] = "absent" THEN "absent" ELSE "revoked"]
            /\ sessions' = {}
            /\ requests' = [d \in Reserved |-> NoRequest]
    /\ Finish(i)
    /\ UNCHANGED <<consumed, issued, changes>>

\* An administrator suspends or reactivates the account.
SetAccountStatus(to) ==
    /\ status # "deleted"
    /\ status' = to
    /\ sessions' = IF to = "suspended" THEN {} ELSE sessions
    /\ UNCHANGED <<hash, key, devices, requests, consumed, tasks, issued, changes>>

-----------------------------------------------------------------------------
(* Account recovery: the claim's record and checks, the claim, the status  *)
(* calls that complete it.                                                 *)

RecoveryClaimRecord(i, d) ==
    /\ d \notin consumed
    /\ status = "active" /\ key # 0
    /\ Begin(i, [Idle EXCEPT !.kind = "claim", !.device = d, !.hash = hash, !.key = key])
    /\ UNCHANGED <<status, hash, key, devices, sessions, requests, consumed, issued, changes>>

ClaimStillHolds(t) ==
    /\ t.device \notin consumed
    /\ status = "active" /\ hash = t.hash /\ key = t.key

\* ready_at is now, unless a device with a live session was seen lately.
ReadyAtOnce == {TRUE} \cup {FALSE : s \in {r \in sessions : devices[r.device] = "active"}}

ClaimRecovery(i) ==
    LET t == tasks[i] IN
    /\ In(i, "claim", "read")
    /\ IF ClaimStillHolds(t)
       THEN /\ consumed' = consumed \cup {t.device}
            /\ \E ready \in ReadyAtOnce :
                requests' = [CancelWaitingRecovery EXCEPT ![t.device] =
                    [state |-> "waiting", ready |-> ready, lapsed |-> FALSE,
                     hash |-> t.hash, key |-> t.key]]
       ELSE UNCHANGED <<requests, consumed>>
    /\ Finish(i)
    /\ UNCHANGED <<status, hash, key, devices, sessions, issued, changes>>

CredentialsMoved(d) == hash # requests[d].hash \/ key # requests[d].key

\* Every device in use is revoked, with its sessions, before the new one exists.
HandOver(d) ==
    /\ devices' = [e \in Devices |->
           IF e = d THEN "active" ELSE IF devices[e] = "active" THEN "revoked" ELSE devices[e]]
    /\ sessions' = {s \in sessions : devices[s.device] # "active"} \cup
           {[token |-> issued + 1, prev |-> 0, grace |-> FALSE, device |-> d,
             recent |-> FALSE, era |-> hash.era]}
    /\ issued' = issued + 1

\* Mutant: the account's status is looked at before the expiry.
StatusFirst(d) ==
    IF status # "active" \/ ~requests[d].ready THEN "waiting"
    ELSE IF requests[d].lapsed THEN "expired"
    ELSE IF CredentialsMoved(d) THEN "cancelled"
    ELSE "completed"

Outcome(d) ==
    IF requests[d].lapsed THEN "expired"
    ELSE IF ~requests[d].ready \/ status # "active" THEN "waiting"
    ELSE IF CredentialsMoved(d) THEN "cancelled"
    ELSE "completed"

\* A status call of the claimant.  A request that is over only answers.
CompleteRecovery(d) ==
    /\ requests[d].state = "waiting"
    /\ requests' = [requests EXCEPT ![d].state = Outcome(d)]
    /\ IF Outcome(d) = "completed"
       THEN issued < MaxTokens /\ HandOver(d)
       ELSE UNCHANGED <<devices, sessions, issued>>
    /\ UNCHANGED <<status, hash, key, consumed, tasks, changes>>

-----------------------------------------------------------------------------
(* Time.                                                                   *)

\* A rotated-out token's two minutes end, or the session's lifetime.
SessionAges ==
    /\ \E s \in sessions :
        \/ s.grace /\ sessions' = (sessions \ {s}) \cup {[s EXCEPT !.grace = FALSE]}
        \/ sessions' = sessions \ {s}
    /\ UNCHANGED <<status, hash, key, devices, requests, consumed, tasks, issued, changes>>

RequestAges(d) ==
    /\ requests[d].state = "waiting" /\ ~requests[d].lapsed
    /\ requests' = [requests EXCEPT ![d].ready = TRUE, ![d].lapsed = requests[d].ready]
    /\ UNCHANGED <<status, hash, key, devices, sessions, consumed, tasks, issued, changes>>

-----------------------------------------------------------------------------

SignedIn(i) ==
    \/ ReauthenticationRecord(i) \/ RotateSession(i) \/ MarkSessionRecentlyAuthenticated(i)
    \/ \E pw \in Passwords : HashNewPassword(i, pw)
    \/ ChangePassword(i)
    \/ DeleteSession(i) \/ DeleteAccountSessionsExcept(i)
    \/ \E d \in Devices : RevokeDevice(i, d)
    \/ SetRecoveryKey(i)
    \/ \E d \in Reserved : CancelRecoveryRequest(i, d)
    \/ DeleteAccountData(i)

Handle(i) ==
    \/ \E d \in Devices : LoginRecord(i, d)
    \/ CreateLoginSession(i) \/ LoginRecheck(i) \/ UpgradePasswordHash(i)
    \/ \E kind \in Kinds, n \in 1..issued : Authenticate(i, kind, n)
    \/ SignedIn(i)
    \/ \E d \in Reserved : RecoveryClaimRecord(i, d)
    \/ ClaimRecovery(i)

Next ==
    \/ \E i \in Slots : Handle(i)
    \/ \E pw \in Passwords : ResetOwnerPassword(pw)
    \/ \E to \in {"active", "suspended"} : SetAccountStatus(to)
    \/ \E d \in Reserved : CompleteRecovery(d) \/ RequestAges(d)
    \/ SessionAges

Spec == Init /\ [][Next]_vars

\* The claimant keeps polling, and time passes.
FairSpec ==
    Spec /\ \A d \in Reserved : WF_vars(CompleteRecovery(d)) /\ WF_vars(RequestAges(d))

-----------------------------------------------------------------------------
(* Properties.                                                             *)

\* Every stored session was opened, or kept, under the password stored now:
\* no login that verified an older password outlives the change that deleted
\* the account's sessions (CreateLoginSession, ChangePassword).
SessionsFollowPassword == \A s \in sessions : s.era = hash.era

\* A token that is not accepted is never accepted later: sign-out, a password
\* change, suspension, revocation and the end of a grace are final for every
\* token of the session, whatever is in flight and whatever follows, a
\* reactivation included (sessionValidity, RotateSession, SetAccountStatus).
NoTokenComesBack == [][(1..issued \ Accepted) \cap Accepted' = {}]_vars

\* A waiting recovery request always holds the account's credentials of the
\* moment: a change cancels it, a rehash moves it along, and a claim checked
\* against older ones is never stored (so CompleteRecovery's backstop only
\* ever confirms).
WaitingMatchesCredentials ==
    \A d \in Reserved : requests[d].state = "waiting" => ~CredentialsMoved(d)

\* When recovery completes, the new device's session is the one session the
\* account accepts (CompleteRecovery).
RecoveredAlone ==
    [][\A d \in Reserved :
        requests[d].state = "waiting" /\ requests[d].state' = "completed"
            => Accepted' = {issued'}]_vars

\* A login with the right password is not turned away because another login
\* rehashed that password meanwhile (the recheck in login).
RehashNeverRefusesLogin ==
    [][\A i \in Slots :
        /\ In(i, "login", "refused") \/ In(i, "login", "again")
        /\ tasks'[i].kind = "idle" /\ sessions' = sessions
        /\ CanSignIn(tasks[i].device)
        /\ hash # tasks[i].hash
        => hash.era # tasks[i].hash.era]_vars

\* A recovery request does not wait for ever: polled, it completes, is
\* cancelled, or expires, even while the account is suspended.
RecoveryEnds ==
    \A d \in Reserved : requests[d].state = "waiting" ~> requests[d].state # "waiting"

=============================================================================
