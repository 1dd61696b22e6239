--------------------------- MODULE Account_proofs ---------------------------
(***************************************************************************)
(* What Account promises, proved for every set of devices, passwords and   *)
(* slots and every bound.                                                  *)
(*                                                                         *)
(* The argument.  CredInv, that sessions and waiting requests carry the    *)
(* credentials stored now, is inductive on its own.  For the tokens it     *)
(* takes two more facts: while an account is not active it has no session, *)
(* so activating it brings none back (Emptied); and a device is enrolled   *)
(* at most once, so a completed recovery makes no older session valid      *)
(* (EnrolledOnce).  For a login beside a rehash it takes the order in      *)
(* which hashes are stored (HashInv).  The recovery downloads are at the   *)
(* end.                                                                    *)
(***************************************************************************)
EXTENDS Account, RecoveryTransfers, TLAPS

\* A login names a device and a claim a reservation.
TasksNamed ==
    \A i \in Slots : /\ tasks[i].kind = "login" => tasks[i].device \in Devices
                     /\ tasks[i].kind = "claim" => tasks[i].device \in Reserved

TypeInv == TypeOK /\ key <= changes + 1

CredInv == SessionsFollowPassword /\ WaitingMatchesCredentials

Emptied == status # "active" => sessions = {}

\* No row or login names a device that is not enrolled, and a reservation
\* that was not consumed, or whose request waits, has not enrolled its own.
EnrolledOnce ==
    /\ \A s \in sessions : devices[s.device] # "absent"
    /\ \A i \in Slots : tasks[i].kind = "login" => devices[tasks[i].device] # "absent"
    /\ \A d \in Reserved :
        /\ d \notin consumed \/ requests[d].state = "waiting" => devices[d] = "absent"
        /\ requests[d].state = "waiting" => d \in consumed

Inv == TypeInv /\ TasksNamed /\ CredInv /\ Emptied /\ EnrolledOnce

LEMMA Bounds == MaxChanges \in Nat /\ MaxTokens \in Nat /\ Enrolled \cap Reserved = {} /\ 1 \in Passwords
BY Zenon, AccountConstants

USE Bounds

LEMMA InitInv == Init => Inv
<1> SUFFICES ASSUME Init PROVE Inv
  BY Zenon
<1>1. NoHash \in Hash /\ [pw |-> 1, era |-> 0, v |-> 0] \in Hash
  BY DEF Hash, NoHash
<1>2. NoRequest \in Request
  BY <1>1 DEF NoRequest, Request
<1>3. Idle \in Task
  BY <1>1 DEF Idle, Task
<1>4. TypeInv
  BY <1>1, <1>2, <1>3 DEF Init, TypeInv, TypeOK, Devices
<1>5. CredInv
  BY Zenon DEF Init, CredInv, SessionsFollowPassword, WaitingMatchesCredentials, NoRequest
<1>6. TasksNamed /\ Emptied /\ EnrolledOnce
  BY Zenon DEF Init, TasksNamed, Emptied, EnrolledOnce, NoRequest, Idle, Devices
<1> QED BY Zenon, <1>4, <1>5, <1>6 DEF Inv

(***************************************************************************)
(* Types.                                                                  *)
(***************************************************************************)

LEMMA TaskSteps ==
    ASSUME TypeInv, NEW i \in Slots
    PROVE  /\ tasks[i] \in Task /\ tasks[i].hash \in Hash /\ Idle \in Task
           /\ Finish(i) => tasks' \in [Slots -> Task]
           /\ \A stage \in {"read", "refused", "again", "upgrade", "store"} :
                Move(i, stage) => tasks' \in [Slots -> Task]
<1>1. NoHash \in Hash
  BY DEF Hash, NoHash
<1>2. Idle \in Task
  BY <1>1 DEF Idle, Task
<1>3. tasks[i] \in Task /\ tasks[i].hash \in Hash
  BY Zenon DEF TypeInv, TypeOK, Task
<1>4. \A stage \in {"read", "refused", "again", "upgrade", "store"} :
        [tasks[i] EXCEPT !.at = stage] \in Task
  BY Zenon, <1>3 DEF Task
<1> QED BY Zenon, <1>2, <1>3, <1>4 DEF Finish, Move, TypeInv, TypeOK

LEMMA CancelTyped == TypeInv => CancelWaitingRecovery \in [Reserved -> Request]
<1> SUFFICES ASSUME TypeInv, NEW d \in Reserved
             PROVE  [requests[d] EXCEPT !.state = "cancelled"] \in Request
  BY Zenon DEF CancelWaitingRecovery, TypeInv, TypeOK
<1> QED BY Zenon DEF TypeInv, TypeOK, Request

\* A session row of the account, and what statements make of one.
LEMMA SessionTyped ==
    ASSUME TypeInv, NEW s \in sessions
    PROVE  /\ s \in Session /\ s.device \in Devices /\ s.token \in 1..MaxTokens
           /\ s.prev \in 0..MaxTokens /\ s.grace \in BOOLEAN /\ s.era \in 0..MaxChanges
           /\ [s EXCEPT !.prev = 0, !.grace = FALSE] \in Session
           /\ [s EXCEPT !.recent = TRUE] \in Session
           /\ [s EXCEPT !.grace = FALSE] \in Session
<1>1. s \in Session
  BY Zenon DEF TypeInv, TypeOK
<1>2. /\ s.device \in Devices /\ s.token \in 1..MaxTokens /\ s.prev \in 0..MaxTokens
      /\ s.grace \in BOOLEAN /\ s.era \in 0..MaxChanges
  BY Zenon, <1>1 DEF Session
<1>3. 0 \in 0..MaxTokens
  OBVIOUS
<1>4. [s EXCEPT !.prev = 0, !.grace = FALSE] \in Session
  BY Zenon, <1>1, <1>3 DEF Session
<1>5. [s EXCEPT !.recent = TRUE] \in Session
  BY Zenon, <1>1 DEF Session
<1>6. [s EXCEPT !.grace = FALSE] \in Session
  BY Zenon, <1>1 DEF Session
<1> QED BY Zenon, <1>1, <1>2, <1>4, <1>5, <1>6

LEMMA NewSession ==
    ASSUME TypeInv, issued < MaxTokens, NEW d \in Devices, NEW r \in BOOLEAN, NEW e \in 0..MaxChanges
    PROVE  /\ issued + 1 \in 1..MaxTokens
           /\ [token |-> issued + 1, prev |-> 0, grace |-> FALSE, device |-> d,
               recent |-> r, era |-> e] \in Session
BY DEF TypeInv, TypeOK, Session

LEMMA LoginTypes ==
    ASSUME TypeInv, NEW i \in Slots,
           \/ \E d \in Devices : LoginRecord(i, d)
           \/ CreateLoginSession(i) \/ LoginRecheck(i) \/ UpgradePasswordHash(i),
           TasksNamed
    PROVE  TypeInv'
<1> USE DEF TypeInv
<1>0. tasks[i] \in Task /\ Idle \in Task /\ hash \in Hash
  BY Zenon, TaskSteps DEF TypeOK
<1>1. ASSUME NEW d \in Devices, LoginRecord(i, d) PROVE TypeInv'
  <2>1. [Idle EXCEPT !.kind = "login", !.device = d, !.hash = hash] \in Task
    BY Zenon, <1>0 DEF Task, Idle
  <2> QED BY Zenon, <1>1, <2>1 DEF LoginRecord, Begin, TypeOK
<1>2. CASE CreateLoginSession(i)
  <2> DEFINE row == [token |-> issued + 1, prev |-> 0, grace |-> FALSE, device |-> tasks[i].device,
                     recent |-> TRUE, era |-> tasks[i].hash.era]
  <2>1. tasks' \in [Slots -> Task]
    BY Zenon, <1>2, TaskSteps DEF CreateLoginSession
  <2>2. tasks[i].device \in Devices /\ tasks[i].hash.era \in 0..MaxChanges
    BY Zenon, <1>0, <1>2, TaskSteps DEF CreateLoginSession, Hash, TasksNamed
  <2>3. issued + 1 \in 1..MaxTokens /\ row \in Session
    BY Zenon, <1>2, <2>2, NewSession DEF CreateLoginSession
  <2> HIDE DEF row
  <2>4. \/ sessions' = sessions \cup {row} /\ issued' = issued + 1
        \/ sessions' = sessions /\ issued' = issued
    BY Zenon, <1>2 DEF CreateLoginSession, row
  <2>5. sessions' \subseteq Session /\ issued' \in 0..MaxTokens
    BY <2>3, <2>4 DEF TypeOK
  <2> QED BY Zenon, <1>2, <2>1, <2>5 DEF CreateLoginSession, TypeOK
<1>3. CASE LoginRecheck(i)
  <2>1. [tasks[i] EXCEPT !.at = "again", !.hash = hash] \in Task
    BY Zenon, <1>0 DEF Task
  <2>2. tasks' \in [Slots -> Task]
    BY Zenon, <1>3, <2>1, TaskSteps DEF LoginRecheck, TypeOK
  <2> QED BY Zenon, <1>3, <2>2 DEF LoginRecheck, TypeOK
<1>4. CASE UpgradePasswordHash(i)
  <2>1. tasks' \in [Slots -> Task]
    BY Zenon, <1>4, TaskSteps DEF UpgradePasswordHash
  <2>2. Rehashed(hash) \in Hash
    BY Zenon, <1>0 DEF Rehashed, Hash
  <2>3. \A d \in Reserved : [requests[d] EXCEPT !.hash = Rehashed(hash)] \in Request
    BY ZenonT(60), <2>2 DEF TypeOK, Request
  <2>4. FollowRehash(hash) \in [Reserved -> Request]
    BY Zenon, <2>3 DEF FollowRehash, TypeOK
  <2> QED BY Zenon, <1>4, <2>1, <2>2, <2>4 DEF UpgradePasswordHash, TypeOK
<1> QED BY Zenon, <1>1, <1>2, <1>3, <1>4

LEMMA SignedInTypes ==
    ASSUME TypeInv, NEW i \in Slots, SignedIn(i)
    PROVE  TypeInv'
<1> USE DEF TypeInv
<1>0. tasks[i] \in Task /\ tasks[i].token \in 0..MaxTokens /\ hash \in Hash /\ NoRequest \in Request
  <2>1. NoHash \in Hash
    BY DEF NoHash, Hash
  <2> QED BY <2>1, TaskSteps DEF TypeOK, Task, NoRequest, Request
<1>f. Finish(i) => tasks' \in [Slots -> Task]
  BY Zenon, TaskSteps
<1>1. CASE ReauthenticationRecord(i)
  <2>1. \A stage \in {"upgrade", "store"} : [tasks[i] EXCEPT !.hash = hash, !.at = stage] \in Task
    BY Zenon, <1>0 DEF Task
  <2>2. tasks' \in [Slots -> Task]
    BY Zenon, <1>1, <2>1, <1>f DEF ReauthenticationRecord, TypeOK
  <2> QED BY Zenon, <1>1, <2>2 DEF ReauthenticationRecord, TypeOK
<1>2. CASE RotateSession(i)
  <2>1. ASSUME NEW s \in sessions, issued < MaxTokens
        PROVE  Rotated(s, tasks[i].token, issued + 1) \in Session
    <3> DEFINE p == IF s.token = tasks[i].token THEN tasks[i].token ELSE s.prev
               g == IF s.token = tasks[i].token THEN TRUE ELSE s.grace
    <3>1. s \in Session /\ s.prev \in 0..MaxTokens /\ s.grace \in BOOLEAN
      BY Zenon, SessionTyped
    <3>a. issued + 1 \in 1..MaxTokens
      BY <2>1 DEF TypeOK
    <3>b. p \in 0..MaxTokens
      BY Zenon, <1>0, <3>1
    <3>c. g \in BOOLEAN
      BY Zenon, <3>1
    <3> HIDE DEF p, g
    <3>2. [s EXCEPT !.token = issued + 1, !.recent = TRUE, !.prev = p, !.grace = g] \in Session
      BY Zenon, <3>1, <3>a, <3>b, <3>c DEF Session
    <3> QED BY Zenon, <3>2 DEF Rotated, p, g
  <2>2. sessions' \subseteq Session
    BY <1>2, <2>1 DEF RotateSession, TypeOK
  <2> QED BY <1>2, <2>2, <1>f DEF RotateSession, TypeOK
<1>3. CASE MarkSessionRecentlyAuthenticated(i)
  <2>1. sessions' \subseteq Session
    BY Zenon, <1>3, SessionTyped DEF MarkSessionRecentlyAuthenticated
  <2> QED BY Zenon, <1>3, <2>1, <1>f DEF MarkSessionRecentlyAuthenticated, TypeOK
<1>4. ASSUME NEW pw \in Passwords, HashNewPassword(i, pw) PROVE TypeInv'
  <2>1. [tasks[i].hash EXCEPT !.pw = pw] \in Hash
    BY Zenon, TaskSteps DEF Hash
  <2>2. [tasks[i] EXCEPT !.at = "store", !.hash.pw = pw] \in Task
    BY Zenon, <1>0, <2>1 DEF Task
  <2>3. tasks' \in [Slots -> Task]
    BY Zenon, <1>4, <2>2, <1>f DEF HashNewPassword, TypeOK
  <2> QED BY Zenon, <1>4, <2>3 DEF HashNewPassword, TypeOK
<1>5. CASE ChangePassword(i)
  <2>1. KeptSessions(tasks[i].token) \subseteq Session
    BY Zenon, SessionTyped DEF KeptSessions
  <2>2. ASSUME changes < MaxChanges, NEW s \in Session
        PROVE  [s EXCEPT !.recent = TRUE, !.era = changes + 1] \in Session
    <3>1. changes + 1 \in 0..MaxChanges
      BY <2>2 DEF TypeOK
    <3> QED BY Zenon, <3>1 DEF Session
  <2>3. tasks[i].hash.pw \in Passwords \cup {0}
    BY Zenon, TaskSteps DEF Hash
  <2>4. CASE status = "deleted"
    BY Zenon, <1>5, <2>4, <1>f DEF ChangePassword, TypeOK
  <2>5. CASE StorePassword(tasks[i].hash.pw, KeptSessions(tasks[i].token), tasks[i].token)
    <3>1. sessions' \subseteq Session
      BY Zenon, <2>1, <2>2, <2>5 DEF StorePassword
    <3>0. changes < MaxChanges /\ changes' = changes + 1
      BY Zenon, <2>5 DEF StorePassword
    <3>a. changes' \in 0..MaxChanges /\ key <= changes' + 1
      BY <3>0 DEF TypeOK
    <3>b. hash' = [pw |-> tasks[i].hash.pw, era |-> changes', v |-> 1]
      BY Zenon, <2>5, <3>0 DEF StorePassword
    <3>2. hash' \in Hash
      BY Zenon, <2>3, <3>a, <3>b DEF Hash
    <3>3. requests' \in [Reserved -> Request]
      BY Zenon, <2>5, CancelTyped DEF StorePassword
    <3> QED BY Zenon, <1>5, <1>f, <3>1, <3>a, <3>2, <3>3 DEF ChangePassword, TypeOK
  <2> QED BY Zenon, <1>5, <2>4, <2>5 DEF ChangePassword
<1>6. CASE DeleteSession(i)
  BY Zenon, <1>6, <1>f DEF DeleteSession, TypeOK
<1>7. CASE DeleteAccountSessionsExcept(i)
  <2>1. KeptSessions(tasks[i].token) \subseteq Session
    BY Zenon, SessionTyped DEF KeptSessions
  <2> QED BY Zenon, <1>7, <2>1, <1>f DEF DeleteAccountSessionsExcept, TypeOK
<1>8. ASSUME NEW d \in Devices, RevokeDevice(i, d) PROVE TypeInv'
  BY Zenon, <1>8, <1>f DEF RevokeDevice, TypeOK
<1>9. CASE SetRecoveryKey(i)
  <2>1. key' \in 0..(MaxChanges + 1) /\ changes' \in 0..MaxChanges /\ key' <= changes' + 1
    BY <1>9 DEF SetRecoveryKey, TypeOK
  <2>2. requests' \in [Reserved -> Request]
    BY Zenon, <1>9, CancelTyped DEF SetRecoveryKey, TypeOK
  <2> QED BY Zenon, <1>9, <1>f, <2>1, <2>2 DEF SetRecoveryKey, TypeOK
<1>10. ASSUME NEW d \in Reserved, CancelRecoveryRequest(i, d) PROVE TypeInv'
  <2>1. requests' \in [Reserved -> Request]
    BY Zenon, <1>10, CancelTyped DEF CancelRecoveryRequest, TypeOK
  <2> QED BY Zenon, <1>10, <2>1, <1>f DEF CancelRecoveryRequest, TypeOK
<1>11. CASE DeleteAccountData(i)
  <2>1. [hash EXCEPT !.pw = 0, !.v = 1] \in Hash
    BY Zenon, <1>0 DEF Hash
  <2> QED BY <1>0, <1>11, <2>1, <1>f DEF DeleteAccountData, TypeOK
<1> QED BY Zenon, <1>1, <1>2, <1>3, <1>4, <1>5, <1>6, <1>7, <1>8, <1>9, <1>10, <1>11 DEF SignedIn

LEMMA RecoveryTypes ==
    ASSUME TypeInv, TasksNamed,
           \/ \E i \in Slots : \/ \E d \in Reserved : RecoveryClaimRecord(i, d)
                               \/ ClaimRecovery(i)
           \/ \E d \in Reserved : CompleteRecovery(d) \/ RequestAges(d)
    PROVE  TypeInv'
<1> USE DEF TypeInv
<1>1. ASSUME NEW i \in Slots, NEW d \in Reserved, RecoveryClaimRecord(i, d) PROVE TypeInv'
  <2>1. [Idle EXCEPT !.kind = "claim", !.device = d, !.hash = hash, !.key = key] \in Task
    <3>1. Idle \in Task /\ hash \in Hash /\ key \in 0..(MaxChanges + 1) /\ d \in Devices
      BY Zenon, TaskSteps DEF TypeOK, Devices
    <3> QED BY Zenon, <3>1 DEF Task, Idle
  <2> QED BY Zenon, <1>1, <2>1 DEF RecoveryClaimRecord, Begin, TypeOK
<1>2. ASSUME NEW i \in Slots, ClaimRecovery(i) PROVE TypeInv'
  <2>1. tasks[i].hash \in Hash /\ tasks[i].key \in 0..(MaxChanges + 1) /\ tasks[i].device \in Reserved
    BY Zenon, <1>2, TaskSteps DEF ClaimRecovery, In, Task, TasksNamed
  <2>2. \A r \in BOOLEAN : [state |-> "waiting", ready |-> r, lapsed |-> FALSE,
                             hash |-> tasks[i].hash, key |-> tasks[i].key] \in Request
    BY Zenon, <2>1 DEF Request
  <2>3. ReadyAtOnce \subseteq BOOLEAN
    BY Zenon DEF ReadyAtOnce
  <2>4. requests' \in [Reserved -> Request]
    <3>1. CASE ~ClaimStillHolds(tasks[i])
      BY Zenon, <1>2, <3>1 DEF ClaimRecovery, TypeOK
    <3>2. CASE ClaimStillHolds(tasks[i])
      <4>1. PICK ready \in ReadyAtOnce :
                requests' = [CancelWaitingRecovery EXCEPT ![tasks[i].device] =
                    [state |-> "waiting", ready |-> ready, lapsed |-> FALSE,
                     hash |-> tasks[i].hash, key |-> tasks[i].key]]
        BY Zenon, <1>2, <3>2 DEF ClaimRecovery
      <4> QED BY Zenon, <2>2, <2>3, <4>1, CancelTyped
    <3> QED BY Zenon, <3>1, <3>2
  <2>5. consumed' \subseteq Reserved /\ tasks' \in [Slots -> Task]
    BY Zenon, <1>2, <2>1, TaskSteps DEF ClaimRecovery, TypeOK
  <2> QED BY Zenon, <1>2, <2>4, <2>5 DEF ClaimRecovery, TypeOK
<1>3. ASSUME NEW d \in Reserved, CompleteRecovery(d) PROVE TypeInv'
  <2>0. Outcome(d) \in {"waiting", "completed", "cancelled", "expired"}
    BY Zenon DEF Outcome
  <2>1. [requests[d] EXCEPT !.state = Outcome(d)] \in Request
    BY ZenonT(60), <2>0 DEF TypeOK, Request
  <2>2. requests' \in [Reserved -> Request]
    BY Zenon, <1>3, <2>1 DEF CompleteRecovery, TypeOK
  <2>3. CASE Outcome(d) = "completed"
    <3>1. HandOver(d) /\ issued < MaxTokens
      BY Zenon, <1>3, <2>3 DEF CompleteRecovery
    <3>2. hash.era \in 0..MaxChanges /\ d \in Devices
      BY Zenon DEF TypeOK, Hash, Devices
    <3> DEFINE row == [token |-> issued + 1, prev |-> 0, grace |-> FALSE, device |-> d,
                       recent |-> FALSE, era |-> hash.era]
    <3>a. row \in Session /\ issued + 1 \in 1..MaxTokens
      BY Zenon, <3>1, <3>2, NewSession
    <3>b. \A s \in sessions' : s \in sessions \/ s = row
      BY Zenon, <3>1 DEF HandOver
    <3>c. issued' = issued + 1
      BY Zenon, <3>1 DEF HandOver
    <3> HIDE DEF row
    <3>3. sessions' \subseteq Session /\ issued' \in 0..MaxTokens
      BY <3>a, <3>b, <3>c DEF TypeOK
    <3>4. devices' \in [Devices -> {"absent", "active", "revoked"}]
      BY Zenon, <3>1 DEF HandOver, TypeOK
    <3> QED BY Zenon, <1>3, <2>2, <3>3, <3>4 DEF CompleteRecovery, TypeOK
  <2>4. CASE Outcome(d) # "completed"
    BY Zenon, <1>3, <2>2, <2>4 DEF CompleteRecovery, TypeOK
  <2> QED BY Zenon, <2>3, <2>4
<1>4. ASSUME NEW d \in Reserved, RequestAges(d) PROVE TypeInv'
  <2>1. requests[d] \in Request /\ requests[d].ready \in BOOLEAN
    BY Zenon DEF TypeOK, Request
  <2>2. [requests[d] EXCEPT !.ready = TRUE, !.lapsed = requests[d].ready] \in Request
    BY Zenon, <2>1 DEF Request
  <2>3. requests' \in [Reserved -> Request]
    BY Zenon, <1>4, <2>2 DEF RequestAges, TypeOK
  <2> QED BY Zenon, <1>4, <2>3 DEF RequestAges, TypeOK
<1> QED BY Zenon, <1>1, <1>2, <1>3, <1>4

LEMMA TypeStep == TypeInv /\ TasksNamed /\ [Next]_vars => TypeInv'
<1> SUFFICES ASSUME TypeInv, TasksNamed, [Next]_vars PROVE TypeInv'
  BY Zenon
<1>1. CASE UNCHANGED vars
  BY Zenon, <1>1 DEF vars, TypeInv, TypeOK
<1>2. ASSUME NEW i \in Slots, Handle(i) PROVE TypeInv'
  <2>1. ASSUME NEW kind \in Kinds, NEW n \in 1..issued, Authenticate(i, kind, n) PROVE TypeInv'
    <3>1. PICK s \in sessions : Begin(i, [Idle EXCEPT !.kind = kind, !.device = s.device, !.token = n])
      BY Zenon, <2>1 DEF Authenticate
    <3>2. Idle \in Task
      BY Zenon, TaskSteps
    <3>a. s.device \in Devices
      BY Zenon, SessionTyped
    <3>b. n \in 0..MaxTokens
      BY DEF TypeInv, TypeOK
    <3>3. kind \in RecentAuthKinds \cup {"idle", "login", "claim", "reauth", "logout"}
      BY Zenon, AccountConstants
    <3>4. [Idle EXCEPT !.kind = kind, !.device = s.device, !.token = n] \in Task
      BY Zenon, <3>2, <3>a, <3>b, <3>3 DEF Task, Idle
    <3> QED BY Zenon, <2>1, <3>1, <3>4 DEF Authenticate, Begin, TypeInv, TypeOK
  <2> QED BY Zenon, <1>2, <2>1, LoginTypes, SignedInTypes, RecoveryTypes DEF Handle
<1>3. ASSUME NEW pw \in Passwords, ResetOwnerPassword(pw) PROVE TypeInv'
  <2>0. changes < MaxChanges /\ changes' = changes + 1 /\ sessions' = {}
        /\ hash' = [pw |-> pw, era |-> changes + 1, v |-> 1] /\ requests' = CancelWaitingRecovery
    BY Zenon, <1>3 DEF ResetOwnerPassword, StorePassword
  <2>1. changes' \in 0..MaxChanges /\ key <= changes' + 1
    BY <2>0 DEF TypeInv, TypeOK
  <2>2. hash' \in Hash
    BY Zenon, <2>0, <2>1 DEF Hash
  <2> QED BY Zenon, <1>3, <2>0, <2>1, <2>2, CancelTyped DEF ResetOwnerPassword, TypeInv, TypeOK
<1>4. ASSUME NEW to \in {"active", "suspended"}, SetAccountStatus(to) PROVE TypeInv'
  BY Zenon, <1>4 DEF SetAccountStatus, TypeInv, TypeOK
<1>5. CASE SessionAges
  <2>1. sessions' \subseteq Session
    BY Zenon, <1>5, SessionTyped DEF SessionAges, TypeInv, TypeOK
  <2> QED BY Zenon, <1>5, <2>1 DEF SessionAges, TypeInv, TypeOK
<1> QED BY Zenon, <1>1, <1>2, <1>3, <1>4, <1>5, RecoveryTypes DEF Next

(***************************************************************************)
(* What a step does to tasks, requests and sessions.                       *)
(***************************************************************************)

\* No login or claim begins.
Quiet ==
    \A i \in Slots : tasks'[i].kind \in {"login", "claim"} =>
        tasks'[i].kind = tasks[i].kind /\ tasks'[i].device = tasks[i].device

LEMMA QuietMoves ==
    ASSUME TypeInv, NEW i \in Slots
    PROVE  /\ Finish(i) => Quiet
           /\ \A stage \in {"read", "refused", "again", "upgrade", "store"} : Move(i, stage) => Quiet
           /\ tasks' = tasks => Quiet
<1>1. \A j \in Slots : tasks[j] \in Task
  BY Zenon DEF TypeInv, TypeOK
<1>2. Finish(i) => Quiet
  BY <1>1 DEF Finish, Quiet, Idle, TypeInv, TypeOK
<1>3. ASSUME NEW stage \in {"read", "refused", "again", "upgrade", "store"}, Move(i, stage) PROVE Quiet
  BY Zenon, <1>1, <1>3 DEF Move, Quiet, TypeInv, TypeOK, Task
<1> QED BY Zenon, <1>2, <1>3 DEF Quiet

LEMMA QuietStep ==
    ASSUME TypeInv, [Next]_vars
    PROVE  \/ Quiet
           \/ \E i \in Slots, d \in Devices : LoginRecord(i, d)
           \/ \E i \in Slots, d \in Reserved : RecoveryClaimRecord(i, d)
<1>1. CASE UNCHANGED vars
  BY Zenon, <1>1 DEF vars, Quiet
<1>2. ASSUME NEW i \in Slots, SignedIn(i) PROVE Quiet
  <2>1. ASSUME NEW h, NEW stage, tasks' = [tasks EXCEPT ![i].hash = h, ![i].at = stage] PROVE Quiet
    BY <2>1 DEF Quiet, TypeInv, TypeOK, Task
  <2>2. ASSUME NEW h, NEW stage, tasks' = [tasks EXCEPT ![i].at = stage, ![i].hash.pw = h] PROVE Quiet
    BY <2>2 DEF Quiet, TypeInv, TypeOK, Task
  <2>3. CASE ReauthenticationRecord(i)
    BY Zenon, <2>1, <2>3, QuietMoves DEF ReauthenticationRecord
  <2>4. ASSUME NEW pw \in Passwords, HashNewPassword(i, pw) PROVE Quiet
    BY Zenon, <2>2, <2>4, QuietMoves DEF HashNewPassword
  <2>5. CASE Finish(i)
    BY Zenon, <2>5, QuietMoves
  <2> QED BY Zenon, <1>2, <2>3, <2>4, <2>5
      DEF SignedIn, RotateSession, MarkSessionRecentlyAuthenticated, ChangePassword, DeleteSession,
          DeleteAccountSessionsExcept, RevokeDevice, SetRecoveryKey, CancelRecoveryRequest, DeleteAccountData
<1>3. ASSUME NEW i \in Slots,
             CreateLoginSession(i) \/ LoginRecheck(i) \/ UpgradePasswordHash(i) \/ ClaimRecovery(i)
      PROVE  Quiet
  <2>1. CASE LoginRecheck(i)
    <3>1. ASSUME tasks' = [tasks EXCEPT ![i].at = "again", ![i].hash = hash] PROVE Quiet
      BY <3>1 DEF Quiet, TypeInv, TypeOK, Task
    <3> QED BY Zenon, <2>1, <3>1, QuietMoves DEF LoginRecheck
  <2>2. CASE CreateLoginSession(i)
    BY Zenon, <2>2, QuietMoves DEF CreateLoginSession
  <2>3. CASE UpgradePasswordHash(i)
    BY Zenon, <2>3, QuietMoves DEF UpgradePasswordHash
  <2>4. CASE ClaimRecovery(i)
    BY Zenon, <2>4, QuietMoves DEF ClaimRecovery
  <2> QED BY Zenon, <1>3, <2>1, <2>2, <2>3, <2>4
<1>4. ASSUME NEW i \in Slots, NEW kind \in Kinds, NEW n \in 1..issued, Authenticate(i, kind, n)
      PROVE  Quiet
  <2>1. kind \notin {"login", "claim"}
    BY Zenon, AccountConstants DEF RecentAuthKinds
  <2>2. PICK d : tasks' = [tasks EXCEPT ![i] = [Idle EXCEPT !.kind = kind, !.device = d, !.token = n]]
    BY Zenon, <1>4 DEF Authenticate, Begin
  <2> QED BY Zenon, <2>1, <2>2 DEF Quiet, Idle, TypeInv, TypeOK
<1>5. ASSUME tasks' = tasks PROVE Quiet
  BY Zenon, <1>5 DEF Quiet
<1>6. ASSUME NEW pw \in Passwords, ResetOwnerPassword(pw) PROVE Quiet
  BY Zenon, <1>5, <1>6 DEF ResetOwnerPassword
<1>7. ASSUME NEW to \in {"active", "suspended"}, SetAccountStatus(to) PROVE Quiet
  BY Zenon, <1>5, <1>7 DEF SetAccountStatus
<1>8. ASSUME NEW d \in Reserved, CompleteRecovery(d) \/ RequestAges(d) PROVE Quiet
  BY Zenon, <1>5, <1>8 DEF CompleteRecovery, RequestAges
<1>9. CASE SessionAges
  BY Zenon, <1>5, <1>9 DEF SessionAges
<1> QED BY Zenon, <1>1, <1>2, <1>3, <1>4, <1>6, <1>7, <1>8, <1>9 DEF Next, Handle

LEMMA NamedStep ==
    ASSUME TypeInv, TasksNamed, [Next]_vars
    PROVE  TasksNamed'
<1>1. CASE Quiet
  BY Zenon, <1>1 DEF Quiet, TasksNamed, Devices
<1>2. ASSUME NEW i \in Slots, NEW d \in Devices, LoginRecord(i, d) PROVE TasksNamed'
  BY Zenon, <1>2 DEF LoginRecord, Begin, TasksNamed, TypeInv, TypeOK, Idle, Devices
<1>3. ASSUME NEW i \in Slots, NEW d \in Reserved, RecoveryClaimRecord(i, d) PROVE TasksNamed'
  BY Zenon, <1>3 DEF RecoveryClaimRecord, Begin, TasksNamed, TypeInv, TypeOK, Idle, Devices
<1> QED BY Zenon, <1>1, <1>2, <1>3, QuietStep

(***************************************************************************)
(* Sessions and requests over a step.                                      *)
(***************************************************************************)

\* Every row descends from one of its device that owned its older tokens,
\* and carries the password stored now if that one did.
Inherits ==
    \A s \in sessions' : \E r \in sessions :
        /\ s.device = r.device
        /\ \A n \in 1..issued : Owns(s, n) => Owns(r, n)
        /\ s.era = hash'.era \/ (hash'.era = hash.era /\ s.era = r.era)

\* Devices are only revoked.
DevicesFall ==
    \A d \in Devices : devices'[d] = devices[d] \/ (devices[d] # "absent" /\ devices'[d] = "revoked")

Settled == Inherits /\ DevicesFall /\ (status' = status \/ sessions' = {})

NewRow(d, e, r) ==
    [token |-> issued + 1, prev |-> 0, grace |-> FALSE, device |-> d, recent |-> r, era |-> e]

LoggedIn ==
    \E i \in Slots :
        /\ tasks[i].kind = "login" /\ tasks[i].device \in Devices
        /\ status = "active" /\ hash' = hash /\ UNCHANGED <<status, devices>>
        /\ sessions' = sessions \cup {NewRow(tasks[i].device, hash.era, TRUE)}

Recovered(d) ==
    /\ status = "active" /\ hash' = hash /\ status' = status
    /\ requests[d].state = "waiting" /\ requests'[d].state = "completed"
    /\ \A e \in Reserved \ {d} : requests'[e] = requests[e]
    /\ HandOver(d)

LEMMA Kept ==
    ASSUME TypeInv, sessions' \subseteq sessions, hash'.era = hash.era
    PROVE  Inherits
BY Zenon DEF Inherits, Owns

LEMMA KeptRows ==
    ASSUME TypeInv, NEW keep
    PROVE  \A s \in KeptSessions(keep) : \E r \in sessions :
               /\ s.device = r.device /\ s.era = r.era /\ s.token = r.token /\ r.token = keep
               /\ \A n \in 1..issued : Owns(s, n) => Owns(r, n)
<1> SUFFICES ASSUME NEW s \in KeptSessions(keep)
             PROVE  \E r \in sessions :
               /\ s.device = r.device /\ s.era = r.era /\ s.token = r.token /\ r.token = keep
               /\ \A n \in 1..issued : Owns(s, n) => Owns(r, n)
  BY Zenon
<1>1. PICK r \in sessions : r.token = keep /\ s = [r EXCEPT !.prev = 0, !.grace = FALSE]
  BY Zenon DEF KeptSessions
<1>2. r \in Session
  BY Zenon DEF TypeInv, TypeOK
<1>3. s.device = r.device /\ s.era = r.era /\ s.token = r.token /\ s.prev = 0
  BY Zenon, <1>1, <1>2 DEF Session
<1>4. \A n \in 1..issued : n # 0
  BY DEF TypeInv, TypeOK
<1>5. \A n \in 1..issued : Owns(s, n) => Owns(r, n)
  BY Zenon, <1>3, <1>4 DEF Owns
<1> QED BY Zenon, <1>1, <1>3, <1>5

LEMMA StoreInherits ==
    ASSUME TypeInv, NEW pw, NEW keep, StorePassword(pw, KeptSessions(keep), keep)
    PROVE  Inherits
<1> SUFFICES ASSUME NEW s \in sessions'
             PROVE  \E r \in sessions :
                        /\ s.device = r.device
                        /\ \A n \in 1..issued : Owns(s, n) => Owns(r, n)
                        /\ s.era = hash'.era
  BY Zenon DEF Inherits
<1>0. hash'.era = changes + 1
  BY Zenon DEF StorePassword
<1>1. PICK k \in KeptSessions(keep) :
          s = IF k.token = keep THEN [k EXCEPT !.recent = TRUE, !.era = changes + 1] ELSE k
  BY Zenon DEF StorePassword
<1>2. PICK r \in sessions :
          /\ k.device = r.device /\ k.era = r.era /\ k.token = r.token /\ r.token = keep
          /\ \A n \in 1..issued : Owns(k, n) => Owns(r, n)
  BY Zenon, KeptRows
<1>3. PICK r0 \in sessions : k = [r0 EXCEPT !.prev = 0, !.grace = FALSE]
  BY Zenon DEF KeptSessions
<1>4. r0 \in Session
  BY Zenon DEF TypeInv, TypeOK
<1>5. s = [k EXCEPT !.recent = TRUE, !.era = changes + 1]
  BY Zenon, <1>1, <1>2
<1>6. s.device = k.device /\ s.token = k.token /\ s.prev = k.prev /\ s.grace = k.grace /\ s.era = changes + 1
  BY Zenon, <1>3, <1>4, <1>5 DEF Session
<1>7. \A n \in 1..issued : Owns(s, n) => Owns(r, n)
  BY Zenon, <1>2, <1>6 DEF Owns
<1> QED BY Zenon, <1>0, <1>2, <1>6, <1>7

LEMMA RotateInherits ==
    ASSUME TypeInv, NEW i \in Slots, RotateSession(i)
    PROVE  Inherits
<1> DEFINE p == tasks[i].token
           row == {s \in sessions : Owns(s, p)}
<1>1. CASE row = {}
  BY Zenon, <1>1, Kept DEF RotateSession
<1>2. CASE row # {}
  <2>1. sessions' = (sessions \ row) \cup {Rotated(s, p, issued + 1) : s \in row} /\ hash' = hash
    BY Zenon, <1>2 DEF RotateSession
  <2>2. ASSUME NEW r \in row
        PROVE  LET s == Rotated(r, p, issued + 1) IN
               /\ s.device = r.device /\ s.era = r.era
               /\ \A n \in 1..issued : Owns(s, n) => Owns(r, n)
    <3>1. r \in Session /\ Owns(r, p)
      BY Zenon DEF TypeInv, TypeOK
    <3> DEFINE s == Rotated(r, p, issued + 1)
    <3>2. /\ s.device = r.device /\ s.era = r.era /\ s.token = issued + 1
          /\ s.prev = IF r.token = p THEN p ELSE r.prev
      BY Zenon, <3>1 DEF Rotated, Session
    <3>3. \A n \in 1..issued : n # issued + 1
      BY DEF TypeInv, TypeOK
    <3>4. ASSUME r.token # p PROVE s.grace = r.grace
      BY Zenon, <3>1, <3>4 DEF Rotated, Session
    <3>5. \A n \in 1..issued : Owns(s, n) => Owns(r, n)
      BY Zenon, <3>1, <3>2, <3>3, <3>4 DEF Owns
    <3> QED BY Zenon, <3>2, <3>5
  <2>3. ASSUME NEW s \in sessions'
        PROVE  \E r \in sessions :
                 /\ s.device = r.device /\ s.era = r.era
                 /\ \A n \in 1..issued : Owns(s, n) => Owns(r, n)
    <3>1. CASE s \in sessions
      BY Zenon, <3>1
    <3>2. CASE s \notin sessions
      <4>1. PICK r \in row : s = Rotated(r, p, issued + 1)
        BY Zenon, <2>1, <3>2
      <4> QED BY Zenon, <4>1, <2>2
    <3> QED BY Zenon, <3>1, <3>2
  <2> QED BY Zenon, <2>1, <2>3 DEF Inherits
<1> QED BY Zenon, <1>1, <1>2

LEMMA AgesInherit ==
    ASSUME TypeInv, SessionAges
    PROVE  Inherits
<1>0. hash' = hash
  BY Zenon DEF SessionAges
<1>1. PICK r \in sessions :
        \/ r.grace /\ sessions' = (sessions \ {r}) \cup {[r EXCEPT !.grace = FALSE]}
        \/ sessions' = sessions \ {r}
  BY Zenon DEF SessionAges
<1>2. r \in Session
  BY Zenon DEF TypeInv, TypeOK
<1> DEFINE q == [r EXCEPT !.grace = FALSE]
<1>3. q.device = r.device /\ q.era = r.era /\ q.token = r.token /\ q.prev = r.prev /\ q.grace = FALSE
  BY Zenon, <1>2 DEF Session
<1> HIDE DEF q
<1>4. \A n \in 1..issued : Owns(q, n) => Owns(r, n)
  BY Zenon, <1>3 DEF Owns
<1> QED BY Zenon, <1>0, <1>1, <1>3, <1>4, Kept DEF Inherits, q

LEMMA MarkInherits ==
    ASSUME TypeInv, NEW i \in Slots, MarkSessionRecentlyAuthenticated(i)
    PROVE  Inherits
<1>0. hash' = hash
  BY Zenon DEF MarkSessionRecentlyAuthenticated
<1> SUFFICES ASSUME NEW s \in sessions'
             PROVE  \E r \in sessions :
                        /\ s.device = r.device /\ s.era = r.era
                        /\ \A n \in 1..issued : Owns(s, n) => Owns(r, n)
  BY Zenon, <1>0 DEF Inherits
<1>1. PICK r \in sessions : s = IF r.token = tasks[i].token THEN [r EXCEPT !.recent = TRUE] ELSE r
  BY Zenon DEF MarkSessionRecentlyAuthenticated
<1>2. r \in Session
  BY Zenon DEF TypeInv, TypeOK
<1>3. s.device = r.device /\ s.era = r.era /\ s.token = r.token /\ s.prev = r.prev /\ s.grace = r.grace
  BY Zenon, <1>1, <1>2 DEF Session
<1> QED BY Zenon, <1>3 DEF Owns

LEMMA Shape ==
    ASSUME TypeInv, TasksNamed, Emptied, [Next]_vars
    PROVE  Settled \/ LoggedIn \/ \E d \in Reserved : Recovered(d) /\ CompleteRecovery(d)
<1>0. ASSUME sessions' \subseteq sessions, hash'.era = hash.era, UNCHANGED <<status, devices>> PROVE Settled
  BY Zenon, <1>0, Kept DEF Settled, DevicesFall
<1>00. ASSUME Inherits, UNCHANGED <<status, devices>> PROVE Settled
  BY Zenon, <1>00 DEF Settled, DevicesFall
<1>1. CASE UNCHANGED vars
  BY Zenon, <1>0, <1>1 DEF vars
<1>2. ASSUME NEW i \in Slots, SignedIn(i) PROVE Settled
  <2>1. CASE ReauthenticationRecord(i)
    BY Zenon, <1>0, <2>1 DEF ReauthenticationRecord
  <2>2. CASE RotateSession(i)
    BY Zenon, <1>00, <2>2, RotateInherits DEF RotateSession
  <2>3. CASE MarkSessionRecentlyAuthenticated(i)
    BY Zenon, <1>00, <2>3, MarkInherits DEF MarkSessionRecentlyAuthenticated
  <2>4. ASSUME NEW pw \in Passwords, HashNewPassword(i, pw) PROVE Settled
    BY Zenon, <1>0, <2>4 DEF HashNewPassword
  <2>5. CASE ChangePassword(i)
    <3>1. CASE status = "deleted"
      BY Zenon, <1>0, <2>5, <3>1 DEF ChangePassword
    <3>2. CASE status # "deleted"
      <4>1. StorePassword(tasks[i].hash.pw, KeptSessions(tasks[i].token), tasks[i].token)
        BY Zenon, <2>5, <3>2 DEF ChangePassword
      <4> QED BY Zenon, <1>00, <2>5, <4>1, StoreInherits DEF ChangePassword
    <3> QED BY Zenon, <3>1, <3>2
  <2>6. CASE DeleteSession(i)
    BY Zenon, <1>0, <2>6 DEF DeleteSession
  <2>7. CASE DeleteAccountSessionsExcept(i)
    <3>1. Inherits
      BY <2>7, KeptRows DEF DeleteAccountSessionsExcept, Inherits
    <3> QED BY Zenon, <1>00, <2>7, <3>1 DEF DeleteAccountSessionsExcept
  <2>8. ASSUME NEW d \in Devices, RevokeDevice(i, d) PROVE Settled
    <3>1. Inherits
      BY Zenon, <2>8, Kept DEF RevokeDevice
    <3>2. DevicesFall /\ status' = status
      BY Zenon, <2>8 DEF RevokeDevice, DevicesFall, TypeInv, TypeOK
    <3> QED BY Zenon, <3>1, <3>2 DEF Settled
  <2>9. CASE SetRecoveryKey(i)
    BY Zenon, <1>0, <2>9 DEF SetRecoveryKey
  <2>10. ASSUME NEW d \in Reserved, CancelRecoveryRequest(i, d) PROVE Settled
    BY Zenon, <1>0, <2>10 DEF CancelRecoveryRequest
  <2>11. CASE DeleteAccountData(i)
    <3>1. CASE status = "deleted"
      BY Zenon, <1>0, <2>11, <3>1 DEF DeleteAccountData
    <3>2. CASE status # "deleted"
      BY Zenon, <2>11, <3>2 DEF DeleteAccountData, Settled, Inherits, DevicesFall
    <3> QED BY Zenon, <3>1, <3>2
  <2> QED BY Zenon, <1>2, <2>1, <2>2, <2>3, <2>4, <2>5, <2>6, <2>7, <2>8, <2>9, <2>10, <2>11 DEF SignedIn
<1>3. ASSUME NEW i \in Slots, CreateLoginSession(i) PROVE Settled \/ LoggedIn
  <2>1. CASE LoginMayInsert(tasks[i])
    BY Zenon, <1>3, <2>1 DEF CreateLoginSession, LoginMayInsert, LoggedIn, NewRow, TasksNamed
  <2>2. CASE ~LoginMayInsert(tasks[i])
    BY Zenon, <1>0, <1>3, <2>2 DEF CreateLoginSession
  <2> QED BY Zenon, <2>1, <2>2
<1>4. ASSUME NEW i \in Slots, UpgradePasswordHash(i) PROVE Settled
  <2>1. hash'.era = hash.era
    BY Zenon, <1>4 DEF UpgradePasswordHash, Rehashed, TypeInv, TypeOK, Hash
  <2> QED BY Zenon, <1>0, <1>4, <2>1 DEF UpgradePasswordHash
<1>5. ASSUME NEW i \in Slots, Handle(i) PROVE Settled \/ LoggedIn
  <2>1. ASSUME NEW d \in Devices, LoginRecord(i, d) PROVE Settled
    BY Zenon, <1>0, <2>1 DEF LoginRecord
  <2>2. CASE LoginRecheck(i)
    BY Zenon, <1>0, <2>2 DEF LoginRecheck
  <2>3. ASSUME NEW kind \in Kinds, NEW n \in 1..issued, Authenticate(i, kind, n) PROVE Settled
    BY Zenon, <1>0, <2>3 DEF Authenticate
  <2>4. ASSUME NEW d \in Reserved, RecoveryClaimRecord(i, d) PROVE Settled
    BY Zenon, <1>0, <2>4 DEF RecoveryClaimRecord
  <2>5. CASE ClaimRecovery(i)
    BY Zenon, <1>0, <2>5 DEF ClaimRecovery
  <2> QED BY Zenon, <1>2, <1>3, <1>4, <1>5, <2>1, <2>2, <2>3, <2>4, <2>5 DEF Handle
<1>6. ASSUME NEW pw \in Passwords, ResetOwnerPassword(pw) PROVE Settled
  <2>1. sessions' = {}
    BY Zenon, <1>6 DEF ResetOwnerPassword, StorePassword
  <2> QED BY Zenon, <1>6, <2>1 DEF ResetOwnerPassword, Settled, Inherits, DevicesFall
<1>7. ASSUME NEW to \in {"active", "suspended"}, SetAccountStatus(to) PROVE Settled
  <2>1. Inherits
    BY Zenon, <1>7, Kept DEF SetAccountStatus
  <2> QED BY Zenon, <1>7, <2>1 DEF SetAccountStatus, Settled, DevicesFall, Emptied, TypeInv, TypeOK
<1>8. ASSUME NEW d \in Reserved, RequestAges(d) PROVE Settled
  BY Zenon, <1>0, <1>8 DEF RequestAges
<1>9. ASSUME NEW d \in Reserved, CompleteRecovery(d) PROVE Settled \/ Recovered(d)
  <2>1. CASE Outcome(d) = "completed"
    <3>1. status = "active"
      BY Zenon, <2>1 DEF Outcome
    <3>2. requests'[d].state = "completed" /\ \A e \in Reserved \ {d} : requests'[e] = requests[e]
      BY Zenon, <1>9, <2>1 DEF CompleteRecovery, TypeInv, TypeOK, Request
    <3> QED BY Zenon, <1>9, <2>1, <3>1, <3>2 DEF CompleteRecovery, Recovered
  <2>2. CASE Outcome(d) # "completed"
    BY Zenon, <1>0, <1>9, <2>2 DEF CompleteRecovery
  <2> QED BY Zenon, <2>1, <2>2
<1>10. CASE SessionAges
  BY Zenon, <1>00, <1>10, AgesInherit DEF SessionAges
<1> QED BY Zenon, <1>1, <1>5, <1>6, <1>7, <1>8, <1>9, <1>10 DEF Next

\* A request waits because it did, or because it took its reservation now.
Claims ==
    /\ consumed \subseteq consumed'
    /\ \A d \in Reserved : requests'[d].state = "waiting" =>
           requests[d].state = "waiting" \/ (d \notin consumed /\ d \in consumed')

\* Only a status call completes a request.
Completes ==
    \A d \in Reserved :
        requests[d].state = "waiting" /\ requests'[d].state = "completed" => CompleteRecovery(d)

Tracks == WaitingMatchesCredentials' /\ Claims /\ Completes

\* No request waits after the step, and none completed in it.
Cancelled(after) ==
    \A d \in Reserved :
        /\ after[d].state # "waiting"
        /\ requests[d].state = "waiting" => after[d].state # "completed"

LEMMA NoneWaits ==
    ASSUME TypeInv
    PROVE  Cancelled(CancelWaitingRecovery)
BY Zenon DEF CancelWaitingRecovery, Cancelled, TypeInv, TypeOK, Request

LEMMA WaitingStep ==
    ASSUME TypeInv, TasksNamed, WaitingMatchesCredentials, [Next]_vars
    PROVE  Tracks
<1>0. ASSUME UNCHANGED <<hash, key, requests, consumed>> PROVE Tracks
  BY Zenon, <1>0 DEF Tracks, Claims, Completes, WaitingMatchesCredentials, CredentialsMoved
<1>00. ASSUME consumed' = consumed, Cancelled(requests') PROVE Tracks
  BY Zenon, <1>00 DEF Tracks, Claims, Completes, Cancelled, WaitingMatchesCredentials
<1>1. CASE UNCHANGED vars
  BY Zenon, <1>0, <1>1 DEF vars
<1>2. ASSUME NEW i \in Slots, SignedIn(i) PROVE Tracks
  <2>1. CASE ReauthenticationRecord(i) \/ RotateSession(i) \/ MarkSessionRecentlyAuthenticated(i)
             \/ DeleteSession(i) \/ DeleteAccountSessionsExcept(i)
    BY Zenon, <1>0, <2>1 DEF ReauthenticationRecord, RotateSession, MarkSessionRecentlyAuthenticated,
                      DeleteSession, DeleteAccountSessionsExcept
  <2>2. ASSUME NEW pw \in Passwords, HashNewPassword(i, pw) PROVE Tracks
    BY Zenon, <1>0, <2>2 DEF HashNewPassword
  <2>3. CASE ChangePassword(i)
    BY Zenon, <1>0, <1>00, <2>3, NoneWaits DEF ChangePassword, StorePassword
  <2>4. ASSUME NEW d \in Devices, RevokeDevice(i, d) PROVE Tracks
    BY Zenon, <1>0, <2>4 DEF RevokeDevice
  <2>5. CASE SetRecoveryKey(i)
    BY Zenon, <1>0, <1>00, <2>5, NoneWaits DEF SetRecoveryKey
  <2>6. ASSUME NEW d \in Reserved, CancelRecoveryRequest(i, d) PROVE Tracks
    BY Zenon, <1>0, <1>00, <2>6, NoneWaits DEF CancelRecoveryRequest
  <2>7. CASE DeleteAccountData(i)
    BY <1>0, <1>00, <2>7 DEF DeleteAccountData, NoRequest, Cancelled
  <2> QED BY Zenon, <1>2, <2>1, <2>2, <2>3, <2>4, <2>5, <2>6, <2>7 DEF SignedIn
<1>3. ASSUME NEW i \in Slots, UpgradePasswordHash(i) PROVE Tracks
  <2>1. CASE UNCHANGED <<hash, requests>>
    BY Zenon, <1>0, <1>3, <2>1 DEF UpgradePasswordHash
  <2>2. CASE hash' = Rehashed(hash) /\ requests' = FollowRehash(hash)
    <3>0. key' = key /\ consumed' = consumed
      BY Zenon, <1>3 DEF UpgradePasswordHash
    <3>1. ASSUME NEW d \in Reserved, requests'[d].state = "waiting"
          PROVE  /\ requests[d].state = "waiting"
                 /\ requests'[d].hash = hash' /\ requests'[d].key = key'
      <4>1. requests[d] \in Request
        BY Zenon DEF TypeInv, TypeOK
      <4>2. requests[d].state = "waiting"
        BY Zenon, <2>2, <3>1, <4>1 DEF FollowRehash, Request
      <4>3. requests[d].hash = hash /\ requests[d].key = key
        BY Zenon, <4>2 DEF WaitingMatchesCredentials, CredentialsMoved
      <4>4. requests'[d] = [requests[d] EXCEPT !.hash = Rehashed(hash)]
        BY Zenon, <2>2, <4>2, <4>3 DEF FollowRehash
      <4> QED BY Zenon, <2>2, <3>0, <4>1, <4>2, <4>3, <4>4 DEF Request
    <3>2. Completes
      <4> SUFFICES ASSUME NEW d \in Reserved, requests[d].state = "waiting" PROVE requests'[d].state # "completed"
        BY Zenon DEF Completes
      <4>1. requests[d] \in Request
        BY Zenon DEF TypeInv, TypeOK
      <4>2. requests'[d].state = "waiting"
        BY Zenon, <2>2, <4>1 DEF FollowRehash, Request
      <4> QED BY Zenon, <4>2
    <3> QED BY Zenon, <3>0, <3>1, <3>2 DEF Tracks, Claims, WaitingMatchesCredentials, CredentialsMoved
  <2> QED BY Zenon, <1>3, <2>1, <2>2 DEF UpgradePasswordHash
<1>4. ASSUME NEW i \in Slots, ClaimRecovery(i) PROVE Tracks
  <2> DEFINE t == tasks[i]
  <2>1. CASE ~ClaimStillHolds(t)
    BY Zenon, <1>0, <1>4, <2>1 DEF ClaimRecovery
  <2>2. CASE ClaimStillHolds(t)
    <3>1. t.device \in Reserved
      BY Zenon, <1>4 DEF ClaimRecovery, In, TasksNamed
    <3>2. PICK ready \in ReadyAtOnce :
              requests' = [CancelWaitingRecovery EXCEPT ![t.device] =
                  [state |-> "waiting", ready |-> ready, lapsed |-> FALSE, hash |-> t.hash, key |-> t.key]]
      BY Zenon, <1>4, <2>2 DEF ClaimRecovery
    <3>3. hash' = hash /\ key' = key /\ consumed' = consumed \cup {t.device}
      BY Zenon, <1>4, <2>2 DEF ClaimRecovery
    <3>4. requests'[t.device].hash = hash /\ requests'[t.device].key = key
      BY Zenon, <2>2, <3>1, <3>2 DEF ClaimStillHolds, CancelWaitingRecovery
    <3>5. \A d \in Reserved \ {t.device} :
              /\ requests'[d].state # "waiting"
              /\ requests[d].state = "waiting" => requests'[d].state # "completed"
      BY Zenon, <3>2, NoneWaits DEF CancelWaitingRecovery, Cancelled
    <3>6. t.device \notin consumed
      BY Zenon, <2>2 DEF ClaimStillHolds
    <3>7. requests'[t.device].state = "waiting"
      BY Zenon, <3>1, <3>2 DEF CancelWaitingRecovery
    <3>8. Completes
      BY Zenon, <3>5, <3>7 DEF Completes
    <3> HIDE DEF t
    <3>9. ASSUME NEW d \in Reserved, requests'[d].state = "waiting" PROVE d = t.device
      BY Zenon, <3>5, <3>9
    <3>10. Claims
      BY Zenon, <3>3, <3>6, <3>9 DEF Claims
    <3>11. WaitingMatchesCredentials'
      BY Zenon, <3>3, <3>4, <3>9 DEF WaitingMatchesCredentials, CredentialsMoved
    <3> QED BY Zenon, <3>8, <3>10, <3>11 DEF Tracks
  <2> QED BY Zenon, <2>1, <2>2
<1>5. ASSUME NEW i \in Slots, Handle(i) PROVE Tracks
  <2>1. ASSUME NEW d \in Devices, LoginRecord(i, d) PROVE Tracks
    BY Zenon, <1>0, <2>1 DEF LoginRecord
  <2>2. CASE LoginRecheck(i) \/ CreateLoginSession(i)
    BY Zenon, <1>0, <2>2 DEF LoginRecheck, CreateLoginSession
  <2>3. ASSUME NEW kind \in Kinds, NEW n \in 1..issued, Authenticate(i, kind, n) PROVE Tracks
    BY Zenon, <1>0, <2>3 DEF Authenticate
  <2>4. ASSUME NEW d \in Reserved, RecoveryClaimRecord(i, d) PROVE Tracks
    BY Zenon, <1>0, <2>4 DEF RecoveryClaimRecord
  <2> QED BY Zenon, <1>2, <1>3, <1>4, <1>5, <2>1, <2>2, <2>3, <2>4 DEF Handle
<1>6. ASSUME NEW pw \in Passwords, ResetOwnerPassword(pw) PROVE Tracks
  BY Zenon, <1>00, <1>6, NoneWaits DEF ResetOwnerPassword, StorePassword
<1>7. ASSUME NEW to \in {"active", "suspended"}, SetAccountStatus(to) PROVE Tracks
  BY Zenon, <1>0, <1>7 DEF SetAccountStatus
<1>8. ASSUME NEW d \in Reserved, RequestAges(d) \/ CompleteRecovery(d) PROVE Tracks
  <2>1. hash' = hash /\ key' = key /\ consumed' = consumed
    BY Zenon, <1>8 DEF RequestAges, CompleteRecovery
  <2>2. requests[d] \in Request /\ requests[d].state = "waiting"
    BY Zenon, <1>8 DEF RequestAges, CompleteRecovery, TypeInv, TypeOK
  <2>3. requests'[d].hash = requests[d].hash /\ requests'[d].key = requests[d].key
    BY <1>8, <2>2 DEF RequestAges, CompleteRecovery, TypeInv, TypeOK, Request
  <2>4. \A e \in Reserved \ {d} : requests'[e] = requests[e]
    BY Zenon, <1>8 DEF RequestAges, CompleteRecovery, TypeInv, TypeOK
  <2>5. RequestAges(d) => requests'[d].state = "waiting"
    BY <2>2 DEF RequestAges, TypeInv, TypeOK, Request
  <2>6. Completes
    BY Zenon, <1>8, <2>4, <2>5 DEF Completes
  <2> QED BY Zenon, <2>1, <2>2, <2>3, <2>4, <2>6 DEF Tracks, Claims, WaitingMatchesCredentials, CredentialsMoved
<1>9. CASE SessionAges
  BY Zenon, <1>0, <1>9 DEF SessionAges
<1> QED BY Zenon, <1>1, <1>5, <1>6, <1>7, <1>8, <1>9 DEF Next

(***************************************************************************)
(* The invariant, and the theorems.                                        *)
(***************************************************************************)

LEMMA NextInv ==
    ASSUME Inv, [Next]_vars
    PROVE  Inv'
<1> USE DEF Inv
<1>1. TypeInv' /\ TasksNamed'
  BY Zenon, TypeStep, NamedStep
<1>2. Tracks
  BY Zenon, WaitingStep DEF CredInv
<1>3. SessionsFollowPassword' /\ Emptied' /\ \A s \in sessions' : devices'[s.device] # "absent"
  <2>0. \A s \in sessions : s \in Session /\ s.device \in Devices
    BY Zenon DEF TypeInv, TypeOK, Session
  <2>1. CASE Settled
    BY <2>0, <2>1 DEF Settled, Inherits, DevicesFall, Emptied, EnrolledOnce, CredInv, SessionsFollowPassword
  <2>2. CASE LoggedIn
    BY <2>0, <2>2 DEF LoggedIn, NewRow, Emptied, EnrolledOnce, CredInv, SessionsFollowPassword
  <2>3. ASSUME NEW d \in Reserved, Recovered(d)
        PROVE  SessionsFollowPassword' /\ Emptied' /\ \A s \in sessions' : devices'[s.device] # "absent"
    <3>1. d \in Devices
      BY Zenon DEF Devices
    <3>2. \A s \in sessions' : s \in sessions \/ (s.device = d /\ s.era = hash.era)
      BY <2>3 DEF Recovered, HandOver
    <3>3. devices'[d] = "active" /\ \A e \in Devices : devices[e] # "absent" => devices'[e] # "absent"
      BY Zenon, <2>3, <3>1 DEF Recovered, HandOver
    <3>4. SessionsFollowPassword'
      BY Zenon, <2>3, <3>2 DEF Recovered, CredInv, SessionsFollowPassword
    <3>5. Emptied'
      BY Zenon, <2>3 DEF Recovered, Emptied
    <3> QED BY Zenon, <2>0, <3>2, <3>3, <3>4, <3>5 DEF EnrolledOnce
  <2> QED BY Zenon, <2>1, <2>2, <2>3, Shape DEF Inv
<1>4. ASSUME NEW j \in Slots, tasks'[j].kind = "login" PROVE devices'[tasks'[j].device] # "absent"
  <2>1. \A d \in Devices : devices[d] # "absent" => devices'[d] # "absent"
    BY Zenon, Shape DEF Settled, DevicesFall, LoggedIn, Recovered, HandOver
  <2>2. CASE Quiet
    BY Zenon, <1>4, <2>1, <2>2 DEF Quiet, EnrolledOnce, TasksNamed
  <2>3. ASSUME NEW i \in Slots, NEW d \in Devices, LoginRecord(i, d)
        PROVE  devices'[tasks'[j].device] # "absent"
    <3>1. CASE j = i
      BY Zenon, <2>3, <3>1 DEF LoginRecord, CanSignIn, Begin, Idle, TypeInv, TypeOK
    <3>2. CASE j # i
      BY Zenon, <1>4, <2>1, <2>3, <3>2 DEF LoginRecord, Begin, EnrolledOnce, TasksNamed, TypeInv, TypeOK
    <3> QED BY Zenon, <3>1, <3>2
  <2>4. ASSUME NEW i \in Slots, NEW d \in Reserved, RecoveryClaimRecord(i, d)
        PROVE  devices'[tasks'[j].device] # "absent"
    <3>1. j # i
      BY Zenon, <1>4, <2>4 DEF RecoveryClaimRecord, Begin, Idle, TypeInv, TypeOK
    <3> QED BY Zenon, <1>4, <2>1, <2>4, <3>1 DEF RecoveryClaimRecord, Begin, EnrolledOnce, TasksNamed, TypeInv, TypeOK
  <2> QED BY Zenon, <2>2, <2>3, <2>4, QuietStep
<1>5. \A d \in Reserved :
        /\ d \notin consumed' \/ requests'[d].state = "waiting" => devices'[d] = "absent"
        /\ requests'[d].state = "waiting" => d \in consumed'
  <2>1. ASSUME NEW d \in Reserved PROVE requests'[d].state = "waiting" => d \in consumed'
    BY Zenon, <1>2 DEF Tracks, Claims, EnrolledOnce
  <2>2. ASSUME NEW d \in Reserved, d \notin consumed' \/ requests'[d].state = "waiting"
        PROVE  devices'[d] = "absent"
    <3>1. devices[d] = "absent" /\ d \in Devices
      BY Zenon, <1>2, <2>2 DEF Tracks, Claims, EnrolledOnce, Devices
    <3>2. CASE Settled \/ LoggedIn
      BY Zenon, <3>1, <3>2 DEF Settled, DevicesFall, LoggedIn
    <3>3. ASSUME NEW e \in Reserved, Recovered(e) PROVE devices'[d] = "absent"
      <4>1. d # e
        BY Zenon, <1>2, <2>2, <3>3 DEF Recovered, Tracks, Claims, EnrolledOnce
      <4> QED BY Zenon, <3>1, <3>3, <4>1 DEF Recovered, HandOver
    <3> QED BY Zenon, <3>2, <3>3, Shape
  <2> QED BY Zenon, <2>1, <2>2
<1>6. CredInv'
  BY Zenon, <1>2, <1>3 DEF CredInv, Tracks
<1>7. EnrolledOnce'
  BY Zenon, <1>3, <1>4, <1>5 DEF EnrolledOnce
<1> QED BY Zenon, <1>1, <1>3, <1>6, <1>7

\* The inductive invariant holds in every reachable state.
THEOREM AlwaysInv == Spec => []Inv
BY InitInv, NextInv, PTL DEF Spec

\* Account rows, sessions, requests and tasks keep their types.
THEOREM TypeCorrect == Spec => []TypeOK
<1>1. Inv => TypeOK
  BY Zenon DEF Inv, TypeInv
<1> QED BY <1>1, AlwaysInv, PTL

\* No session outlives the password it was opened under, whatever logins,
\* rotations and password changes are in flight.
THEOREM SessionsFollow == Spec => []SessionsFollowPassword
<1>1. Inv => SessionsFollowPassword
  BY Zenon DEF Inv, CredInv
<1> QED BY <1>1, AlwaysInv, PTL

\* A waiting recovery request always holds the credentials stored now, so the
\* comparison in CompleteRecovery never fails.
THEOREM WaitingMatches == Spec => []WaitingMatchesCredentials
<1>1. Inv => WaitingMatchesCredentials
  BY Zenon DEF Inv, CredInv
<1> QED BY <1>1, AlwaysInv, PTL

\* A token once refused is refused for ever.
THEOREM TokensEnd == Spec => NoTokenComesBack
<1>1. ASSUME Inv, [Next]_vars PROVE (1..issued \ Accepted) \cap Accepted' = {}
  <2> USE DEF Inv
  <2> SUFFICES ASSUME NEW n \in 1..issued, n \in Accepted' PROVE n \in Accepted
    BY Zenon DEF Accepted
  <2>0. \A s \in sessions : s.device \in Devices
    BY Zenon, <1>1 DEF TypeInv, TypeOK, Session
  <2>1. PICK s \in sessions' : status' = "active" /\ devices'[s.device] = "active" /\ Owns(s, n)
    BY Zenon DEF Accepted, Valid, Owns
  <2>2. ASSUME NEW r \in sessions, status = "active", devices[r.device] = "active", Owns(r, n)
        PROVE  n \in Accepted
    BY Zenon, <2>2 DEF Accepted, Valid
  <2>3. CASE Settled
    BY ZenonT(60), <2>0, <2>1, <2>2, <2>3 DEF Settled, Inherits, DevicesFall
  <2>4. n # issued + 1 /\ n # 0
    BY <1>1 DEF TypeInv, TypeOK
  <2>5. CASE LoggedIn
    <3>1. s \in sessions
      BY <2>1, <2>4, <2>5 DEF LoggedIn, NewRow, Owns
    <3> QED BY Zenon, <2>1, <2>2, <2>5, <3>1 DEF LoggedIn
  <2>6. ASSUME NEW d \in Reserved, Recovered(d) PROVE n \in Accepted
    <3>1. s.device # d
      <4>1. devices[d] = "absent"
        BY Zenon, <1>1, <2>6 DEF Recovered, EnrolledOnce
      <4>2. ASSUME s \in sessions PROVE s.device # d
        BY Zenon, <1>1, <4>1, <4>2 DEF EnrolledOnce
      <4>3. ASSUME s \notin sessions PROVE FALSE
        BY <2>1, <2>4, <2>6, <4>3 DEF Recovered, HandOver, Owns
      <4> QED BY Zenon, <4>2, <4>3
    <3>2. s \in sessions /\ devices[s.device] # "active"
      BY <2>6, <3>1 DEF Recovered, HandOver
    <3>3. devices'[s.device] # "active"
      BY Zenon, <2>0, <2>6, <3>1, <3>2 DEF Recovered, HandOver
    <3> QED BY Zenon, <2>1, <3>3
  <2> QED BY Zenon, <1>1, <2>3, <2>5, <2>6, Shape
<1> QED BY <1>1, AlwaysInv, PTL DEF Spec, NoTokenComesBack

\* A completed recovery leaves the account with the new device's session only.
THEOREM RecoveryIsAlone == Spec => RecoveredAlone
<1>1. ASSUME Inv, [Next]_vars, NEW d \in Reserved,
             requests[d].state = "waiting", requests'[d].state = "completed"
      PROVE  Accepted' = {issued'}
  <2> USE DEF Inv
  <2>1. CompleteRecovery(d)
    BY Zenon, <1>1, WaitingStep DEF CredInv, Tracks, Completes
  <2>2. Outcome(d) = "completed"
    BY Zenon, <1>1, <2>1 DEF CompleteRecovery, TypeInv, TypeOK, Request
  <2>3. HandOver(d) /\ status' = "active"
    BY Zenon, <2>1, <2>2 DEF CompleteRecovery, Outcome
  <2>4. d \in Devices /\ devices[d] = "absent"
    BY Zenon, <1>1 DEF EnrolledOnce, Devices
  <2>5. \A s \in sessions : s.device \in Devices /\ s.device # d
    BY Zenon, <1>1, <2>4 DEF TypeInv, TypeOK, Session, EnrolledOnce
  <2> DEFINE new == [token |-> issued + 1, prev |-> 0, grace |-> FALSE, device |-> d,
                     recent |-> FALSE, era |-> hash.era]
  <2>6. new.token = issued + 1 /\ new.device = d /\ new.grace = FALSE
    BY Zenon
  <2>7. sessions' = {s \in sessions : devices[s.device] # "active"} \cup {new}
    BY Zenon, <2>3 DEF HandOver
  <2> HIDE DEF new
  <2>8. \A s \in sessions' : devices'[s.device] = "active" => s = new
    BY Zenon, <2>3, <2>5, <2>7 DEF HandOver
  <2>9. new \in sessions' /\ devices'[new.device] = "active" /\ issued' = issued + 1
    BY Zenon, <2>3, <2>4, <2>6, <2>7 DEF HandOver
  <2>10. issued + 1 \in 1..(issued + 1)
    BY <1>1 DEF TypeInv, TypeOK
  <2>11. \A n \in 1..issued' : n \in Accepted' <=> \E s \in sessions' : devices'[s.device] = "active" /\ Owns(s, n)
    BY Zenon, <2>3 DEF Accepted, Valid, Owns
  <2>12. \A n : Owns(new, n) <=> n = issued + 1
    BY Zenon, <2>6 DEF Owns
  <2>13. Accepted' \subseteq 1..issued'
    BY Zenon DEF Accepted
  <2>14. issued' \in Accepted'
    BY Zenon, <2>9, <2>10, <2>11, <2>12
  <2>15. \A n \in Accepted' : n = issued'
    BY Zenon, <2>8, <2>9, <2>11, <2>12, <2>13
  <2>16. \A A : \A x \in A : (\A n \in A : n = x) => A = {x}
    BY Zenon
  <2> QED BY <2>14, <2>15, <2>16, Zenon
<1>2. ASSUME Inv, [Next]_vars
      PROVE  \A d \in Reserved :
                 requests[d].state = "waiting" /\ requests[d].state' = "completed" => Accepted' = {issued'}
  BY Zenon, <1>1, <1>2
<1> QED BY <1>2, AlwaysInv, PTL DEF Spec, RecoveredAlone

(***************************************************************************)
(* A rehash and the logins in flight.                                      *)
(***************************************************************************)

\* g, stored while the status is st, came after h or is h: h is of an older
\* password, or of the same one and no newer.
Follows(h, g, st) ==
    /\ h.era <= g.era
    /\ h.era = g.era /\ st # "deleted" => h.pw = g.pw /\ h.v <= g.v

\* Only the first password's hash is of the old kind, and a login that checked
\* a second time holds one of the new kind.
HashInv ==
    /\ hash.era <= changes
    /\ hash.era # 0 => hash.v = 1
    /\ \A i \in Slots : tasks[i].kind = "login" =>
        Follows(tasks[i].hash, hash, status) /\ (tasks[i].at = "again" => tasks[i].hash.v = 1)

\* No request touches another's.
LEMMA OthersStay ==
    ASSUME TypeInv, NEW i \in Slots, NEW j \in Slots, i # j, Handle(j)
    PROVE  tasks'[i] = tasks[i]
<1>0. tasks \in [Slots -> Task]
  BY Zenon DEF TypeInv, TypeOK
<1>1. ASSUME NEW x, tasks' = [tasks EXCEPT ![j] = x] PROVE tasks'[i] = tasks[i]
  BY Zenon, <1>0, <1>1
<1>2. ASSUME NEW x, tasks' = [tasks EXCEPT ![j].at = x] PROVE tasks'[i] = tasks[i]
  BY Zenon, <1>0, <1>2
<1>3. ASSUME NEW x, NEW y, tasks' = [tasks EXCEPT ![j].hash = x, ![j].at = y] PROVE tasks'[i] = tasks[i]
  BY <1>0, <1>3
<1>4. ASSUME NEW x, NEW y, tasks' = [tasks EXCEPT ![j].at = x, ![j].hash.pw = y] PROVE tasks'[i] = tasks[i]
  BY <1>0, <1>4
<1>5. ASSUME NEW x, NEW y, tasks' = [tasks EXCEPT ![j].at = x, ![j].hash = y] PROVE tasks'[i] = tasks[i]
  BY <1>0, <1>5
<1>6. Finish(j) => tasks'[i] = tasks[i]
  BY Zenon, <1>1 DEF Finish
<1>7. \A x : Move(j, x) => tasks'[i] = tasks[i]
  BY Zenon, <1>2 DEF Move
<1>8. \A x : Begin(j, x) => tasks'[i] = tasks[i]
  BY Zenon, <1>1 DEF Begin
<1>9. CASE SignedIn(j)
  <2>1. ReauthenticationRecord(j) => tasks'[i] = tasks[i]
    BY Zenon, <1>3, <1>6 DEF ReauthenticationRecord
  <2>2. \A pw \in Passwords : HashNewPassword(j, pw) => tasks'[i] = tasks[i]
    BY Zenon, <1>4, <1>6 DEF HashNewPassword
  <2> QED BY Zenon, <1>6, <1>9, <2>1, <2>2
      DEF SignedIn, RotateSession, MarkSessionRecentlyAuthenticated, ChangePassword, DeleteSession,
          DeleteAccountSessionsExcept, RevokeDevice, SetRecoveryKey, CancelRecoveryRequest, DeleteAccountData
<1>10. CASE CreateLoginSession(j)
  BY Zenon, <1>6, <1>7, <1>10 DEF CreateLoginSession
<1>11. CASE LoginRecheck(j)
  BY Zenon, <1>5, <1>6, <1>11 DEF LoginRecheck
<1>12. CASE UpgradePasswordHash(j)
  BY Zenon, <1>6, <1>7, <1>12 DEF UpgradePasswordHash
<1>13. CASE ClaimRecovery(j)
  BY Zenon, <1>6, <1>13 DEF ClaimRecovery
<1>14. ASSUME NEW d, LoginRecord(j, d) \/ RecoveryClaimRecord(j, d) PROVE tasks'[i] = tasks[i]
  BY Zenon, <1>8, <1>14 DEF LoginRecord, RecoveryClaimRecord
<1>15. ASSUME NEW kind, NEW n, Authenticate(j, kind, n) PROVE tasks'[i] = tasks[i]
  BY Zenon, <1>8, <1>15 DEF Authenticate
<1> QED BY Zenon, <1>9, <1>10, <1>11, <1>12, <1>13, <1>14, <1>15 DEF Handle

\* What moves a login on.
LEMMA LoginStep ==
    ASSUME TypeInv, [Next]_vars, NEW i \in Slots, tasks[i].kind = "login"
    PROVE  \/ tasks'[i] = tasks[i]
           \/ CreateLoginSession(i) \/ LoginRecheck(i) \/ UpgradePasswordHash(i)
<1>1. CASE Handle(i)
  <2>1. ~SignedIn(i)
    BY Zenon DEF SignedIn, ReauthenticationRecord, RotateSession, MarkSessionRecentlyAuthenticated,
                 HashNewPassword, ChangePassword, DeleteSession, DeleteAccountSessionsExcept,
                 RevokeDevice, SetRecoveryKey, CancelRecoveryRequest, DeleteAccountData, In
  <2>2. ~ClaimRecovery(i) /\ \A d : ~LoginRecord(i, d) /\ ~RecoveryClaimRecord(i, d)
    BY Zenon DEF ClaimRecovery, In, LoginRecord, RecoveryClaimRecord, Begin
  <2>3. \A kind, n : ~Authenticate(i, kind, n)
    BY Zenon DEF Authenticate, Begin
  <2> QED BY Zenon, <1>1, <2>1, <2>2, <2>3 DEF Handle
<1>2. ASSUME NEW j \in Slots, j # i, Handle(j) PROVE tasks'[i] = tasks[i]
  BY Zenon, <1>2, OthersStay
<1>3. CASE UNCHANGED tasks
  BY Zenon, <1>3
<1> QED BY Zenon, <1>1, <1>2, <1>3
    DEF Next, vars, ResetOwnerPassword, SetAccountStatus, CompleteRecovery, RequestAges, SessionAges

\* The stored hash stays, is rehashed, is a new password's, or goes with the
\* account.
LEMMA HashStep ==
    ASSUME TypeInv, HashInv, [Next]_vars
    PROVE  /\ hash'.era <= changes' /\ (hash'.era # 0 => hash'.v = 1)
           /\ \A h \in Hash : Follows(h, hash, status) => Follows(h, hash', status')
<1>0. /\ hash \in Hash /\ changes \in 0..MaxChanges /\ hash.era \in 0..MaxChanges /\ hash.v \in {0, 1}
      /\ \A h \in Hash : h.era \in 0..MaxChanges /\ h.v \in {0, 1}
  BY Zenon DEF TypeInv, TypeOK, Hash
<1> DEFINE Goal == /\ hash'.era <= changes' /\ (hash'.era # 0 => hash'.v = 1)
                   /\ \A h \in Hash : Follows(h, hash, status) => Follows(h, hash', status')
<1>1. ASSUME hash' = hash, changes' = changes \/ changes' = changes + 1,
             status = "deleted" => status' = "deleted"
      PROVE  Goal
  BY <1>0, <1>1 DEF HashInv, Follows
<1>2. ASSUME hash' = Rehashed(hash), changes' = changes, status' = status PROVE Goal
  <2>1. hash'.era = hash.era /\ hash'.pw = hash.pw /\ hash'.v = 1
    BY <1>0, <1>2 DEF Rehashed, Hash
  <2> QED BY <1>0, <1>2, <2>1 DEF HashInv, Follows
<1>3. ASSUME NEW pw, hash' = [pw |-> pw, era |-> changes + 1, v |-> 1], changes' = changes + 1 PROVE Goal
  <2>1. hash'.era = changes + 1 /\ hash'.v = 1
    BY <1>3
  <2>2. \A h \in Hash : Follows(h, hash, status) => h.era <= hash.era
    BY Zenon DEF Follows
  <2> QED BY <1>0, <1>3, <2>1, <2>2 DEF HashInv, Follows
<1>4. ASSUME hash' = [hash EXCEPT !.pw = 0, !.v = 1], status' = "deleted", changes' = changes PROVE Goal
  <2>1. hash'.era = hash.era /\ hash'.v = 1
    BY <1>0, <1>4 DEF Hash
  <2> QED BY <1>0, <1>4, <2>1 DEF HashInv, Follows
<1>5. ASSUME NEW i \in Slots, SignedIn(i) PROVE Goal
  <2>1. CASE ChangePassword(i)
    BY Zenon, <1>1, <1>3, <2>1 DEF ChangePassword, StorePassword
  <2>2. CASE DeleteAccountData(i)
    BY Zenon, <1>1, <1>4, <2>2 DEF DeleteAccountData
  <2>3. CASE SetRecoveryKey(i)
    BY Zenon, <1>1, <2>3 DEF SetRecoveryKey
  <2> QED BY Zenon, <1>1, <1>5, <2>1, <2>2, <2>3
      DEF SignedIn, ReauthenticationRecord, RotateSession, MarkSessionRecentlyAuthenticated,
          HashNewPassword, DeleteSession, DeleteAccountSessionsExcept, RevokeDevice, CancelRecoveryRequest
<1>6. ASSUME NEW i \in Slots, UpgradePasswordHash(i) PROVE Goal
  BY Zenon, <1>1, <1>2, <1>6 DEF UpgradePasswordHash
<1>7. ASSUME NEW i \in Slots, Handle(i), ~SignedIn(i), ~UpgradePasswordHash(i) PROVE Goal
  BY Zenon, <1>1, <1>7 DEF Handle, LoginRecord, CreateLoginSession, LoginRecheck, Authenticate,
                           RecoveryClaimRecord, ClaimRecovery
<1>8. ASSUME NEW pw, ResetOwnerPassword(pw) PROVE Goal
  BY Zenon, <1>3, <1>8 DEF ResetOwnerPassword, StorePassword
<1>9. ASSUME NEW to, SetAccountStatus(to) PROVE Goal
  BY Zenon, <1>1, <1>9 DEF SetAccountStatus
<1>10. ASSUME NEW d, CompleteRecovery(d) \/ RequestAges(d) PROVE Goal
  BY Zenon, <1>1, <1>10 DEF CompleteRecovery, RequestAges
<1>11. CASE SessionAges \/ UNCHANGED vars
  BY Zenon, <1>1, <1>11 DEF SessionAges, vars
<1> QED BY Zenon, <1>5, <1>6, <1>7, <1>8, <1>9, <1>10, <1>11 DEF Next

LEMMA HashInvStep ==
    ASSUME TypeInv, HashInv, [Next]_vars
    PROVE  HashInv'
<1>0. /\ tasks \in [Slots -> Task] /\ hash \in Hash /\ hash.era \in 0..MaxChanges /\ hash.v \in {0, 1}
      /\ \A t \in Task : t.hash \in Hash
      /\ \A h \in Hash : h.era \in 0..MaxChanges /\ h.v \in {0, 1}
  BY Zenon DEF TypeInv, TypeOK, Hash, Task
<1>1. ASSUME NEW h \in Hash, Follows(h, hash, status) PROVE Follows(h, hash', status')
  BY Zenon, <1>1, HashStep
<1>2. Follows(hash, hash, status)
  BY <1>0 DEF Follows
<1>3. ASSUME NEW i \in Slots, tasks'[i].kind = "login"
      PROVE  Follows(tasks'[i].hash, hash', status') /\ (tasks'[i].at = "again" => tasks'[i].hash.v = 1)
  <2>0. tasks[i] \in Task /\ tasks[i].hash \in Hash
    BY Zenon, <1>0
  <2>1. CASE tasks[i].kind # "login"
    <3>1. ~Quiet
      BY Zenon, <1>3, <2>1 DEF Quiet
    <3>2. ASSUME NEW j \in Slots, NEW d \in Reserved, RecoveryClaimRecord(j, d) PROVE FALSE
      BY Zenon, <1>0, <1>3, <2>1, <3>2 DEF RecoveryClaimRecord, Begin, Idle
    <3>3. PICK j \in Slots, d \in Devices : LoginRecord(j, d)
      BY Zenon, <3>1, <3>2, QuietStep
    <3>4. i = j
      BY Zenon, <1>0, <1>3, <2>1, <3>3 DEF LoginRecord, Begin
    <3>5. tasks'[i] = [Idle EXCEPT !.kind = "login", !.device = d, !.hash = hash]
      BY Zenon, <1>0, <3>3, <3>4 DEF LoginRecord, Begin
    <3>6. tasks'[i].hash = hash /\ tasks'[i].at = "read"
      BY Zenon, <3>5 DEF Idle
    <3> QED BY Zenon, <1>0, <1>1, <1>2, <3>6
  <2>2. CASE tasks[i].kind = "login"
    <3>0. Follows(tasks[i].hash, hash, status) /\ (tasks[i].at = "again" => tasks[i].hash.v = 1)
      BY Zenon, <2>2 DEF HashInv
    <3>1. CASE tasks'[i].hash = tasks[i].hash /\ (tasks'[i].at = "again" => tasks[i].at = "again")
      BY Zenon, <1>1, <2>0, <3>0, <3>1
    <3>2. CASE Move(i, "refused") \/ Move(i, "upgrade") \/ Move(i, "store")
      <4>1. tasks'[i].hash = tasks[i].hash /\ tasks'[i].at # "again"
        BY <1>0, <3>2 DEF Move, Task
      <4> QED BY Zenon, <3>1, <4>1
    <3>3. ~Finish(i)
      BY <1>0, <1>3 DEF Finish, Idle
    <3>4. CASE LoginRecheck(i)
      <4>1. WorthRechecking(tasks[i]) /\ tasks' = [tasks EXCEPT ![i].at = "again", ![i].hash = hash]
        BY Zenon, <3>3, <3>4 DEF LoginRecheck
      <4>2. tasks'[i].hash = hash
        BY <1>0, <4>1 DEF Task
      <4>3. status = "active" /\ hash # tasks[i].hash /\ hash.pw = tasks[i].hash.pw
        BY Zenon, <4>1 DEF WorthRechecking, CanSignIn
      <4>4. hash.era # tasks[i].hash.era \/ hash.v # tasks[i].hash.v
        BY <1>0, <2>0, <4>3 DEF Hash
      <4>5. hash.v = 1
        BY <1>0, <2>0, <3>0, <4>3, <4>4 DEF HashInv, Follows
      <4> QED BY Zenon, <1>0, <1>1, <1>2, <4>2, <4>5
    <3> QED BY Zenon, <2>2, <3>1, <3>2, <3>3, <3>4, LoginStep DEF CreateLoginSession, UpgradePasswordHash
  <2> QED BY Zenon, <2>1, <2>2
<1> QED BY Zenon, <1>3, HashStep DEF HashInv

\* A login whose password is still the stored one is never turned away by a
\* rehash: the second look finds the new hash, and no rehash follows it.
THEOREM RehashIsHarmless == Spec => RehashNeverRefusesLogin
<1>1. Init => HashInv
  <2> SUFFICES ASSUME Init PROVE HashInv
    BY Zenon
  <2>1. hash.era = 0 /\ changes = 0
    BY DEF Init
  <2>2. \A i \in Slots : tasks[i].kind # "login"
    BY Zenon DEF Init, Idle
  <2> QED BY <2>1, <2>2 DEF HashInv
<1>2. Inv /\ HashInv /\ [Next]_vars => HashInv'
  BY Zenon, HashInvStep DEF Inv
<1>3. ASSUME Inv, HashInv, [Next]_vars, NEW i \in Slots,
             In(i, "login", "refused") \/ In(i, "login", "again"),
             tasks'[i].kind = "idle", sessions' = sessions,
             CanSignIn(tasks[i].device), hash # tasks[i].hash
      PROVE  hash.era # tasks[i].hash.era
  <2>0. /\ tasks[i] \in Task /\ tasks[i].hash \in Hash /\ hash \in Hash
        /\ \A h \in Hash : h.era \in 0..MaxChanges /\ h.v \in {0, 1}
    BY Zenon, <1>3 DEF Inv, TypeInv, TypeOK, Task, Hash
  <2>1. tasks[i].kind = "login" /\ status = "active" /\ tasks[i].at # "upgrade"
    BY Zenon, <1>3 DEF In, CanSignIn
  <2>2. Follows(tasks[i].hash, hash, status)
    BY Zenon, <1>3, <2>1 DEF HashInv
  <2>3. CreateLoginSession(i) \/ LoginRecheck(i)
    BY Zenon, <1>3, <2>1, LoginStep DEF Inv, UpgradePasswordHash
  <2>4. CASE CreateLoginSession(i)
    <3>1. tasks[i].at = "again"
      BY Zenon, <1>3, <2>4 DEF CreateLoginSession, In
    <3>2. tasks[i].hash.v = 1
      BY Zenon, <1>3, <2>1, <3>1 DEF HashInv
    <3> QED BY <1>3, <2>0, <2>1, <2>2, <3>2 DEF Follows, Hash
  <2>5. CASE LoginRecheck(i)
    <3>1. ~WorthRechecking(tasks[i])
      <4>1. ASSUME tasks' = [tasks EXCEPT ![i].at = "again", ![i].hash = hash] PROVE tasks'[i].kind = "login"
        BY <1>3, <2>1, <4>1 DEF Inv, TypeInv, TypeOK, Task
      <4> QED BY Zenon, <1>3, <2>5, <4>1 DEF LoginRecheck
    <3>2. hash.pw # tasks[i].hash.pw
      BY Zenon, <1>3, <3>1 DEF WorthRechecking
    <3> QED BY Zenon, <2>1, <2>2, <3>2 DEF Follows
  <2> QED BY Zenon, <2>3, <2>4, <2>5
<1>4. ASSUME Inv, HashInv, [Next]_vars
      PROVE  \A i \in Slots :
                 /\ In(i, "login", "refused") \/ In(i, "login", "again")
                 /\ tasks'[i].kind = "idle" /\ sessions' = sessions
                 /\ CanSignIn(tasks[i].device)
                 /\ hash # tasks[i].hash
                 => hash.era # tasks[i].hash.era
  BY Zenon, <1>3, <1>4
<1> QED BY <1>1, <1>2, <1>4, AlwaysInv, PTL DEF Spec, RehashNeverRefusesLogin

-----------------------------------------------------------------------------
(***************************************************************************)
(* Recovery downloads: recorded progress is what was sent, for any size of *)
(* a backup, number of uploads and number of concurrent requests.          *)
(***************************************************************************)

TransfersSpec == TransfersInit /\ [][TransfersNext]_transferVars

BackupRow == [owner : Owners, counter : Nat, capability : BOOLEAN, expired : BOOLEAN,
        next : Nat, lease : Nat, left : Nat]

TransferRequest == [at : {"streaming", "ending"}, backup : BackupIds, start : Nat, expected : Nat,
            sent : Nat, cutOff : BOOLEAN]

Ended == [at |-> "done"]
Busy(t) == transfer[t].at \in {"streaming", "ending"}

TransferType ==
    /\ backups \in [BackupIds -> BackupRow \cup {NoBackup}]
    /\ uploaded \in Nat
    /\ transfer \in [Transfers -> TransferRequest \cup {Unstarted, Ended}]
    /\ latest \in [BackupIds -> Nat]
    /\ flushed \in [BackupIds -> SUBSET (0..Size - 1)]

\* The recorded progress of a backup was flushed.
Covered(b) == \A i \in 0..backups[b].next - 1 : i \in flushed[b]

\* The range of a request at work lies in the backup, and what it counts as
\* sent was flushed, and counts if no other request began since.
InRange(t, s) ==
    /\ s.start < Size /\ s.start + s.expected <= Size /\ s.sent <= s.expected
    /\ latest[s.backup] = t => \A i \in s.start..s.start + s.sent - 1 : i \in flushed[s.backup]

\* Progress is contiguous, and a request that holds a lease began last, and no
\* later than the progress recorded since.
TransfersInv ==
    /\ TransferType
    /\ \A b \in Stored : Covered(b)
    /\ \A t \in Transfers : Busy(t) =>
          /\ InRange(t, transfer[t])
          /\ LET b == transfer[t].backup
             IN  b \in Stored /\ backups[b].lease = t => transfer[t].start <= backups[b].next /\ latest[b] = t

\* The initial state satisfies the invariant.
LEMMA TransfersInitInv == TransfersInit => TransfersInv
BY TransfersAssumption DEF TransfersInit, TransfersInv, TransferType, Stored, Busy, Unstarted

\* A step that only touches rows, and leaves progress and lease of each as
\* they are or clears them, preserves it.
LEMMA TransferRowsInv ==
    ASSUME TransfersInv, UNCHANGED <<transfer, latest, flushed>>, uploaded' \in Nat,
           backups' \in [BackupIds -> BackupRow \cup {NoBackup}],
           \A b \in BackupIds : backups'[b] # NoBackup =>
              \/ backups'[b].next = 0 /\ backups'[b].lease = 0
              \/ b \in Stored /\ backups'[b].next = backups[b].next /\ backups'[b].lease = backups[b].lease
    PROVE  TransfersInv'
<1>1. TransferType'
  BY Zenon DEF TransfersInv, TransferType
<1>2. \A b \in Stored' : Covered(b)'
  BY DEF TransfersInv, TransferType, Stored, Covered
<1>3. ASSUME NEW t \in Transfers, Busy(t)' PROVE InRange(t, transfer[t])'
  BY Zenon, <1>3 DEF TransfersInv, Busy, InRange
<1>4. ASSUME NEW t \in Transfers, Busy(t)', transfer'[t].backup \in Stored',
             backups'[transfer'[t].backup].lease = t
      PROVE  transfer'[t].start <= backups'[transfer'[t].backup].next /\ latest'[transfer'[t].backup] = t
  BY Zenon, <1>4, TransfersAssumption DEF TransfersInv, Busy, Stored
<1>5. QED
  BY Zenon, <1>1, <1>2, <1>3, <1>4 DEF TransfersInv

\* A step that only touches one request, and leaves it what it had or ends
\* it, preserves it.
LEMMA RequestInv ==
    ASSUME TransfersInv, NEW t \in Transfers, UNCHANGED <<backups, uploaded, latest, flushed>>,
           transfer' \in [Transfers -> TransferRequest \cup {Unstarted, Ended}],
           \A o \in Transfers \ {t} : transfer'[o] = transfer[o],
           Busy(t)' => /\ Busy(t) /\ InRange(t, transfer'[t])
                       /\ transfer'[t].backup = transfer[t].backup /\ transfer'[t].start = transfer[t].start
    PROVE  TransfersInv'
<1>1. TransferType'
  BY Zenon DEF TransfersInv, TransferType
<1>2. \A b \in Stored' : Covered(b)'
  BY Zenon DEF TransfersInv, Stored, Covered
<1>3. ASSUME NEW o \in Transfers, Busy(o)' PROVE InRange(o, transfer[o])'
  BY Zenon, <1>3 DEF TransfersInv, Busy, InRange
<1>4. ASSUME NEW o \in Transfers, Busy(o)', transfer'[o].backup \in Stored',
             backups'[transfer'[o].backup].lease = o
      PROVE  transfer'[o].start <= backups'[transfer'[o].backup].next /\ latest'[transfer'[o].backup] = o
  <2>1. /\ Busy(o) /\ transfer'[o].backup = transfer[o].backup /\ transfer'[o].start = transfer[o].start
        /\ backups' = backups /\ latest' = latest
    BY Zenon, <1>4 DEF Busy
  <2>2. QED
    BY Zenon, <1>4, <2>1 DEF TransfersInv, Stored
<1>5. QED
  BY Zenon, <1>1, <1>2, <1>3, <1>4 DEF TransfersInv

\* Uploads, deletions and the clock preserve it.
LEMMA BackupInv ==
    ASSUME TransfersInv,
           \/ \E d \in Owners, counter \in 1..LastBackup : CreateBackupBlob(d, counter)
           \/ \E b \in BackupIds : DeleteBackup(b) \/ CapabilityExpires(b) \/ LeaseAges(b)
    PROVE  TransfersInv'
<1> USE TransfersAssumption DEF TransfersInv, TransferType, Stored
<1>1. ASSUME NEW d \in Owners, NEW counter \in 1..LastBackup, CreateBackupBlob(d, counter) PROVE TransfersInv'
  <2> DEFINE new == [owner |-> d, counter |-> counter, capability |-> TRUE, expired |-> FALSE,
                     next |-> 0, lease |-> 0, left |-> 0]
             own == {b \in Stored : backups[b].owner = d}
  <2>1. new \in BackupRow /\ new.next = 0 /\ new.lease = 0
    BY DEF BackupRow
  <2>2. \A r \in BackupRow : /\ WithoutCapability(r) \in BackupRow
                      /\ WithoutCapability(r).next = 0 /\ WithoutCapability(r).lease = 0
    BY Zenon DEF BackupRow, WithoutCapability
  <2>3. /\ UNCHANGED <<transfer, latest, flushed>> /\ uploaded' = uploaded + 1
        /\ backups' = [b \in BackupIds |-> IF b = uploaded' THEN new
                                            ELSE IF b \in own THEN WithoutCapability(backups[b]) ELSE backups[b]]
    BY Zenon, <1>1 DEF CreateBackupBlob, historyVars
  <2> HIDE DEF new
  <2>4. backups' \in [BackupIds -> BackupRow \cup {NoBackup}]
    BY Zenon, <2>1, <2>2, <2>3
  <2>5. ASSUME NEW b \in Stored'
        PROVE  \/ backups'[b].next = 0 /\ backups'[b].lease = 0
               \/ b \in Stored /\ backups'[b].next = backups[b].next /\ backups'[b].lease = backups[b].lease
    <3>1. b \in BackupIds /\ backups'[b] # NoBackup
      BY Zenon, <2>5
    <3>2. CASE b = uploaded'
      BY Zenon, <2>1, <2>3, <3>1, <3>2
    <3>3. CASE b # uploaded' /\ b \in own
      BY Zenon, <2>2, <2>3, <3>1, <3>3
    <3>4. CASE b # uploaded' /\ b \notin own
      BY Zenon, <2>3, <3>1, <3>4
    <3>5. QED
      BY Zenon, <3>2, <3>3, <3>4
  <2>6. uploaded' \in Nat
    BY <2>3
  <2>7. QED
    BY Zenon, <2>3, <2>4, <2>5, <2>6, TransferRowsInv
<1>2. ASSUME NEW b \in BackupIds, DeleteBackup(b) PROVE TransfersInv'
  BY Zenon, <1>2, TransferRowsInv DEF DeleteBackup, historyVars
<1>3. ASSUME NEW b \in BackupIds, CapabilityExpires(b) PROVE TransfersInv'
  <2>1. LET r == [backups[b] EXCEPT !.expired = TRUE]
        IN  r \in BackupRow /\ r.next = backups[b].next /\ r.lease = backups[b].lease
    <3>1. backups[b] \in BackupRow
      BY Zenon, <1>3 DEF CapabilityExpires
    <3> HIDE DEF TransfersInv, TransferType, Stored
    <3>2. QED
      BY Zenon, <3>1 DEF BackupRow
  <2>2. QED
    BY Zenon, <1>3, <2>1, TransferRowsInv DEF CapabilityExpires, historyVars
<1>4. ASSUME NEW b \in BackupIds, LeaseAges(b) PROVE TransfersInv'
  <2>1. LET r == [backups[b] EXCEPT !.left = @ - 1]
        IN  r \in BackupRow /\ r.next = backups[b].next /\ r.lease = backups[b].lease
    BY <1>4 DEF LeaseAges, BackupRow, historyVars
  <2>2. QED
    BY Zenon, <1>4, <2>1, TransferRowsInv DEF LeaseAges, historyVars
<1>5. QED
  BY Zenon, <1>1, <1>2, <1>3, <1>4

\* A busy request is typed.
LEMMA BusyRequest == ASSUME TransfersInv, NEW t \in Transfers, Busy(t) PROVE transfer[t] \in TransferRequest
BY DEF TransfersInv, TransferType, Busy, Unstarted, Ended

\* A new lease preserves it.
LEMMA BeginInv ==
    ASSUME TransfersInv, NEW t \in Transfers, NEW b \in BackupIds, NEW start \in 0..Size - 1, NEW end \in 0..Size - 1,
           BeginRecoveryTransfer(t, b, start, end)
    PROVE  TransfersInv'
<1> DEFINE row == [backups[b] EXCEPT !.lease = t, !.left = LeaseSteps]
           req == Streaming(b, start, end)
<1> USE TransfersAssumption
<1>1. /\ b \in Stored /\ start <= backups[b].next /\ start <= end
      /\ backups' = [backups EXCEPT ![b] = row] /\ transfer' = [transfer EXCEPT ![t] = req]
      /\ latest' = [latest EXCEPT ![b] = t] /\ UNCHANGED uploaded
      /\ flushed' = [flushed EXCEPT ![b] = @ \cap (0..backups[b].next - 1)]
  BY Zenon DEF BeginRecoveryTransfer, TransfersInv, TransferType
<1>2. backups[b] \in BackupRow
  BY Zenon, <1>1 DEF TransfersInv, TransferType, Stored
<1>3. row \in BackupRow /\ row.next = backups[b].next /\ row.lease = t
  BY Zenon, <1>2 DEF BackupRow
<1>4. req \in TransferRequest /\ req.backup = b /\ req.start = start /\ req.sent = 0 /\ req.expected = end - start + 1
  BY <1>1 DEF TransferRequest, Streaming
<1> HIDE DEF row, req
<1>5. TransferType'
  BY Zenon, <1>1, <1>3, <1>4 DEF TransfersInv, TransferType
<1>6. ASSUME NEW c \in Stored' PROVE Covered(c)'
  <2>1. c \in BackupIds /\ c \in Stored /\ backups'[c].next = backups[c].next
    BY Zenon, <1>1, <1>3 DEF TransfersInv, TransferType, Stored
  <2>2. flushed'[c] = IF c = b THEN flushed[b] \cap (0..backups[b].next - 1) ELSE flushed[c]
    BY Zenon, <1>1, <2>1 DEF TransfersInv, TransferType
  <2>3. Covered(c)
    BY Zenon, <2>1 DEF TransfersInv
  <2>4. CASE c = b
    BY Zenon, <2>1, <2>2, <2>3, <2>4 DEF Covered
  <2>5. CASE c # b
    BY Zenon, <2>1, <2>2, <2>3, <2>5 DEF Covered
  <2>6. QED
    BY Zenon, <2>4, <2>5
<1>7. InRange(t, req)'
  BY <1>1, <1>4 DEF InRange
<1>8. transfer'[t] = req /\ latest'[b] = t /\ backups'[b].lease = t
  BY Zenon, <1>1, <1>3 DEF TransfersInv, TransferType
<1>9. ASSUME NEW o \in Transfers \ {t}, Busy(o)'
      PROVE  /\ Busy(o) /\ transfer'[o] = transfer[o] /\ transfer[o].backup \in BackupIds
             /\ transfer[o].backup # b =>
                   /\ latest'[transfer[o].backup] = latest[transfer[o].backup]
                   /\ flushed'[transfer[o].backup] = flushed[transfer[o].backup]
                   /\ backups'[transfer[o].backup] = backups[transfer[o].backup]
  <2>1. Busy(o) /\ transfer'[o] = transfer[o]
    BY Zenon, <1>1, <1>9 DEF TransfersInv, TransferType, Busy
  <2>2. transfer[o].backup \in BackupIds
    BY Zenon, <2>1, BusyRequest DEF TransferRequest
  <2>3. QED
    BY Zenon, <1>1, <2>1, <2>2 DEF TransfersInv, TransferType
<1>10. ASSUME NEW o \in Transfers, Busy(o)' PROVE InRange(o, transfer[o])'
  <2>1. CASE o = t
    BY Zenon, <1>7, <1>8, <2>1 DEF InRange
  <2>2. CASE o # t
    <3>1. InRange(o, transfer[o]) /\ transfer'[o] = transfer[o]
      BY Zenon, <1>9, <1>10, <2>2 DEF TransfersInv
    <3>2. CASE transfer[o].backup = b
      BY Zenon, <1>8, <2>2, <3>1, <3>2 DEF InRange
    <3>3. CASE transfer[o].backup # b
      <4>1. /\ latest'[transfer[o].backup] = latest[transfer[o].backup]
            /\ flushed'[transfer[o].backup] = flushed[transfer[o].backup]
        BY Zenon, <1>9, <1>10, <2>2, <3>3
      <4>2. QED
        BY Zenon, <3>1, <4>1 DEF InRange
    <3>4. QED
      BY Zenon, <3>2, <3>3
  <2>3. QED
    BY Zenon, <2>1, <2>2
<1>11. ASSUME NEW o \in Transfers, Busy(o)', transfer'[o].backup \in Stored',
              backups'[transfer'[o].backup].lease = o
       PROVE  transfer'[o].start <= backups'[transfer'[o].backup].next /\ latest'[transfer'[o].backup] = o
  <2>1. CASE o = t
    BY Zenon, <1>1, <1>3, <1>4, <1>8, <2>1 DEF TransfersInv, TransferType
  <2>2. CASE o # t
    <3>1. transfer'[o] = transfer[o] /\ Busy(o) /\ transfer[o].backup \in BackupIds
      BY Zenon, <1>9, <1>11, <2>2
    <3>2. transfer[o].backup # b
      BY Zenon, <1>8, <1>11, <2>2, <3>1
    <3>3. /\ latest'[transfer[o].backup] = latest[transfer[o].backup]
          /\ backups'[transfer[o].backup] = backups[transfer[o].backup]
      BY Zenon, <1>9, <1>11, <2>2, <3>2
    <3>4. transfer[o].backup \in Stored /\ backups[transfer[o].backup].lease = o
      BY Zenon, <1>11, <3>1, <3>3 DEF Stored
    <3>5. QED
      BY Zenon, <3>1, <3>3, <3>4 DEF TransfersInv
  <2>3. QED
    BY Zenon, <2>1, <2>2
<1>12. QED
  BY Zenon, <1>5, <1>6, <1>10, <1>11 DEF TransfersInv

\* One more unit sent preserves it.
LEMMA WriteInv == ASSUME TransfersInv, NEW t \in Transfers, WriteBody(t) PROVE TransfersInv'
<1> DEFINE s == transfer[t]
           new == [s EXCEPT !.sent = @ + 1]
           unit == s.start + s.sent
<1> USE TransfersAssumption
<1>1. s \in TransferRequest /\ s.sent < s.expected /\ InRange(t, s)
  BY Zenon, BusyRequest DEF WriteBody, Busy, TransfersInv
<1>2. /\ new \in TransferRequest /\ new.backup = s.backup /\ new.start = s.start
      /\ new.sent = s.sent + 1 /\ new.expected = s.expected
  BY <1>1 DEF TransferRequest
<1>3. /\ transfer' = [transfer EXCEPT ![t] = new] /\ UNCHANGED <<backups, uploaded, latest>>
      /\ flushed' = IF latest[s.backup] = t THEN [flushed EXCEPT ![s.backup] = @ \cup {unit}] ELSE flushed
  BY Zenon DEF WriteBody, TransfersInv, TransferType
<1>4. /\ s.backup \in BackupIds /\ s.start \in Nat /\ s.sent \in Nat /\ s.expected \in Nat
      /\ s.start + s.expected <= Size /\ s.start < Size
  BY Zenon, <1>1 DEF TransferRequest, InRange
<1>5. unit \in 0..Size - 1
  BY <1>1, <1>4
<1>6. \A c \in BackupIds : flushed[c] \subseteq flushed'[c] /\ flushed'[c] \subseteq 0..Size - 1
  BY Zenon, <1>3, <1>5 DEF TransfersInv, TransferType
<1>7. latest[s.backup] = t => unit \in flushed'[s.backup]
  BY Zenon, <1>3, <1>4 DEF TransfersInv, TransferType
<1>8. InRange(t, transfer[t])'
  <2>1. unit - 1 = s.start + (s.sent - 1)
    BY <1>4
  <2>2. latest[s.backup] = t => \A i \in s.start..unit - 1 : i \in flushed[s.backup]
    BY Zenon, <1>1, <2>1 DEF InRange
  <2>3. \A i \in s.start..unit : i = unit \/ i \in s.start..unit - 1
    BY <1>4
  <2>4. latest[s.backup] = t => \A i \in s.start..unit : i \in flushed'[s.backup]
    BY Zenon, <2>2, <2>3, <1>4, <1>6, <1>7
  <2>5. transfer'[t] = new /\ new.start + (new.sent - 1) = unit
    BY <1>2, <1>3, <1>4 DEF TransfersInv, TransferType
  <2>6. latest'[new.backup] = t => \A i \in new.start..new.start + (new.sent - 1) : i \in flushed'[new.backup]
    BY Zenon, <1>2, <1>3, <2>4, <2>5
  <2> HIDE DEF new, s, unit
  <2>7. QED
    BY <1>1, <1>2, <1>4, <2>5, <2>6 DEF InRange
<1> HIDE DEF new, unit
<1>9. TransferType'
  BY Zenon, <1>2, <1>3, <1>6 DEF TransfersInv, TransferType
<1>10. \A c \in Stored' : Covered(c)'
  BY Zenon, <1>3, <1>6 DEF TransfersInv, Stored, Covered
<1>11. ASSUME NEW o \in Transfers, Busy(o)' PROVE InRange(o, transfer[o])'
  <2>1. CASE o = t
    BY Zenon, <1>8, <2>1
  <2>2. CASE o # t
    <3>1. transfer'[o] = transfer[o] /\ Busy(o)
      BY Zenon, <1>3, <1>11, <2>2 DEF TransfersInv, TransferType, Busy
    <3>2. transfer[o].backup \in BackupIds /\ InRange(o, transfer[o])
      BY Zenon, <3>1, BusyRequest DEF TransfersInv, TransferRequest
    <3>3. QED
      BY Zenon, <1>3, <1>6, <3>1, <3>2 DEF InRange
  <2>3. QED
    BY Zenon, <2>1, <2>2
<1>12. ASSUME NEW o \in Transfers, Busy(o)', transfer'[o].backup \in Stored',
              backups'[transfer'[o].backup].lease = o
       PROVE  transfer'[o].start <= backups'[transfer'[o].backup].next /\ latest'[transfer'[o].backup] = o
  BY <1>2, <1>3, <1>12 DEF TransfersInv, TransferType, Busy, Stored, WriteBody
<1>13. QED
  BY Zenon, <1>9, <1>10, <1>11, <1>12 DEF TransfersInv

\* Refused ranges, ends of streams and renewals preserve it.
LEMMA StreamInv ==
    ASSUME TransfersInv, NEW t \in Transfers, RefuseRange(t) \/ EndStream(t) \/ RenewRecoveryTransfer(t)
    PROVE  TransfersInv'
<1> DEFINE s == transfer[t]
<1> USE TransfersAssumption
<1>1. s \in TransferRequest /\ InRange(t, s) /\ Busy(t)
  BY Zenon, BusyRequest DEF RefuseRange, EndStream, RenewRecoveryTransfer, Busy, TransfersInv, historyVars
<1>2. CASE RefuseRange(t)
  <2> DEFINE new == [s EXCEPT !.at = "ending", !.expected = 0]
  <2>1. new \in TransferRequest /\ new.backup = s.backup /\ new.start = s.start /\ new.sent = 0 /\ new.expected = 0
    BY Zenon, <1>1, <1>2 DEF TransferRequest, RefuseRange, historyVars
  <2>2. transfer' = [transfer EXCEPT ![t] = new] /\ UNCHANGED <<backups, uploaded, latest, flushed>>
    BY Zenon, <1>2 DEF RefuseRange, TransfersInv, TransferType, historyVars
  <2>3. InRange(t, new)
    BY <1>1, <2>1 DEF InRange, TransferRequest
  <2> HIDE DEF new
  <2>4. QED
    BY Zenon, <1>1, <2>1, <2>2, <2>3, RequestInv DEF TransfersInv, TransferType
<1>3. CASE EndStream(t)
  <2> DEFINE new == [s EXCEPT !.at = "ending"]
  <2>1. /\ new \in TransferRequest /\ new.backup = s.backup /\ new.start = s.start /\ new.sent = s.sent
        /\ new.expected = s.expected
    BY Zenon, <1>1 DEF TransferRequest
  <2>2. transfer' = [transfer EXCEPT ![t] = new] /\ UNCHANGED <<backups, uploaded, latest, flushed>>
    BY Zenon, <1>3 DEF EndStream, TransfersInv, TransferType, historyVars
  <2> HIDE DEF new
  <2>3. InRange(t, new)
    BY Zenon, <1>1, <2>1 DEF InRange
  <2>4. QED
    BY Zenon, <1>1, <2>1, <2>2, <2>3, RequestInv DEF TransfersInv, TransferType
<1>4. CASE RenewRecoveryTransfer(t)
  <2>1. CASE HoldsLease(t, s.backup)
    <3> DEFINE row == [backups[s.backup] EXCEPT !.left = LeaseSteps]
    <3>1. s.backup \in Stored /\ backups[s.backup] \in BackupRow
      BY Zenon, <2>1 DEF HoldsLease, TransfersInv, TransferType, Stored
    <3>2. row \in BackupRow /\ row.next = backups[s.backup].next /\ row.lease = backups[s.backup].lease
      BY Zenon, <3>1 DEF BackupRow
    <3>3. backups' = [backups EXCEPT ![s.backup] = row] /\ UNCHANGED <<transfer, uploaded, latest, flushed>>
      BY Zenon, <1>4, <2>1 DEF RenewRecoveryTransfer, TransfersInv, TransferType, historyVars
    <3> HIDE DEF row
    <3>4. QED
      BY Zenon, <3>1, <3>2, <3>3, TransferRowsInv DEF TransfersInv, TransferType, Stored
  <2>2. CASE ~HoldsLease(t, s.backup)
    <3> DEFINE new == [s EXCEPT !.cutOff = TRUE]
    <3>1. /\ new \in TransferRequest /\ new.backup = s.backup /\ new.start = s.start /\ new.sent = s.sent
          /\ new.expected = s.expected
      BY Zenon, <1>1 DEF TransferRequest
    <3>2. transfer' = [transfer EXCEPT ![t] = new] /\ UNCHANGED <<backups, uploaded, latest, flushed>>
      BY Zenon, <1>4, <2>2 DEF RenewRecoveryTransfer, TransfersInv, TransferType, historyVars
    <3> HIDE DEF new
    <3>3. InRange(t, new)
      BY Zenon, <1>1, <3>1 DEF InRange
    <3>4. QED
      BY Zenon, <1>1, <3>1, <3>2, <3>3, RequestInv DEF TransfersInv, TransferType
  <2>3. QED
    BY Zenon, <2>1, <2>2
<1>5. QED
  BY Zenon, <1>2, <1>3, <1>4

\* What a request that holds its lease has reached was flushed without a gap.
LEMMA Reached ==
    ASSUME TransfersInv, NEW t \in Transfers, Busy(t), HoldsLease(t, transfer[t].backup)
    PROVE  LET s == transfer[t] IN
           /\ s \in TransferRequest /\ s.backup \in Stored /\ backups[s.backup] \in BackupRow
           /\ s.start + s.sent <= Size
           /\ \A i \in 0..(s.start + s.sent) - 1 : i \in flushed[s.backup]
<1> DEFINE s == transfer[t]
           b == s.backup
<1>1. s \in TransferRequest /\ b \in Stored /\ backups[b] \in BackupRow /\ InRange(t, s) /\ Covered(b)
      /\ s.start <= backups[b].next /\ latest[b] = t
  BY Zenon, BusyRequest DEF HoldsLease, TransfersInv, TransferType, Stored
<1>2. s.start \in Nat /\ s.sent \in Nat /\ s.expected \in Nat /\ backups[b].next \in Nat
  BY Zenon, <1>1 DEF TransferRequest, BackupRow
<1>3. s.start + s.sent <= Size
  BY <1>1, <1>2, TransfersAssumption DEF InRange
<1>4. ASSUME NEW i \in 0..(s.start + s.sent) - 1 PROVE i \in flushed[b]
  <2>1. CASE i < s.start
    BY <1>1, <1>2, <2>1 DEF Covered
  <2>2. CASE i >= s.start
    BY <1>1, <1>2, <2>2 DEF InRange
  <2>3. QED
    BY <1>2, <2>1, <2>2
<1>5. QED
  BY Zenon, <1>1, <1>3, <1>4

\* A completion preserves it.
LEMMA CompleteInv == ASSUME TransfersInv, NEW t \in Transfers, CompleteRecoveryTransfer(t) PROVE TransfersInv'
<1> DEFINE s == transfer[t]
           b == s.backup
           reached == s.start + s.sent
           row == [backups[b] EXCEPT !.next = IF reached > @ THEN reached ELSE @,
                                     !.capability = @ /\ ~(s.sent = s.expected /\ reached = Size),
                                     !.lease = 0, !.left = 0]
<1>1. Busy(t) /\ transfer' = [transfer EXCEPT ![t] = Ended] /\ UNCHANGED <<uploaded, latest, flushed>>
  BY Zenon DEF CompleteRecoveryTransfer, Busy, Ended, historyVars
<1>2. transfer' \in [Transfers -> TransferRequest \cup {Unstarted, Ended}] /\ ~Busy(t)'
  BY Zenon, <1>1 DEF TransfersInv, TransferType, Busy, Ended
<1>3. CASE ~HoldsLease(t, b)
  BY Zenon, <1>1, <1>2, <1>3, RequestInv DEF CompleteRecoveryTransfer, TransfersInv, TransferType, historyVars
<1>4. CASE HoldsLease(t, b)
  <2>1. /\ s \in TransferRequest /\ b \in Stored /\ backups[b] \in BackupRow
        /\ \A i \in 0..reached - 1 : i \in flushed[b]
    BY Zenon, <1>1, <1>4, Reached
  <2>2. reached \in Nat
    BY <2>1 DEF TransferRequest
  <2>3. row \in BackupRow /\ row.lease = 0 /\ row.next = IF reached > backups[b].next THEN reached ELSE backups[b].next
    BY Zenon, <2>1, <2>2 DEF BackupRow
  <2>4. backups' = [backups EXCEPT ![b] = row]
    BY Zenon, <1>4 DEF CompleteRecoveryTransfer, TransfersInv, TransferType, historyVars
  <2> HIDE DEF row, reached
  <2>5. TransferType'
    BY Zenon, <1>1, <1>2, <2>3, <2>4 DEF TransfersInv, TransferType
  <2>6. ASSUME NEW c \in Stored' PROVE Covered(c)'
    <3>1. CASE c = b
      <4>1. backups'[c].next \in {reached, backups[b].next}
        BY Zenon, <2>1, <2>3, <2>4, <3>1 DEF TransfersInv, TransferType, Stored
      <4>2. Covered(b)
        BY Zenon, <2>1 DEF TransfersInv
      <4>3. QED
        BY Zenon, <1>1, <2>1, <3>1, <4>1, <4>2 DEF Covered
    <3>2. CASE c # b
      BY Zenon, <1>1, <2>4, <3>2 DEF TransfersInv, TransferType, Stored, Covered
    <3>3. QED
      BY Zenon, <3>1, <3>2
  <2>7. ASSUME NEW o \in Transfers, Busy(o)' PROVE o # t /\ Busy(o) /\ transfer'[o] = transfer[o]
    BY Zenon, <1>1, <1>2, <2>7 DEF TransfersInv, TransferType, Busy
  <2>8. ASSUME NEW o \in Transfers, Busy(o)' PROVE InRange(o, transfer[o])'
    BY Zenon, <1>1, <2>7, <2>8 DEF TransfersInv, InRange
  <2>9. ASSUME NEW o \in Transfers, Busy(o)', transfer'[o].backup \in Stored',
               backups'[transfer'[o].backup].lease = o
        PROVE  transfer'[o].start <= backups'[transfer'[o].backup].next /\ latest'[transfer'[o].backup] = o
    <3>1. o # 0 /\ Busy(o) /\ transfer'[o] = transfer[o]
      BY Zenon, <2>7, <2>9, TransfersAssumption
    <3>2. transfer[o].backup # b
      BY Zenon, <2>1, <2>3, <2>4, <2>9, <3>1 DEF TransfersInv, TransferType, Stored
    <3>3. QED
      BY Zenon, <1>1, <2>4, <2>9, <3>1, <3>2 DEF TransfersInv, TransferType, Stored
  <2>10. QED
    BY Zenon, <2>5, <2>6, <2>8, <2>9 DEF TransfersInv
<1>5. QED
  BY Zenon, <1>3, <1>4

\* A crash preserves it.
LEMMA CrashInv == ASSUME TransfersInv, ServerCrashes PROVE TransfersInv'
<1>1. transfer' = [t \in Transfers |-> IF transfer[t] = Unstarted THEN Unstarted ELSE Ended]
  BY Zenon DEF ServerCrashes, Ended, historyVars
<1>2. \A t \in Transfers : ~Busy(t)'
  BY Zenon, <1>1 DEF Busy, Unstarted, Ended
<1>3. TransferType'
  BY Zenon, <1>1 DEF ServerCrashes, TransfersInv, TransferType, historyVars
<1>4. \A b \in Stored' : Covered(b)'
  BY Zenon DEF ServerCrashes, TransfersInv, Stored, Covered, historyVars
<1>5. QED
  BY Zenon, <1>2, <1>3, <1>4 DEF TransfersInv

\* Every step preserves it.
LEMMA TransfersStepInv == TransfersInv /\ [TransfersNext]_transferVars => TransfersInv'
<1> SUFFICES ASSUME TransfersInv, [TransfersNext]_transferVars PROVE TransfersInv'
  BY Zenon
<1>1. CASE TransfersNext
  BY Zenon, <1>1, BackupInv, BeginInv, WriteInv, StreamInv, CompleteInv, CrashInv DEF TransfersNext
<1>2. CASE UNCHANGED transferVars
  BY Zenon, <1>2, TransferRowsInv DEF transferVars, TransfersInv, TransferType, Stored
<1>3. QED
  BY Zenon, <1>1, <1>2

\* Only an upload or a completion that reached the end takes a capability.
LEMMA Consumed ==
    ASSUME TransfersInv, [TransfersNext]_transferVars, NEW b \in Stored,
           backups[b].capability, backups'[b] # NoBackup, ~backups'[b].capability
    PROVE  flushed[b] = 0..Size - 1 \/ uploaded' > uploaded
<1>1. b \in BackupIds /\ backups[b] \in BackupRow
  BY Zenon DEF TransfersInv, TransferType, Stored
<1>2. ASSUME backups' = backups PROVE FALSE
  BY Zenon, <1>2
<1>3. ASSUME NEW d \in Owners, NEW counter \in 1..LastBackup, CreateBackupBlob(d, counter)
      PROVE  uploaded' > uploaded
  BY <1>3 DEF CreateBackupBlob, TransfersInv, TransferType, historyVars
<1>4. ASSUME NEW c \in BackupIds, DeleteBackup(c) \/ CapabilityExpires(c) \/ LeaseAges(c) PROVE FALSE
  <2>1. CASE DeleteBackup(c)
    BY Zenon, <1>1, <2>1 DEF DeleteBackup, TransfersInv, TransferType, historyVars
  <2>2. CASE CapabilityExpires(c)
    BY Zenon, <1>1, <2>2 DEF CapabilityExpires, TransfersInv, TransferType, BackupRow, Stored, historyVars
  <2>3. CASE LeaseAges(c)
    BY Zenon, <1>1, <2>3 DEF LeaseAges, TransfersInv, TransferType, BackupRow, Stored, historyVars
  <2>4. QED
    BY Zenon, <1>4, <2>1, <2>2, <2>3
<1>5. ASSUME NEW t \in Transfers, NEW c \in BackupIds, NEW start \in 0..Size - 1, NEW end \in 0..Size - 1,
             BeginRecoveryTransfer(t, c, start, end)
      PROVE  FALSE
  BY Zenon, <1>1, <1>5 DEF BeginRecoveryTransfer, TransfersInv, TransferType, BackupRow, Stored
<1>6. ASSUME NEW t \in Transfers, RenewRecoveryTransfer(t) PROVE FALSE
  <2>1. HoldsLease(t, transfer[t].backup)
    BY Zenon, <1>2, <1>6 DEF RenewRecoveryTransfer, historyVars
  <2>2. QED
    BY <1>1, <1>6, <2>1 DEF RenewRecoveryTransfer, HoldsLease, TransfersInv, TransferType, BackupRow, Stored, historyVars
<1>7. ASSUME NEW t \in Transfers, CompleteRecoveryTransfer(t) PROVE flushed[b] = 0..Size - 1
  <2> DEFINE s == transfer[t]
  <2>1. Busy(t) /\ HoldsLease(t, s.backup)
    BY Zenon, <1>2, <1>7 DEF CompleteRecoveryTransfer, Busy, historyVars
  <2>2. b = s.backup /\ s.start + s.sent = Size
    BY Zenon, <1>1, <1>7, <2>1 DEF CompleteRecoveryTransfer, HoldsLease, TransfersInv, TransferType, BackupRow, Stored, historyVars
  <2>3. \A i \in 0..Size - 1 : i \in flushed[b]
    BY Zenon, <2>1, <2>2, Reached
  <2>4. flushed[b] \subseteq 0..Size - 1
    BY Zenon, <1>1 DEF TransfersInv, TransferType
  <2>5. QED
    BY Zenon, <2>3, <2>4
<1>8. QED
  BY Zenon, <1>2, <1>3, <1>4, <1>5, <1>6, <1>7
  DEF TransfersNext, transferVars, RefuseRange, WriteBody, EndStream, ServerCrashes, historyVars

\* The recorded offset covers only what the request that began last flushed and
\* what was recorded when it began, without a gap, and a capability is used up
\* only when that is all of it (BeginRecoveryTransfer,
\* CompleteRecoveryTransfer), for any number of requests, lapsed leases,
\* uploads and crashes.
THEOREM ProgressIsSent == TransfersSpec => ProgressWasSent
<1>1. ASSUME TransfersInv, TransfersInv', [TransfersNext]_transferVars
      PROVE  \A b \in BackupIds :
                backups'[b] # NoBackup =>
                    /\ 0..backups'[b].next - 1 \subseteq flushed'[b]
                    /\ (b \in Stored /\ backups[b].capability /\ ~backups'[b].capability) =>
                           \/ flushed[b] = 0..Size - 1
                           \/ uploaded' > uploaded
  <2> SUFFICES ASSUME NEW b \in BackupIds, backups'[b] # NoBackup
               PROVE  /\ 0..backups'[b].next - 1 \subseteq flushed'[b]
                      /\ (b \in Stored /\ backups[b].capability /\ ~backups'[b].capability) =>
                             \/ flushed[b] = 0..Size - 1
                             \/ uploaded' > uploaded
    BY Zenon
  <2>1. 0..backups'[b].next - 1 \subseteq flushed'[b]
    BY Zenon, <1>1 DEF TransfersInv, Stored, Covered
  <2>2. QED
    BY Zenon, <1>1, <2>1, Consumed
<1>2. QED
  BY TransfersInitInv, TransfersStepInv, <1>1, PTL DEF TransfersSpec, ProgressWasSent

=============================================================================
