----------------------------- MODULE MC_Server -----------------------------
(***************************************************************************)
(* Instances of the components of the server and its commands whose        *)
(* properties are safety properties.  They share no state, except that     *)
(* device links and registration both insert devices: a behaviour is one   *)
(* part's, chosen at the start.                                            *)
(***************************************************************************)
EXTENDS DeviceLinks, Registration, Restore, RateLimiter, RecoveryTransfers, Backups, Communities

CONSTANTS h1, h2, h3   \* addresses

VARIABLE part

\* Devices 1 to 3 are for account a, 4 for b; registrations make accounts of their own.
MCAccountOf == <<"a", "a", "a", "b", "c", "d", "e">>
MCLimit == [general |-> 2, auth |-> 1, enrollment |-> 1, signedIn |-> 1]
\* The third account has one conversation less to go before its limit.
MCElsewhere == <<0, 0, 1>>

enrolmentVars == <<links, issued, created, reservations, invites, accounts, enrolling>>
commandVars == <<restoreVars, backupVars>>
runningVars == <<limiterVars, transferVars, communityVars>>

\* Devices 1 and 4 are enrolled, and with them 2 where packages are claimed:
\* account a then claims with two devices.  Registration starts from nothing.
Enrolled ==
    CASE part = "links" -> {1, 4}
      [] part = "packages" -> {1, 2, 4}
      [] OTHER -> {}

Init ==
    /\ part \in {"links", "packages", "registration", "limiter", "transfers", "communities", "restore", "backups"}
    /\ phones = [p \in Phones |-> IF p \in Enrolled THEN "active" ELSE "absent"]
    /\ packages = IF Enrolled = {} THEN {} ELSE {Fresh(1, 1), Fresh(2, 4)}
    /\ sessions = {} /\ handed = {}
    /\ links = {} /\ issued = {} /\ created = 0
    /\ reservations = {} /\ accounts = {}
    /\ invites = [i \in Invites |-> NoInvite]
    /\ enrolling = [c \in Clients |-> Quiet]
    /\ LimiterInit /\ TransfersInit /\ CommunitiesInit
    /\ RestoreInit /\ BackupsInit
    /\ part # "restore" => \A i \in Items : file[i] = 0

Enrolment ==
    /\ \/ part = "links" /\ LinkNext /\ UNCHANGED <<reservations, invites, accounts, enrolling>>
       \/ part = "packages" /\ PackageNext /\ UNCHANGED enrolmentVars
       \/ part = "registration" /\ RegistrationNext /\ UNCHANGED <<links, issued, created>>
    /\ UNCHANGED <<commandVars, runningVars>>

Running ==
    /\ \/ part = "limiter" /\ LimiterNext /\ UNCHANGED <<transferVars, communityVars>>
       \/ part = "transfers" /\ TransfersNext /\ UNCHANGED <<limiterVars, communityVars>>
       \/ part = "communities" /\ CommunitiesNext /\ UNCHANGED <<limiterVars, transferVars>>
    /\ UNCHANGED <<packageVars, enrolmentVars, commandVars>>

Commands ==
    /\ \/ part = "restore" /\ RestoreNext /\ UNCHANGED backupVars
       \/ part = "backups" /\ BackupsNext /\ UNCHANGED restoreVars
    /\ UNCHANGED <<packageVars, enrolmentVars, runningVars>>

Next == (Enrolment \/ Running \/ Commands) /\ UNCHANGED part

\* All but the status file of the backups, which no step reads.
ServerView == <<part, packageVars, enrolmentVars, restoreVars, referenced, onDisk, dirs, runs, overlapped, runningVars>>

Spec == Init /\ [][Next]_<<part, packageVars, enrolmentVars, commandVars, runningVars>>

=============================================================================
