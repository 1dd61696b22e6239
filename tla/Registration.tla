--------------------------- MODULE Registration ---------------------------
(***************************************************************************)
(* How accounts come to be: the owner at setup and members by invite.      *)
(* Both reserve an enrolment first (a challenge to sign, ten minutes) and  *)
(* then enrol with the proof.  A request reads, waits (to insert, or to    *)
(* hash a password) and writes; slots hold the requests in between, so     *)
(* setups, registrations and an invite's revocation interleave.            *)
(*                                                                         *)
(* A reservation names the device id it gives; the account is that         *)
(* device's.                                                               *)
(***************************************************************************)
EXTENDS KeyPackages

CONSTANTS
    Clients,          \* requests handled at the same time
    Invites,          \* invite ids: numbers
    MaxUses,          \* max_uses asked for, a set
    ReservedIds       \* bound: device ids reservations give out

\* Nobody is no invite; auth_handlers.go:547: max_uses is from 0 to 10000.
ASSUME RegistrationAssumption ==
    Invites \subseteq Nat \ {0} /\ MaxUses \subseteq Nat /\ ReservedIds \subseteq Phones

VARIABLES
    reservations,     \* the rows of enrollment_reservations
    invites,          \* invite -> its row of invites, or NoInvite
    accounts,         \* the rows of accounts: the device it enrolled with, role, invite
    enrolling         \* client -> the request it handles

NoInvite == [max |-> 0, uses |-> 0, revoked |-> FALSE, expired |-> FALSE, known |-> FALSE]

Quiet == [at |-> "idle", kind |-> "owner", invite |-> Nobody, phone |-> Nobody]

\* An invite that may still be used.
Usable(i) ==
    /\ invites[i].known /\ ~invites[i].revoked /\ ~invites[i].expired
    /\ invites[i].uses < invites[i].max

SetupRequired == accounts = {}

\* A row of enrollment_reservations that is neither consumed nor expired.
Reservation(phone, kind) ==
    {r \in reservations : r.phone = phone /\ r.kind = kind /\ ~r.consumed /\ ~r.expired}

Begin(c, request) == enrolling[c] = Quiet /\ enrolling' = [enrolling EXCEPT ![c] = request]

Answer(c) == enrolling' = [enrolling EXCEPT ![c] = Quiet]

-----------------------------------------------------------------------------
(* Reserving: one statement reads, the next inserts.                       *)

ReserveOwnerEnrollment(c) ==
    /\ SetupRequired
    /\ Begin(c, [Quiet EXCEPT !.at = "reserve"])
    /\ UNCHANGED <<packageVars, reservations, invites, accounts>>

ReserveRegistrationEnrollment(c, i) ==
    /\ Usable(i)
    /\ Begin(c, [Quiet EXCEPT !.at = "reserve", !.kind = "register", !.invite = i])
    /\ UNCHANGED <<packageVars, reservations, invites, accounts>>

createEnrollmentReservationFor(c) ==
    LET free == {p \in ReservedIds : phones[p] = "absent" /\ \A r \in reservations : r.phone # p} IN
    /\ enrolling[c].at = "reserve"
    /\ free # {}
    /\ reservations' = reservations \cup
          {[phone |-> Min(free), kind |-> enrolling[c].kind, invite |-> enrolling[c].invite,
            consumed |-> FALSE, expired |-> FALSE]}
    /\ Answer(c)
    /\ UNCHANGED <<packageVars, invites, accounts>>

-----------------------------------------------------------------------------
(* Enrolling: the proof is checked, the password hashed, the rows written. *)

\* The proof signs the challenge of a reservation that still stands.
verifyEnrollment(c, kind, phone, i) ==
    /\ Reservation(phone, kind) # {}
    /\ Begin(c, [at |-> "enrol", kind |-> kind, invite |-> i, phone |-> phone])
    /\ UNCHANGED <<packageVars, reservations, invites, accounts>>

SetUpOwner(c, phone) == verifyEnrollment(c, "owner", phone, Nobody)

\* The request names an invite, which need not be the reserved one.
Register(c, phone, i) == verifyEnrollment(c, "register", phone, i)

\* No hashing slot came free, or the client went away.
HashFails(c) ==
    /\ enrolling[c].at = "enrol"
    /\ Answer(c)
    /\ UNCHANGED <<packageVars, reservations, invites, accounts>>

\* The rows of a new account: the account, its device, the device's first key
\* package and session; the reservation is consumed.
InsertAccount(c, role, i) ==
    LET phone == enrolling[c].phone IN
    /\ accounts' = accounts \cup {[phone |-> phone, role |-> role, invite |-> i]}
    /\ phones' = [phones EXCEPT ![phone] = "active"]
    /\ packages' = WithInitialPackage(phone)
    /\ sessions' = sessions \cup {[phone |-> phone, token |-> <<0, phone>>]}
    /\ reservations' = {IF r.phone = phone THEN [r EXCEPT !.consumed = TRUE] ELSE r : r \in reservations}
    /\ UNCHANGED handed

CreateOwner(c) ==
    /\ enrolling[c].at = "enrol" /\ enrolling[c].kind = "owner"
    /\ IF SetupRequired /\ Reservation(enrolling[c].phone, "owner") # {}
       THEN InsertAccount(c, "owner", Nobody)
       ELSE UNCHANGED <<packageVars, reservations, accounts>>
    /\ Answer(c)
    /\ UNCHANGED invites

\* A registration that trusts the invite check of the reservation.
RegisterUncounted(c) ==
    LET i == enrolling[c].invite IN
    /\ enrolling[c].at = "enrol" /\ enrolling[c].kind = "register"
    /\ IF /\ invites[i].known /\ ~invites[i].revoked
          /\ \E r \in Reservation(enrolling[c].phone, "register") : r.invite = i
       THEN /\ InsertAccount(c, "member", i)
            /\ invites' = [invites EXCEPT ![i].uses = @ + 1]
       ELSE UNCHANGED <<packageVars, reservations, accounts, invites>>
    /\ Answer(c)

\* The last use of an invite may be taken, or the invite revoked, since the
\* reservation: the transaction checks both again.
RegisterWithInvite(c) ==
    LET i == enrolling[c].invite IN
    /\ enrolling[c].at = "enrol" /\ enrolling[c].kind = "register"
    /\ IF /\ Usable(i)
          /\ \E r \in Reservation(enrolling[c].phone, "register") : r.invite = i
       THEN /\ InsertAccount(c, "member", i)
            /\ invites' = [invites EXCEPT ![i].uses = @ + 1]
       ELSE UNCHANGED <<packageVars, reservations, accounts, invites>>
    /\ Answer(c)

-----------------------------------------------------------------------------
(* Invites, time and cleanup.                                              *)

\* Owners and admins only; max_uses of zero means one.
CreateInvite(i, max) ==
    /\ \E a \in accounts : a.role = "owner"
    /\ invites[i] = NoInvite /\ \A a \in accounts : a.invite # i
    /\ invites' = [invites EXCEPT ![i] = [max |-> IF max = 0 THEN 1 ELSE max, uses |-> 0,
                                          revoked |-> FALSE, expired |-> FALSE, known |-> TRUE]]
    /\ UNCHANGED <<packageVars, reservations, accounts, enrolling>>

RevokeInvite(i) ==
    /\ invites[i].known /\ ~invites[i].revoked
    /\ invites' = [invites EXCEPT ![i].revoked = TRUE]
    /\ UNCHANGED <<packageVars, reservations, accounts, enrolling>>

InviteExpires(i) ==
    /\ invites[i].known /\ ~invites[i].expired
    /\ invites' = [invites EXCEPT ![i].expired = TRUE]
    /\ UNCHANGED <<packageVars, reservations, accounts, enrolling>>

ReservationExpires(r) ==
    /\ ~r.expired
    /\ reservations' = (reservations \ {r}) \cup {[r EXCEPT !.expired = TRUE]}
    /\ UNCHANGED <<packageVars, invites, accounts, enrolling>>

\* CleanupOperationalRows: expired reservations go at once, consumed ones and
\* revoked or expired invites after OperationalRowRetention.
CleanupEnrollment ==
    /\ \E old \in SUBSET {r \in reservations : r.consumed},
          stale \in SUBSET {i \in Invites : invites[i].revoked \/ invites[i].expired} :
          /\ reservations' = {r \in reservations : ~r.expired /\ r \notin old}
          /\ invites' = [i \in Invites |-> IF i \in stale THEN NoInvite ELSE invites[i]]
    /\ UNCHANGED <<packageVars, accounts, enrolling>>

RegistrationNext ==
    \/ \E c \in Clients : \/ ReserveOwnerEnrollment(c)
                          \/ createEnrollmentReservationFor(c)
                          \/ HashFails(c)
                          \/ CreateOwner(c)
                          \/ RegisterWithInvite(c)
    \/ \E c \in Clients, i \in Invites : ReserveRegistrationEnrollment(c, i)
    \/ \E c \in Clients, r \in reservations : \/ SetUpOwner(c, r.phone)
                                              \/ \E i \in Invites : Register(c, r.phone, i)
    \/ \E i \in Invites : RevokeInvite(i) \/ InviteExpires(i) \/ \E max \in MaxUses : CreateInvite(i, max)
    \/ \E r \in reservations : ReservationExpires(r)
    \/ CleanupEnrollment

-----------------------------------------------------------------------------
(* Properties.                                                             *)

\* The instance has one owner however many setups run at once, and an invite
\* admits at most max_uses accounts however many registrations reserved it
\* before its last use was taken; the accounts it admitted are its uses
\* (CreateOwner, RegisterWithInvite).
AdmittedOnce ==
    /\ Cardinality({a \in accounts : a.role = "owner"}) <= 1
    /\ \A i \in Invites : invites[i].known =>
          /\ invites[i].uses = Cardinality({a \in accounts : a.invite = i})
          /\ invites[i].uses <= invites[i].max

=============================================================================
