---------------------------- MODULE DeviceLinks ----------------------------
(***************************************************************************)
(* Linking a new device to an account (device links v3, and v2 for older   *)
(* clients).  The source device creates a link with a code it drew, the    *)
(* new device reserves it, claims it with its keys and the hash of a       *)
(* session token, the source approves that claim, and the new device       *)
(* completes it to get its first session.  Every request may be repeated,  *)
(* late or concurrent; each store function is one transaction.  A request  *)
(* that only reads, or repeats what is recorded, changes no state and is   *)
(* not an action.                                                          *)
(*                                                                         *)
(* A claim stands for the digest of everything the new device signs; its   *)
(* session token is part of it.  The clock is a link's age: inside         *)
(* expires_at, past it, or past transfer_expires_at, a week after the      *)
(* approval.                                                               *)
(***************************************************************************)
EXTENDS KeyPackages

CONSTANTS
    Codes,          \* codes drawn by source devices
    Requests,       \* reservation request ids drawn by new devices
    Claims,         \* claim digests: numbers, 0 for none
    DeviceLimit,    \* Limits.DevicesPerAccount
    LinkLimit,      \* config.PendingDeviceLinksPerAccount
    MaxLinks        \* bound: links created

\* Device and request ids are drawn; 0 stands for none.
ASSUME LinksAssumption ==
    /\ IsFiniteSet(Phones) /\ Phones \subseteq Nat \ {0} /\ Requests \subseteq Nat \ {0}
    /\ DeviceLimit \in Nat

VARIABLES
    links,          \* the rows of device_links (version 2) and device_links_v3
    issued,         \* every session ever issued
    created         \* links created so far

linkVars == <<packageVars, links, issued, created>>

\* loadDeviceLinkV3: the rows a request can see.
Visible(v) ==
    /\ v.version = 3 /\ Active(v.source)
    /\ v.state # "revoked"
    /\ v.state \in {"approved", "consumed"} => Active(v.recipient)

Unapproved(v) == v.state \in {"pending", "claimed"}

validWindow(v) == IF Unapproved(v) THEN v.age = "open" ELSE v.age # "transferExpired"

Replace(v, w) == links' = (links \ {v}) \cup {w}

checkDevices(account) == Cardinality(ActivePhones(account)) < DeviceLimit

countPendingDeviceLinks(account) ==
    Cardinality({v \in links : AccountOf[v.source] = account /\ Unapproved(v) /\ v.age = "open"})

\* A device id no row names yet.
NewPhone(account) ==
    LET free == {p \in Phones : /\ AccountOf[p] = account /\ phones[p] = "absent"
                                /\ \A v \in links : v.recipient # p}
    IN IF free = {} THEN Nobody ELSE Min(free)

NewLink(version, code, p) ==
    [n |-> created + 1, version |-> version, code |-> code, source |-> p, state |-> "pending",
     request |-> Nobody, recipient |-> Nobody, claim |-> 0, age |-> "open"]

-----------------------------------------------------------------------------
(* The requests of the two devices.                                        *)

\* A row that is revoked, expired or of an inactive device still holds its
\* code: the code starts no second link while the row is there.
CreateDeviceLinkV3(p, code) ==
    /\ Active(p)
    /\ \A v \in links : v.version = 3 => v.code # code
    /\ checkDevices(AccountOf[p])
    /\ countPendingDeviceLinks(AccountOf[p]) < LinkLimit
    /\ created < MaxLinks
    /\ created' = created + 1
    /\ links' = links \cup {NewLink(3, code, p)}
    /\ UNCHANGED <<packageVars, issued>>

ReserveDeviceLinkV3(v, request) ==
    /\ Visible(v) /\ Unapproved(v) /\ v.age = "open"
    /\ v.request = Nobody
    /\ NewPhone(AccountOf[v.source]) # Nobody
    /\ Replace(v, [v EXCEPT !.request = request, !.recipient = NewPhone(AccountOf[v.source])])
    /\ UNCHANGED <<packageVars, issued, created>>

\* A repeated claim of a link that is no longer pending must be the same one
\* and changes nothing.
ClaimDeviceLinkV3(v, request, claim) ==
    /\ Visible(v) /\ validWindow(v)
    /\ v.request = request
    /\ v.state = "pending"
    /\ Replace(v, [v EXCEPT !.state = "claimed", !.claim = claim])
    /\ UNCHANGED <<packageVars, issued, created>>

\* An approval that trusts the room CreateDeviceLinkV3 found.
ApproveUncounted(p, v, claim) ==
    /\ Visible(v) /\ validWindow(v) /\ v.source = p
    /\ v.state = "claimed" /\ v.claim = claim
    /\ phones' = [phones EXCEPT ![v.recipient] = "active"]
    /\ packages' = WithInitialPackage(v.recipient)
    /\ Replace(v, [v EXCEPT !.state = "approved"])
    /\ UNCHANGED <<sessions, handed, issued, created>>

ApproveDeviceLinkV3(p, v, claim) ==
    /\ Visible(v) /\ validWindow(v) /\ v.source = p
    /\ v.state = "claimed" /\ v.claim = claim
    /\ checkDevices(AccountOf[p])
    /\ phones' = [phones EXCEPT ![v.recipient] = "active"]
    /\ packages' = WithInitialPackage(v.recipient)
    /\ Replace(v, [v EXCEPT !.state = "approved"])
    /\ UNCHANGED <<sessions, handed, issued, created>>

\* A repeated completion that stores the session again.
CompleteAgain(v, claim) ==
    /\ Visible(v) /\ validWindow(v)
    /\ v.claim = claim
    /\ v.state \in {"approved", "consumed"} /\ v.age = "open"
    /\ sessions' = sessions \cup {[phone |-> v.recipient, token |-> <<v.n, claim>>]}
    /\ issued' = issued \cup sessions'
    /\ Replace(v, [v EXCEPT !.state = "consumed"])
    /\ UNCHANGED <<phones, packages, handed, created>>

\* The first completion must come before expires_at; a repeated one is
\* answered only while the session it made still stands.
CompleteDeviceLinkV3(v, claim) ==
    /\ Visible(v) /\ validWindow(v)
    /\ v.claim = claim
    /\ v.state = "approved" /\ v.age = "open"
    /\ sessions' = sessions \cup {[phone |-> v.recipient, token |-> <<v.n, claim>>]}
    /\ issued' = issued \cup sessions'
    /\ Replace(v, [v EXCEPT !.state = "consumed"])
    /\ UNCHANGED <<phones, packages, handed, created>>

CancelDeviceLinkV3(p, v) ==
    /\ Active(p) /\ v.version = 3 /\ v.source = p
    /\ Unapproved(v)
    /\ Replace(v, [v EXCEPT !.state = "revoked"])
    /\ UNCHANGED <<packageVars, issued, created>>

-----------------------------------------------------------------------------
(* The same for version 2.  A reservation and a claim succeed once, any    *)
(* device of the account approves, and the server draws the session token  *)
(* when the claimant's poll finds the link approved.                       *)

\* The rows of version 2 in a state, inside expires_at.
Open(v, state) == v.version = 2 /\ v.state = state /\ v.age = "open"

CreateDeviceLink(p, code) ==
    /\ Active(p)
    /\ \A v \in links : v.version = 2 => v.code # code
    /\ checkDevices(AccountOf[p])
    /\ countPendingDeviceLinks(AccountOf[p]) < LinkLimit
    /\ created < MaxLinks
    /\ created' = created + 1
    /\ links' = links \cup {NewLink(2, code, p)}
    /\ UNCHANGED <<packageVars, issued>>

ReserveDeviceLinkEnrollment(v) ==
    /\ Open(v, "pending") /\ Active(v.source) /\ v.recipient = Nobody
    /\ NewPhone(AccountOf[v.source]) # Nobody
    /\ Replace(v, [v EXCEPT !.recipient = NewPhone(AccountOf[v.source])])
    /\ UNCHANGED <<packageVars, issued, created>>

ClaimDeviceLink(v, claim) ==
    /\ Open(v, "pending") /\ Active(v.source) /\ v.recipient # Nobody
    /\ Replace(v, [v EXCEPT !.state = "claimed", !.claim = claim])
    /\ UNCHANGED <<packageVars, issued, created>>

ApproveDeviceLink(p, v, claim) ==
    /\ Active(p) /\ AccountOf[p] = AccountOf[v.source]
    /\ Open(v, "claimed") /\ Active(v.source) /\ v.claim = claim
    /\ checkDevices(AccountOf[p])
    /\ phones' = [phones EXCEPT ![v.recipient] = "active"]
    /\ packages' = WithInitialPackage(v.recipient)
    /\ Replace(v, [v EXCEPT !.state = "approved"])
    /\ UNCHANGED <<sessions, handed, issued, created>>

ConsumeApprovedDeviceLink(v, claim) ==
    /\ Open(v, "approved") /\ v.claim = claim /\ Active(v.recipient)
    /\ sessions' = sessions \cup {[phone |-> v.recipient, token |-> <<v.n, claim>>]}
    /\ issued' = issued \cup sessions'
    /\ Replace(v, [v EXCEPT !.state = "consumed"])
    /\ UNCHANGED <<phones, packages, handed, created>>

-----------------------------------------------------------------------------
(* The end of sessions, devices and rows.                                  *)

\* The initial session ends: logout, another session's logout of all, or age.
SessionEnds(s) ==
    /\ s \in sessions
    /\ sessions' = sessions \ {s}
    /\ UNCHANGED <<phones, packages, handed, links, issued, created>>

revokeDeviceTx(p) ==
    /\ Active(p)
    /\ phones' = [phones EXCEPT ![p] = "revoked"]
    /\ sessions' = {s \in sessions : s.phone # p}
    /\ links' = {v \in links : v.version = 3 => p \notin {v.source, v.recipient}}
    /\ UNCHANGED <<packages, handed, issued, created>>

LinkAges(v) ==
    /\ \/ v.age = "open" /\ Replace(v, [v EXCEPT !.age = "expired"])
       \/ /\ v.version = 3 /\ v.age = "expired" /\ v.state \in {"approved", "consumed"}
          /\ Replace(v, [v EXCEPT !.age = "transferExpired"])
    /\ UNCHANGED <<packageVars, issued, created>>

\* Expired rows of version 2 are deleted once consumed, those of version 3 in
\* any state, OperationalRowRetention after COALESCE(transfer_expires_at,
\* expires_at).
Deletable(v) ==
    IF v.version = 2 THEN v.state = "consumed" /\ v.age = "expired"
    ELSE v.age = IF v.state \in {"approved", "consumed"} THEN "transferExpired" ELSE "expired"

CleanupLinks ==
    /\ \E gone \in (SUBSET {v \in links : Deletable(v)}) \ {{}} : links' = links \ gone
    /\ UNCHANGED <<packageVars, issued, created>>

LinkNext ==
    \/ \E p \in Phones : revokeDeviceTx(p)
    \/ \E p \in Phones, code \in Codes : CreateDeviceLinkV3(p, code) \/ CreateDeviceLink(p, code)
    \/ \E v \in links, request \in Requests : ReserveDeviceLinkV3(v, request)
    \/ \E v \in links, request \in Requests, claim \in Claims : ClaimDeviceLinkV3(v, request, claim)
    \/ \E p \in Phones, v \in links, claim \in Claims : ApproveDeviceLinkV3(p, v, claim) \/ ApproveDeviceLink(p, v, claim)
    \/ \E v \in links : ReserveDeviceLinkEnrollment(v)
    \/ \E v \in links, claim \in Claims : ClaimDeviceLink(v, claim) \/ ConsumeApprovedDeviceLink(v, claim)
    \/ \E p \in Phones, v \in links : CancelDeviceLinkV3(p, v)
    \/ \E v \in links, claim \in Claims : CompleteDeviceLinkV3(v, claim)
    \/ \E v \in links : LinkAges(v)
    \/ \E s \in sessions : SessionEnds(s)
    \/ CleanupLinks

-----------------------------------------------------------------------------
(* Properties.                                                             *)

\* However many links of an account are open when they are approved, it never
\* has more active devices than the limit (checkDevices when a link of either
\* version is created and again when it is approved).
WithinDeviceLimit == \A p \in Phones : Cardinality(ActivePhones(AccountOf[p])) <= DeviceLimit

\* A session a link issued that has ended (logout, revocation, expiry) never
\* comes back, however often its completion is repeated
\* (device_link_v3_store.go:509-510: "must never ... resurrect this original
\* session").
NoSessionResurrected == [][(sessions' \ sessions) \cap issued = {}]_linkVars

=============================================================================
