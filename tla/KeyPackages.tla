---------------------------- MODULE KeyPackages ----------------------------
(***************************************************************************)
(* The devices of an instance, their sessions and their MLS key packages:  *)
(* a device publishes single-use packages, and a member of a conversation  *)
(* claims one per device to build a group or to add devices to it.  Device *)
(* linking and registration extend this module: both insert devices.       *)
(*                                                                         *)
(* A package is numbered in order of creation.  Time is two facts that     *)
(* only become true: a package is past its expiry, and a claim is more     *)
(* than KeyPackageClaimWindow old.                                         *)
(***************************************************************************)
EXTENDS Integers, FiniteSets, FiniteSetsExt

CONSTANTS
    Phones,       \* device ids: numbers, given out in order
    AccountOf,    \* phone -> the account its row names
    Members,      \* accounts of the conversation packages are claimed for
    InGroup,      \* devices in that conversation's MLS group
    ClaimLimit,   \* Limits.KeyPackageClaimsPerTarget
    MaxUnclaimed, \* 50: unclaimed packages a device may hold
    MaxPackages   \* bound: packages published

\* 0 stands for no device; limits.go:88: the limit is at least 1.
ASSUME PackagesAssumption == Phones \subseteq Nat \ {0} /\ ClaimLimit \in Nat

VARIABLES
    phones,       \* device -> absent, active or revoked
    sessions,     \* the rows of sessions: a device and its token
    packages,     \* the rows of device_key_packages
    handed        \* every claim of the last day, on record or not: package, device, claiming device

packageVars == <<phones, sessions, packages, handed>>

Nobody == 0

Active(p) == phones[p] = "active"

ActivePhones(account) == {p \in Phones : AccountOf[p] = account /\ Active(p)}

\* The number of the next package: ids grow and are not given out twice.
NextPackage(used) == IF used = {} THEN 1 ELSE Max(used) + 1

Numbers == {r.id : r \in packages} \cup {h.id : h \in handed}

Fresh(id, p) == [id |-> id, phone |-> p, by |-> Nobody, expired |-> FALSE, recent |-> FALSE]

\* insertInitialDeviceKeyPackage: the package a device enrols with.
WithInitialPackage(p) == packages \cup {Fresh(NextPackage(Numbers), p)}

Available(p) == {r \in packages : r.phone = p /\ r.by = Nobody /\ ~r.expired}

-----------------------------------------------------------------------------
(* Publishing and claiming.                                                *)

PublishDeviceKeyPackages(p) ==
    /\ Active(p)
    /\ Cardinality(Available(p)) + 1 <= MaxUnclaimed
    /\ NextPackage(Numbers) <= MaxPackages
    /\ packages' = packages \cup {Fresh(NextPackage(Numbers), p)}
    /\ UNCHANGED <<phones, sessions, handed>>

\* A limit counted per claiming device, not per claiming account.
AllowedPerDevice(target, p) ==
    \/ AccountOf[target] = AccountOf[p]
    \/ Cardinality({r \in packages : r.phone = target /\ r.recent /\ r.by = p}) < ClaimLimit

keyPackageClaimAllowed(target, p) ==
    \/ AccountOf[target] = AccountOf[p]
    \/ Cardinality({r \in packages : /\ r.phone = target /\ r.recent /\ r.by # Nobody
                                     /\ AccountOf[r.by] = AccountOf[p]}) < ClaimLimit

Oldest(target) == CHOOSE r \in Available(target) : \A o \in Available(target) : r.id <= o.id

\* Device p takes the oldest package of every target.
Take(targets, p) ==
    LET taken == {Oldest(t) : t \in targets} IN
    /\ packages' = (packages \ taken) \cup {[r EXCEPT !.by = p, !.recent = TRUE] : r \in taken}
    /\ handed' = handed \cup {[id |-> r.id, phone |-> r.phone, to |-> p] : r \in taken}
    /\ UNCHANGED <<phones, sessions>>

\* A group is created with every device of the conversation or not at all.
ClaimConversationKeyPackages(p) ==
    LET targets == {t \in Phones \ {p} : Active(t) /\ AccountOf[t] \in Members} IN
    /\ Active(p) /\ AccountOf[p] \in Members
    /\ \A t \in targets : keyPackageClaimAllowed(t, p) /\ Available(t) # {}
    /\ targets # {}
    /\ Take(targets, p)

\* Adding devices to a group skips those over the limit or without a package.
ClaimDeviceKeyPackages(p, asked) ==
    LET targets == {t \in asked : keyPackageClaimAllowed(t, p) /\ Available(t) # {}} IN
    /\ Active(p) /\ AccountOf[p] \in Members /\ p \in InGroup
    /\ p \notin asked
    /\ \A t \in asked : Active(t) /\ AccountOf[t] \in Members
    /\ targets # {}
    /\ Take(targets, p)

-----------------------------------------------------------------------------
(* Time and cleanup.                                                       *)

PackageExpires(r) ==
    /\ r \in packages /\ ~r.expired
    /\ packages' = (packages \ {r}) \cup {[r EXCEPT !.expired = TRUE]}
    /\ UNCHANGED <<phones, sessions, handed>>

\* A day passes since the claim.
ClaimAges(h) ==
    /\ h \in handed
    /\ handed' = handed \ {h}
    /\ packages' = {IF r.id = h.id THEN [r EXCEPT !.recent = FALSE] ELSE r : r \in packages}
    /\ UNCHANGED <<phones, sessions>>

\* The rows CleanupOperationalRows deletes: every expired one, and claimed ones
\* whose claim is older than OperationalRowRetention, longer than a day.
DeletablePackages == {s \in SUBSET packages :
    \A r \in packages : /\ r.expired => r \in s
                        /\ r \in s => r.expired \/ (r.by # Nobody /\ ~r.recent)}

CleanupPackages ==
    /\ \E gone \in DeletablePackages \ {{}} : packages' = packages \ gone
    /\ UNCHANGED <<phones, sessions, handed>>

PackageNext ==
    \/ \E p \in Phones : PublishDeviceKeyPackages(p) \/ ClaimConversationKeyPackages(p)
    \/ \E p \in Phones : \E asked \in SUBSET {t \in Phones : Active(t)} : ClaimDeviceKeyPackages(p, asked)
    \/ \E r \in packages : PackageExpires(r)
    \/ \E h \in handed : ClaimAges(h)
    \/ CleanupPackages

-----------------------------------------------------------------------------
(* Properties.                                                             *)

\* A package is handed out once, and of the claims of a day that are still on
\* record an account has at most ClaimLimit on one device of another account,
\* whichever of its devices made them and however publishing, claims of two
\* kinds, expiry and cleanup interleave (keyPackageClaimAllowed,
\* ClaimConversationKeyPackages, ClaimDeviceKeyPackages).
RecordedClaimsWithinLimit ==
    /\ \A g, h \in handed : g.id = h.id => g = h
    /\ \A p, c \in Phones : AccountOf[c] # AccountOf[p] =>
          Cardinality({h \in handed : /\ h.phone = p /\ AccountOf[h.to] = AccountOf[c]
                                      /\ \E r \in packages : r.id = h.id}) <= ClaimLimit

=============================================================================
