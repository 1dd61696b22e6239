-------------------------- MODULE Enrolment_proofs --------------------------
(***************************************************************************)
(* What is proved of how devices and accounts come to be: device links,    *)
(* key packages and registration.                                          *)
(***************************************************************************)
EXTENDS DeviceLinks, Registration, Lemmas, FiniteSetTheorems, TLAPS

-----------------------------------------------------------------------------
(***************************************************************************)
(* Device links: the device limit holds and no session comes back, for any *)
(* devices, codes, claims and limits, and however many links are open at   *)
(* once.                                                                   *)
(***************************************************************************)

\* Devices enrolled within the limit, no link yet, and any key packages.
LinksInit ==
    /\ phones \in [Phones -> {"absent", "active", "revoked"}] /\ WithinDeviceLimit
    /\ sessions = {} /\ links = {} /\ issued = {} /\ created = 0

LinksSpec == LinksInit /\ [][LinkNext]_linkVars

AnyClaim == Claims \cup {0}
Link == [n : Nat, version : {2, 3}, code : Codes, source : Phones,
         state : {"pending", "claimed", "approved", "consumed", "revoked"},
         request : Nat, recipient : Nat, claim : AnyClaim, age : {"open", "expired", "transferExpired"}]

\* A reserved device is of the source's account, and only a reserved link is
\* claimed.
Sound(v) ==
    /\ v \in Link
    /\ v.recipient # 0 => v.recipient \in Phones /\ AccountOf[v.recipient] = AccountOf[v.source]
    /\ v.request # 0 => v.recipient # 0
    /\ v.state \in {"claimed", "approved"} => v.recipient # 0

\* Rows are numbered apart, and an issued session's row is consumed as long as
\* it is there.
Numbered ==
    /\ created \in Nat
    /\ \A v \in links : v.n <= created
    /\ \A u, v \in links : u.n = v.n => u = v
    /\ \A s \in issued : /\ s.token[1] \in Nat /\ s.token[1] <= created
                         /\ \A v \in links : v.n = s.token[1] => v.state = "consumed"

LinksInv ==
    /\ phones \in [Phones -> {"absent", "active", "revoked"}]
    /\ \A v \in links : Sound(v)
    /\ sessions \subseteq issued
    /\ Numbered
    /\ WithinDeviceLimit

\* The initial state satisfies the invariant.
LEMMA LinksInitInv == LinksInit => LinksInv
BY DEF LinksInit, LinksInv, Numbered

\* Rows go, or one is replaced by one with its number that is consumed if it
\* was; nothing else changes.
LEMMA LinkRowsInv ==
    ASSUME LinksInv, UNCHANGED <<phones, sessions, issued, created>>,
           \/ links' \subseteq links
           \/ \E v \in links, w \in Link : /\ Replace(v, w) /\ Sound(w) /\ w.n = v.n
                                           /\ v.state = "consumed" => w.state = "consumed"
    PROVE  LinksInv'
<1>1. CASE links' \subseteq links
  BY Zenon, <1>1 DEF LinksInv, Numbered, WithinDeviceLimit, ActivePhones, Active
<1>2. ASSUME NEW v \in links, NEW w \in Link, Replace(v, w), Sound(w), w.n = v.n,
             v.state = "consumed" => w.state = "consumed"
      PROVE  LinksInv'
  <2>1. Numbered'
    BY <1>2 DEF LinksInv, Numbered, Replace
  <2>2. \A u \in links' : Sound(u)'
    BY Zenon, <1>2 DEF LinksInv, Replace, Sound
  <2>3. WithinDeviceLimit'
    BY Zenon DEF LinksInv, WithinDeviceLimit, ActivePhones, Active
  <2>4. QED
    BY Zenon, <2>1, <2>2, <2>3 DEF LinksInv
<1>3. QED
  BY Zenon, <1>1, <1>2

\* A link that is created preserves it.
LEMMA CreateInv ==
    ASSUME LinksInv, NEW p \in Phones, NEW code \in Codes, CreateDeviceLinkV3(p, code) \/ CreateDeviceLink(p, code)
    PROVE  LinksInv'
<1>1. PICK version \in {2, 3} : links' = links \cup {NewLink(version, code, p)}
  BY Zenon DEF CreateDeviceLinkV3, CreateDeviceLink
<1> DEFINE new == NewLink(version, code, p)
<1>2. created' = created + 1 /\ UNCHANGED <<phones, sessions, issued>>
  BY Zenon DEF CreateDeviceLinkV3, CreateDeviceLink, packageVars
<1>3. 0 \in AnyClaim
  BY Zenon DEF AnyClaim
<1>4. new \in Link /\ new.n = created + 1 /\ new.recipient = 0 /\ new.request = 0 /\ new.state = "pending"
  BY <1>3 DEF NewLink, Link, Nobody, LinksInv, Numbered
<1>4a. links' = links \cup {new}
  BY Zenon, <1>1
<1> HIDE DEF new
<1>5. Sound(new)
  BY Zenon, <1>4 DEF Sound
<1>6. Numbered'
  <2>1. \A v \in links : v.n \in Nat /\ v.n <= created
    BY Zenon DEF LinksInv, Numbered, Sound, Link
  <2>2. created \in Nat
    BY Zenon DEF LinksInv, Numbered
  <2>3. \A v \in links' : v.n <= created'
    BY <1>4a, <1>2, <1>4, <2>1, <2>2
  <2>4. \A u, v \in links' : u.n = v.n => u = v
    BY <1>4a, <1>4, <2>1, <2>2 DEF LinksInv, Numbered
  <2>5. ASSUME NEW s \in issued
        PROVE  /\ s.token[1] \in Nat /\ s.token[1] <= created'
               /\ \A v \in links' : v.n = s.token[1] => v.state = "consumed"
    <3>1. s.token[1] \in Nat /\ s.token[1] <= created
      BY Zenon DEF LinksInv, Numbered
    <3>2. new.n # s.token[1] /\ s.token[1] <= created + 1
      BY <1>4, <2>2, <3>1
    <3>3. QED
      BY Zenon, <1>4a, <1>2, <3>1, <3>2 DEF LinksInv, Numbered
  <2>6. QED
    BY <1>2, <2>2, <2>3, <2>4, <2>5 DEF Numbered
<1>7. \A u \in links' : Sound(u)'
  <2>1. \A u : Sound(u)' <=> Sound(u)
    BY Zenon DEF Sound
  <2>2. QED
    BY Zenon, <1>4a, <1>5, <2>1 DEF LinksInv
<1>8. WithinDeviceLimit'
  BY Zenon, <1>2 DEF LinksInv, WithinDeviceLimit, ActivePhones, Active
<1>9. QED
  BY Zenon, <1>2, <1>6, <1>7, <1>8 DEF LinksInv

\* The device id a reservation draws.
LEMMA Drawn ==
    ASSUME NEW account, NewPhone(account) # Nobody
    PROVE  NewPhone(account) \in Phones /\ AccountOf[NewPhone(account)] = account
<1> DEFINE free == {p \in Phones : /\ AccountOf[p] = account /\ phones[p] = "absent"
                                   /\ \A v \in links : v.recipient # p}
<1>1. free # {} /\ NewPhone(account) = Min(free)
  BY Zenon DEF NewPhone
<1>2. free \subseteq Nat
  BY Zenon, LinksAssumption
<1>3. Min(free) \in free
  BY Zenon, <1>1, <1>2, MinIsMember
<1>4. QED
  BY Zenon, <1>1, <1>3

\* Reservations, claims, cancellations and the clock preserve it.
LEMMA LinkInv ==
    ASSUME LinksInv, NEW v \in links,
           \/ \E request \in Requests : ReserveDeviceLinkV3(v, request)
           \/ \E request \in Requests, claim \in Claims : ClaimDeviceLinkV3(v, request, claim)
           \/ ReserveDeviceLinkEnrollment(v)
           \/ \E claim \in Claims : ClaimDeviceLink(v, claim)
           \/ \E p \in Phones : CancelDeviceLinkV3(p, v)
           \/ LinkAges(v)
    PROVE  LinksInv'
<1>1. Sound(v) /\ v \in Link
  BY Zenon DEF LinksInv, Sound
<1>2. ASSUME NEW request \in Requests, ReserveDeviceLinkV3(v, request) PROVE LinksInv'
  <2> DEFINE phone == NewPhone(AccountOf[v.source])
             w == [v EXCEPT !.request = request, !.recipient = phone]
  <2>1. phone \in Phones /\ AccountOf[phone] = AccountOf[v.source] /\ phone \in Nat \ {0} /\ request \in Nat
    BY Zenon, <1>2, Drawn, LinksAssumption DEF ReserveDeviceLinkV3
  <2> HIDE DEF phone
  <2>2. w \in Link /\ w.recipient = phone /\ w.source = v.source /\ w.n = v.n /\ w.state = v.state
    BY Zenon, <1>1, <2>1 DEF Link
  <2>3. Replace(v, w) /\ UNCHANGED <<phones, sessions, issued, created>>
    BY Zenon, <1>2 DEF ReserveDeviceLinkV3, packageVars, phone
  <2> HIDE DEF w
  <2>4. Sound(w)
    BY Zenon, <2>1, <2>2 DEF Sound
  <2>5. QED
    BY Zenon, <2>2, <2>3, <2>4, LinkRowsInv
<1>3. ASSUME ReserveDeviceLinkEnrollment(v) PROVE LinksInv'
  <2> DEFINE phone == NewPhone(AccountOf[v.source])
             w == [v EXCEPT !.recipient = phone]
  <2>1. phone \in Phones /\ AccountOf[phone] = AccountOf[v.source] /\ phone \in Nat \ {0}
    BY Zenon, <1>3, Drawn, LinksAssumption DEF ReserveDeviceLinkEnrollment
  <2> HIDE DEF phone
  <2>2. w \in Link /\ w.recipient = phone /\ w.source = v.source /\ w.n = v.n /\ w.state = v.state
    BY Zenon, <1>1, <2>1 DEF Link
  <2>3. Replace(v, w) /\ UNCHANGED <<phones, sessions, issued, created>>
    BY Zenon, <1>3 DEF ReserveDeviceLinkEnrollment, packageVars, phone
  <2> HIDE DEF w
  <2>4. Sound(w)
    BY Zenon, <2>1, <2>2 DEF Sound
  <2>5. QED
    BY Zenon, <2>2, <2>3, <2>4, LinkRowsInv
<1>4. ASSUME NEW claim \in Claims,
             \/ \E request \in Requests : ClaimDeviceLinkV3(v, request, claim)
             \/ ClaimDeviceLink(v, claim)
      PROVE  LinksInv'
  <2> DEFINE w == [v EXCEPT !.state = "claimed", !.claim = claim]
  <2>1. v.recipient # 0 /\ v.state = "pending"
    BY Zenon, <1>1, <1>4, LinksAssumption DEF ClaimDeviceLinkV3, ClaimDeviceLink, Open, Sound, Nobody
  <2>2. claim \in AnyClaim
    BY Zenon DEF AnyClaim
  <2>3. /\ w \in Link /\ w.recipient = v.recipient /\ w.source = v.source /\ w.n = v.n
        /\ w.request = v.request
    BY Zenon, <1>1, <2>2 DEF Link
  <2>4. Replace(v, w) /\ UNCHANGED <<phones, sessions, issued, created>>
    BY Zenon, <1>4 DEF ClaimDeviceLinkV3, ClaimDeviceLink, packageVars
  <2> HIDE DEF w
  <2>5. Sound(w)
    BY Zenon, <1>1, <2>1, <2>3 DEF Sound
  <2>6. QED
    BY Zenon, <2>1, <2>3, <2>4, <2>5, LinkRowsInv
<1>5. ASSUME NEW p \in Phones, CancelDeviceLinkV3(p, v) PROVE LinksInv'
  <2> DEFINE w == [v EXCEPT !.state = "revoked"]
  <2>1. /\ w \in Link /\ w.recipient = v.recipient /\ w.source = v.source /\ w.n = v.n
        /\ w.request = v.request /\ w.state = "revoked"
    BY Zenon, <1>1 DEF Link
  <2>2. Replace(v, w) /\ v.state # "consumed" /\ UNCHANGED <<phones, sessions, issued, created>>
    BY Zenon, <1>5 DEF CancelDeviceLinkV3, Unapproved, packageVars
  <2> HIDE DEF w
  <2>3. Sound(w)
    BY Zenon, <1>1, <2>1 DEF Sound
  <2>4. QED
    BY Zenon, <2>1, <2>2, <2>3, LinkRowsInv
<1>6. ASSUME LinkAges(v) PROVE LinksInv'
  <2>1. PICK age \in {"expired", "transferExpired"} : Replace(v, [v EXCEPT !.age = age])
    BY Zenon, <1>6 DEF LinkAges
  <2> DEFINE w == [v EXCEPT !.age = age]
  <2>2. /\ w \in Link /\ w.recipient = v.recipient /\ w.source = v.source /\ w.n = v.n
        /\ w.request = v.request /\ w.state = v.state
    BY Zenon, <1>1 DEF Link
  <2>3. Replace(v, w) /\ UNCHANGED <<phones, sessions, issued, created>>
    BY Zenon, <1>6, <2>1 DEF LinkAges, packageVars
  <2> HIDE DEF w
  <2>4. Sound(w)
    BY Zenon, <1>1, <2>2 DEF Sound
  <2>5. QED
    BY Zenon, <2>2, <2>3, <2>4, LinkRowsInv
<1>7. QED
  BY Zenon, <1>2, <1>3, <1>4, <1>5, <1>6

\* One element more is one device more at most.
LEMMA OneMore ==
    ASSUME NEW S, IsFiniteSet(S), NEW x
    PROVE  Cardinality(S \cup {x}) <= Cardinality(S) + 1
<1>1. Cardinality(S) \in Nat
  BY Zenon, FS_CardinalityType
<1>2. CASE x \in S
  <2>1. S \cup {x} = S
    BY Zenon, <1>2
  <2>2. QED
    BY <1>1, <2>1
<1>3. CASE x \notin S
  <2>1. Cardinality(S \cup {x}) = Cardinality(S) + 1
    BY Zenon, <1>3, FS_AddElement
  <2>2. QED
    BY <1>1, <2>1
<1>4. QED
  BY Zenon, <1>2, <1>3

\* An approval, which counts the devices first, preserves it.
LEMMA ApproveInv ==
    ASSUME LinksInv, NEW p \in Phones, NEW v \in links, NEW claim \in Claims,
           ApproveDeviceLinkV3(p, v, claim) \/ ApproveDeviceLink(p, v, claim)
    PROVE  LinksInv'
<1> DEFINE w == [v EXCEPT !.state = "approved"]
           new == v.recipient
           account == AccountOf[v.source]
<1>1. Sound(v) /\ v \in Link /\ v.state = "claimed"
  BY Zenon DEF LinksInv, Sound, ApproveDeviceLinkV3, ApproveDeviceLink, Open
<1>2. new \in Phones /\ AccountOf[new] = account
  BY Zenon, <1>1 DEF Sound
<1>3. /\ phones' = [phones EXCEPT ![new] = "active"] /\ Replace(v, w) /\ checkDevices(account)
      /\ UNCHANGED <<sessions, issued, created>>
  BY Zenon DEF ApproveDeviceLinkV3, ApproveDeviceLink
<1>4. /\ w \in Link /\ w.recipient = v.recipient /\ w.source = v.source /\ w.n = v.n
      /\ w.request = v.request /\ w.state = "approved"
  BY Zenon, <1>1 DEF Link
<1> HIDE DEF w
<1>5. Sound(w)
  BY Zenon, <1>1, <1>4 DEF Sound
<1>6. Numbered'
  BY <1>1, <1>3, <1>4 DEF LinksInv, Numbered, Replace
<1>7. \A u \in links' : Sound(u)'
  BY Zenon, <1>3, <1>5 DEF LinksInv, Replace, Sound
<1>8. ASSUME NEW q \in Phones PROVE (Cardinality(ActivePhones(AccountOf[q])) <= DeviceLimit)'
  <2> DEFINE a == AccountOf[q]
  <2>1. IsFiniteSet(ActivePhones(a)) /\ IsFiniteSet(ActivePhones(account))
    BY Zenon, LinksAssumption, FS_Subset DEF ActivePhones
  <2>2. CASE a = account
    <3>1. ActivePhones(a)' = ActivePhones(a) \cup {new}
      BY Zenon, <1>2, <1>3, <2>2 DEF ActivePhones, Active, LinksInv
    <3>2. Cardinality(ActivePhones(a)) \in Nat /\ Cardinality(ActivePhones(a)) < DeviceLimit
      BY Zenon, <1>3, <2>1, <2>2, FS_CardinalityType DEF checkDevices
    <3>3. Cardinality(ActivePhones(a) \cup {new}) <= Cardinality(ActivePhones(a)) + 1
      BY Zenon, <2>1, <3>2, OneMore
    <3>4. Cardinality(ActivePhones(a) \cup {new}) \in Nat
      BY <2>1, FS_AddElement, FS_CardinalityType, Zenon
    <3>5. QED
      BY <3>1, <3>2, <3>3, <3>4, LinksAssumption
  <2>3. CASE a # account
    <3>1. ActivePhones(a)' = ActivePhones(a)
      BY Zenon, <1>2, <1>3, <2>3 DEF ActivePhones, Active, LinksInv
    <3>2. QED
      BY Zenon, <3>1 DEF LinksInv, WithinDeviceLimit
  <2>4. QED
    BY Zenon, <2>2, <2>3
<1>9. phones' \in [Phones -> {"absent", "active", "revoked"}]
  BY Zenon, <1>3 DEF LinksInv
<1>10. QED
  BY Zenon, <1>3, <1>6, <1>7, <1>8, <1>9 DEF LinksInv, WithinDeviceLimit

\* A completion issues a session whose row issued none before.
LEMMA FirstSession ==
    ASSUME LinksInv, NEW v \in links, NEW claim \in Claims,
           CompleteDeviceLinkV3(v, claim) \/ ConsumeApprovedDeviceLink(v, claim)
    PROVE  LinksInv' /\ (sessions' \ sessions) \cap issued = {}
<1> DEFINE w == [v EXCEPT !.state = "consumed"]
           s == [phone |-> v.recipient, token |-> <<v.n, claim>>]
<1>1. Sound(v) /\ v \in Link /\ v.state = "approved"
  BY Zenon DEF LinksInv, Sound, CompleteDeviceLinkV3, ConsumeApprovedDeviceLink, Open
<1>2. /\ sessions' = sessions \cup {s} /\ issued' = issued \cup sessions' /\ Replace(v, w)
      /\ UNCHANGED <<phones, created>>
  BY Zenon DEF CompleteDeviceLinkV3, ConsumeApprovedDeviceLink
<1>3. /\ w \in Link /\ w.recipient = v.recipient /\ w.source = v.source /\ w.n = v.n
      /\ w.request = v.request /\ w.state = "consumed"
  BY Zenon, <1>1 DEF Link
<1>4. s.token[1] = v.n /\ v.n \in Nat
  BY Zenon, <1>1 DEF Link
<1> HIDE DEF w, s
<1>5. s \notin issued
  BY Zenon, <1>1, <1>4 DEF LinksInv, Numbered
<1>6. issued' = issued \cup {s}
  BY Zenon, <1>2 DEF LinksInv
<1>7. Numbered'
  <2>1. \A u \in links' : u.n <= created'
    BY Zenon, <1>2, <1>3 DEF LinksInv, Numbered, Replace
  <2>2. \A t, u \in links' : t.n = u.n => t = u
    BY <1>2, <1>3 DEF LinksInv, Numbered, Replace
  <2>3. \A u \in links' : u.n = v.n => u.state = "consumed"
    BY <1>2, <1>3, <2>2 DEF Replace
  <2>4. ASSUME NEW t \in issued'
        PROVE  /\ t.token[1] \in Nat /\ t.token[1] <= created'
               /\ \A u \in links' : u.n = t.token[1] => u.state = "consumed"
    <3>1. CASE t = s
      BY Zenon, <1>2, <1>4, <2>3, <3>1 DEF LinksInv, Numbered
    <3>2. CASE t \in issued
      BY Zenon, <1>2, <1>3, <3>2 DEF LinksInv, Numbered, Replace
    <3>3. QED
      BY Zenon, <1>6, <3>1, <3>2
  <2>5. QED
    BY Zenon, <1>2, <2>1, <2>2, <2>4 DEF LinksInv, Numbered
<1>8. \A u \in links' : Sound(u)'
  BY Zenon, <1>1, <1>2, <1>3 DEF LinksInv, Replace, Sound
<1>9. WithinDeviceLimit'
  BY Zenon, <1>2 DEF LinksInv, WithinDeviceLimit, ActivePhones, Active
<1>10. QED
  BY Zenon, <1>2, <1>5, <1>7, <1>8, <1>9 DEF LinksInv

\* A revoked device preserves it.
LEMMA RevokeInv == ASSUME LinksInv, NEW p \in Phones, revokeDeviceTx(p) PROVE LinksInv' /\ sessions' \subseteq sessions
<1>1. /\ phones' = [phones EXCEPT ![p] = "revoked"] /\ links' \subseteq links /\ sessions' \subseteq sessions
      /\ UNCHANGED <<issued, created>>
  BY Zenon DEF revokeDeviceTx
<1>2. Numbered' /\ \A u \in links' : Sound(u)'
  BY Zenon, <1>1 DEF LinksInv, Numbered, Sound
<1>3. ASSUME NEW q \in Phones PROVE (Cardinality(ActivePhones(AccountOf[q])) <= DeviceLimit)'
  <2> DEFINE a == AccountOf[q]
  <2>1. IsFiniteSet(ActivePhones(a)) /\ ActivePhones(a)' \in SUBSET ActivePhones(a)
    BY Zenon, <1>1, LinksAssumption, FS_Subset DEF ActivePhones, Active, LinksInv
  <2>2. Cardinality(ActivePhones(a)') <= Cardinality(ActivePhones(a))
    BY Zenon, <2>1, FS_Subset
  <2>3. Cardinality(ActivePhones(a)') \in Nat /\ Cardinality(ActivePhones(a)) \in Nat
    BY Zenon, <2>1, FS_Subset, FS_CardinalityType
  <2>4. Cardinality(ActivePhones(a)) <= DeviceLimit
    BY Zenon DEF LinksInv, WithinDeviceLimit
  <2>5. QED
    BY <2>2, <2>3, <2>4, LinksAssumption
<1>4. QED
  BY Zenon, <1>1, <1>2, <1>3 DEF LinksInv, WithinDeviceLimit

\* Every step preserves it, and no step brings a session back.
LEMMA LinksStepInv ==
    ASSUME LinksInv, [LinkNext]_linkVars
    PROVE  LinksInv' /\ (sessions' \ sessions) \cap issued = {}
<1>1. ASSUME UNCHANGED sessions, LinksInv' PROVE LinksInv' /\ (sessions' \ sessions) \cap issued = {}
  BY Zenon, <1>1
<1>2. ASSUME NEW s \in sessions, SessionEnds(s) PROVE LinksInv' /\ sessions' \subseteq sessions
  BY Zenon, <1>2 DEF SessionEnds, LinksInv, Numbered, Sound, WithinDeviceLimit, ActivePhones, Active
<1>3. ASSUME CleanupLinks PROVE LinksInv' /\ UNCHANGED sessions
  BY Zenon, <1>3, LinkRowsInv DEF CleanupLinks, packageVars
<1>4. ASSUME UNCHANGED linkVars PROVE LinksInv' /\ UNCHANGED sessions
  BY Zenon, <1>4, LinkRowsInv DEF linkVars, packageVars
<1>5. ASSUME NEW p \in Phones, NEW code \in Codes, CreateDeviceLinkV3(p, code) \/ CreateDeviceLink(p, code)
      PROVE  LinksInv' /\ UNCHANGED sessions
  BY Zenon, <1>5, CreateInv DEF CreateDeviceLinkV3, CreateDeviceLink, packageVars
<1>6. ASSUME NEW v \in links,
             \/ \E request \in Requests : ReserveDeviceLinkV3(v, request)
             \/ \E request \in Requests, claim \in Claims : ClaimDeviceLinkV3(v, request, claim)
             \/ ReserveDeviceLinkEnrollment(v)
             \/ \E claim \in Claims : ClaimDeviceLink(v, claim)
             \/ \E p \in Phones : CancelDeviceLinkV3(p, v)
             \/ LinkAges(v)
      PROVE  LinksInv' /\ UNCHANGED sessions
  BY Zenon, <1>6, LinkInv DEF ReserveDeviceLinkV3, ClaimDeviceLinkV3, ReserveDeviceLinkEnrollment, ClaimDeviceLink,
                       CancelDeviceLinkV3, LinkAges, packageVars
<1>7. ASSUME NEW p \in Phones, NEW v \in links, NEW claim \in Claims,
             ApproveDeviceLinkV3(p, v, claim) \/ ApproveDeviceLink(p, v, claim)
      PROVE  LinksInv' /\ UNCHANGED sessions
  BY Zenon, <1>7, ApproveInv DEF ApproveDeviceLinkV3, ApproveDeviceLink
<1>8. QED
  BY Zenon, <1>1, <1>2, <1>3, <1>4, <1>5, <1>6, <1>7, FirstSession, RevokeInv DEF LinkNext

\* An account never has more active devices than the limit, however many of
\* its links are open when they are approved (checkDevices in the
\* transactions of creation and approval).
THEOREM DevicesWithinLimit == LinksSpec => []WithinDeviceLimit
<1>1. LinksInv => WithinDeviceLimit
  BY Zenon DEF LinksInv
<1>2. LinksInv /\ [LinkNext]_linkVars => LinksInv'
  BY Zenon, LinksStepInv
<1>3. QED
  BY LinksInitInv, <1>1, <1>2, PTL DEF LinksSpec

\* A session that a link issued and that ended never comes back, however often
\* the completion is repeated (CompleteDeviceLinkV3, ConsumeApprovedDeviceLink).
THEOREM SessionsEnd == LinksSpec => NoSessionResurrected
<1>1. LinksInv /\ [LinkNext]_linkVars => LinksInv'
  BY Zenon, LinksStepInv
<1>2. ASSUME LinksInv, [LinkNext]_linkVars PROVE (sessions' \ sessions) \cap issued = {}
  BY Zenon, <1>2, LinksStepInv
<1>3. QED
  BY LinksInitInv, <1>1, <1>2, PTL DEF LinksSpec, NoSessionResurrected

-----------------------------------------------------------------------------
(***************************************************************************)
(* Key packages: no account records more claims on a device than the       *)
(* limit, for any devices, accounts and limits. Devices enrol, are revoked *)
(* and sign in beside this at any time.                                    *)
(***************************************************************************)

\* Packages as devices published them, none claimed yet.
PackagesInit ==
    /\ packages \subseteq {Fresh(id, p) : id \in Nat \ {0}, p \in Phones}
    /\ \A r, q \in packages : r.id = q.id => r = q
    /\ \E n \in Nat : \A r \in packages : r.id <= n
    /\ handed = {}

\* A device that enrols, by a link or with an account, brings one package.
Enrols == \E p \in Phones : packages' = WithInitialPackage(p) /\ UNCHANGED handed

\* Devices may enrol, be revoked and sign in at any time.
PackagesSpec == PackagesInit /\ [][PackageNext \/ Enrols]_<<packages, handed>>

Package == [id : Nat \ {0}, phone : Phones, by : Phones \cup {Nobody}, expired : BOOLEAN, recent : BOOLEAN]
Claim == [id : Nat \ {0}, phone : Phones, to : Phones]

\* The claims of c's account on device p that are on record.
Recorded(p, c) == {h \in handed : /\ h.phone = p /\ AccountOf[h.to] = AccountOf[c]
                                  /\ \E r \in packages : r.id = h.id}

\* Rows and claims are numbered apart, and a claim whose row is there is the
\* one the row records: so the rows that keyPackageClaimAllowed counts are the
\* recorded claims.
PackagesInv ==
    /\ packages \subseteq Package /\ handed \subseteq Claim
    /\ \E n \in Nat : \A i \in Numbers : i <= n
    /\ \A r, q \in packages : r.id = q.id => r = q
    /\ \A g, h \in handed : g.id = h.id => g = h
    /\ \A h \in handed, r \in packages : h.id = r.id => r.recent /\ r.by = h.to /\ r.phone = h.phone
    /\ \A p, c \in Phones : AccountOf[c] # AccountOf[p] => Cardinality(Recorded(p, c)) <= ClaimLimit

\* Rows told apart by numbers below a bound are finitely many.
LEMMA NumberedFinite ==
    ASSUME NEW S, NEW n \in Nat, \A x \in S : x.id \in Nat /\ x.id <= n, \A x, y \in S : x.id = y.id => x = y
    PROVE  IsFiniteSet(S)
<1> DEFINE f == [x \in S |-> x.id]
<1>1. f \in Injection(S, 0..n)
  BY DEF Injection, IsInjective
<1>2. IsFiniteSet(0..n)
  BY FS_Interval
<1>3. QED
  BY Zenon, <1>1, <1>2, FS_Injection

\* Packages and recorded claims are finitely many.
LEMMA PackagesFinite ==
    ASSUME PackagesInv
    PROVE  IsFiniteSet(packages) /\ IsFiniteSet(handed) /\ \A p, c \in Phones : IsFiniteSet(Recorded(p, c))
<1>1. PICK n \in Nat : \A i \in Numbers : i <= n
  BY Zenon DEF PackagesInv
<1>2. \A r \in packages : r.id \in Nat /\ r.id <= n
  BY Zenon, <1>1 DEF PackagesInv, Package, Numbers
<1>3. \A h \in handed : h.id \in Nat /\ h.id <= n
  BY Zenon, <1>1 DEF PackagesInv, Claim, Numbers
<1>4. IsFiniteSet(packages)
  BY Zenon, <1>2, NumberedFinite DEF PackagesInv
<1>5. IsFiniteSet(handed)
  BY Zenon, <1>3, NumberedFinite DEF PackagesInv
<1>6. QED
  BY Zenon, <1>4, <1>5, FS_Subset DEF Recorded

\* The next number is new.
LEMMA NextIsNew ==
    ASSUME PackagesInv
    PROVE  /\ NextPackage(Numbers) \in Nat \ {0}
           /\ \A i \in Numbers : i \in Nat /\ i < NextPackage(Numbers)
<1>1. PICK n \in Nat : \A i \in Numbers : i <= n
  BY Zenon DEF PackagesInv
<1>2. \A i \in Numbers : i \in Nat \ {0}
  BY DEF PackagesInv, Numbers, Package, Claim
<1>3. CASE Numbers = {}
  BY <1>3 DEF NextPackage
<1>4. CASE Numbers # {}
  <2>1. Numbers \subseteq 0..n
    BY <1>1, <1>2
  <2>2. Max(Numbers) \in Numbers /\ \A y \in Numbers : y <= Max(Numbers)
    BY Zenon, <1>4, <2>1, MaxIsGreatest
  <2>3. Max(Numbers) \in Nat
    BY Zenon, <1>2, <2>2
  <2>4. NextPackage(Numbers) = Max(Numbers) + 1
    BY Zenon, <1>4 DEF NextPackage
  <2>5. QED
    BY <1>2, <2>2, <2>3, <2>4
<1>5. QED
  BY Zenon, <1>3, <1>4

\* The initial states satisfy the invariant.
LEMMA PackagesInitInv == PackagesInit => PackagesInv
<1> SUFFICES ASSUME PackagesInit PROVE PackagesInv
  BY Zenon
<1>1. \A id \in Nat \ {0}, p \in Phones : Fresh(id, p) \in Package
  BY Zenon DEF Fresh, Package
<1>2. packages \subseteq Package /\ handed = {}
  BY <1>1 DEF PackagesInit
<1>3. \E n \in Nat : \A i \in Numbers : i <= n
  BY <1>2 DEF PackagesInit, Numbers
<1>4. \A p, c \in Phones : Cardinality(Recorded(p, c)) = 0
  <2>1. \A p, c \in Phones : Recorded(p, c) = {}
    BY Zenon, <1>2 DEF Recorded
  <2>2. QED
    BY Zenon, <2>1, FS_EmptySet
<1>5. \A p, c \in Phones : Cardinality(Recorded(p, c)) <= ClaimLimit
  BY <1>4, PackagesAssumption
<1>6. \A r, q \in packages : r.id = q.id => r = q
  BY DEF PackagesInit
<1>7. QED
  BY Zenon, <1>2, <1>3, <1>5, <1>6 DEF PackagesInv

\* Records that do not grow stay within the limit.
LEMMA FewerRecorded ==
    ASSUME PackagesInv, \A p, c \in Phones : Recorded(p, c)' \subseteq Recorded(p, c)
    PROVE  \A p, c \in Phones : AccountOf[c] # AccountOf[p] => Cardinality(Recorded(p, c)') <= ClaimLimit
<1> TAKE p, c \in Phones
<1>1. IsFiniteSet(Recorded(p, c))
  BY Zenon, PackagesFinite
<1>2. Cardinality(Recorded(p, c)') <= Cardinality(Recorded(p, c))
  BY Zenon, <1>1, FS_Subset
<1>3. Cardinality(Recorded(p, c)') \in Nat /\ Cardinality(Recorded(p, c)) \in Nat
  BY Zenon, <1>1, FS_Subset, FS_CardinalityType
<1>4. QED
  BY <1>2, <1>3, PackagesAssumption DEF PackagesInv

\* A package more, published or brought by a device that enrols.
LEMMA PublishedInv ==
    ASSUME PackagesInv, NEW p \in Phones, packages' = packages \cup {Fresh(NextPackage(Numbers), p)}, UNCHANGED handed
    PROVE  PackagesInv'
<1> DEFINE new == NextPackage(Numbers)
           row == Fresh(new, p)
<1>1. new \in Nat \ {0} /\ \A i \in Numbers : i \in Nat /\ i < new
  BY Zenon, NextIsNew
<1>2. row \in Package /\ row.id = new
  BY <1>1, Zenon DEF Fresh, Package
<1>3. packages' = packages \cup {row}
  BY Zenon
<1> HIDE DEF new, row
<1>4. \A r \in packages : r.id \in Numbers
  BY Zenon DEF Numbers
<1>5. \A h \in handed : h.id \in Numbers
  BY Zenon DEF Numbers
<1>6. new \notin Numbers
  BY <1>1
<1>7. \A i \in Numbers' : i <= new
  <2>1. \A i \in Numbers' : i \in Numbers \/ i = new
    BY Zenon, <1>2, <1>3 DEF Numbers
  <2>2. QED
    BY <1>1, <2>1
<1>8. packages' \subseteq Package /\ handed' \subseteq Claim
  BY Zenon, <1>2, <1>3 DEF PackagesInv
<1>9. \A r, q \in packages' : r.id = q.id => r = q
  BY Zenon, <1>2, <1>3, <1>4, <1>6 DEF PackagesInv
<1>10. \A h \in handed', r \in packages' : h.id = r.id => r.recent /\ r.by = h.to /\ r.phone = h.phone
  BY <1>2, <1>3, <1>5, <1>6 DEF PackagesInv
<1>11. \A q, c \in Phones : Recorded(q, c)' \subseteq Recorded(q, c)
  BY Zenon, <1>2, <1>3, <1>5, <1>6 DEF Recorded
<1>12. QED
  BY Zenon, <1>1, <1>7, <1>8, <1>9, <1>10, <1>11, FewerRecorded DEF PackagesInv

\* Rows are rewritten under their numbers, or go, and claims go with them.
LEMMA RowsRewritten ==
    ASSUME PackagesInv, packages' \subseteq Package, handed' \subseteq handed,
           \A r \in packages' : \E q \in packages : /\ r.id = q.id /\ r.by = q.by /\ r.phone = q.phone
                                                    /\ q.recent /\ (\E h \in handed' : h.id = r.id) => r.recent,
           \A r, q \in packages' : r.id = q.id => r = q
    PROVE  PackagesInv'
<1>1. PICK n \in Nat : \A i \in Numbers : i <= n
  BY Zenon DEF PackagesInv
<1>2. \A i \in Numbers' : i <= n
  BY <1>1 DEF Numbers
<1>3. \A h \in handed', r \in packages' : h.id = r.id => r.recent /\ r.by = h.to /\ r.phone = h.phone
  BY DEF PackagesInv
<1>4. \A q, c \in Phones : Recorded(q, c)' \subseteq Recorded(q, c)
  BY DEF Recorded
<1>5. QED
  BY Zenon, <1>2, <1>3, <1>4, FewerRecorded DEF PackagesInv

\* Expiry, the passing of a day and cleanup.
LEMMA AgeInv ==
    ASSUME PackagesInv,
           \/ \E r \in packages : PackageExpires(r)
           \/ \E h \in handed : ClaimAges(h)
           \/ CleanupPackages
    PROVE  PackagesInv'
<1>1. ASSUME NEW r \in packages, PackageExpires(r) PROVE PackagesInv'
  <2> DEFINE w == [r EXCEPT !.expired = TRUE]
  <2>1. w \in Package /\ w.id = r.id /\ w.by = r.by /\ w.phone = r.phone /\ w.recent = r.recent
    BY Zenon DEF PackagesInv, Package
  <2>2. packages' = (packages \ {r}) \cup {w} /\ UNCHANGED handed
    BY Zenon, <1>1 DEF PackageExpires
  <2> HIDE DEF w
  <2>3. packages' \subseteq Package /\ handed' \subseteq handed
    BY Zenon, <2>1, <2>2 DEF PackagesInv
  <2>4. \A q \in packages' : \E o \in packages : /\ q.id = o.id /\ q.by = o.by /\ q.phone = o.phone
                                                 /\ o.recent = q.recent
    BY Zenon, <2>1, <2>2
  <2>5. \A q, o \in packages' : q.id = o.id => q = o
    BY <2>1, <2>2 DEF PackagesInv
  <2>6. QED
    BY <2>3, <2>4, <2>5, RowsRewritten
<1>2. ASSUME NEW h \in handed, ClaimAges(h) PROVE PackagesInv'
  <2> DEFINE Aged(r) == IF r.id = h.id THEN [r EXCEPT !.recent = FALSE] ELSE r
  <2>1. packages' = {Aged(r) : r \in packages} /\ handed' = handed \ {h}
    BY Zenon, <1>2 DEF ClaimAges
  <2>2. ASSUME NEW r \in packages
        PROVE  /\ Aged(r) \in Package /\ Aged(r).id = r.id /\ Aged(r).by = r.by /\ Aged(r).phone = r.phone
               /\ r.id # h.id => Aged(r) = r
    BY Zenon DEF PackagesInv, Package
  <2> HIDE DEF Aged
  <2>3. packages' \subseteq Package /\ handed' \subseteq handed
    BY Zenon, <2>1, <2>2
  <2>4. \A g \in handed' : g.id # h.id
    BY Zenon, <2>1 DEF PackagesInv
  <2>5. \A q \in packages' : \E o \in packages : /\ q.id = o.id /\ q.by = o.by /\ q.phone = o.phone
                                                 /\ o.recent /\ (\E g \in handed' : g.id = q.id) => q.recent
    <3> TAKE q \in packages'
    <3>1. PICK o \in packages : q = Aged(o)
      BY Zenon, <2>1
    <3>2. q.id = o.id /\ q.by = o.by /\ q.phone = o.phone /\ (o.id # h.id => q = o)
      BY Zenon, <2>2, <3>1
    <3>3. o.recent /\ (\E g \in handed' : g.id = q.id) => q.recent
      BY Zenon, <2>4, <3>2
    <3>4. QED
      BY Zenon, <3>2, <3>3
  <2>6. \A q, o \in packages' : q.id = o.id => q = o
    BY <2>1, <2>2 DEF PackagesInv
  <2>7. QED
    BY Zenon, <2>3, <2>5, <2>6, RowsRewritten
<1>3. CASE CleanupPackages
  <2>1. packages' \subseteq packages /\ UNCHANGED handed
    BY Zenon, <1>3 DEF CleanupPackages
  <2>2. packages' \subseteq Package /\ \A q, o \in packages' : q.id = o.id => q = o
    BY Zenon, <2>1 DEF PackagesInv
  <2>3. QED
    BY Zenon, <2>1, <2>2, RowsRewritten
<1>4. QED
  BY Zenon, <1>1, <1>2, <1>3

\* The row of a recorded claim is one the limit counts.
LEMMA RecordedAreCounted ==
    ASSUME PackagesInv, NEW t \in Phones, NEW p \in Phones, AccountOf[t] # AccountOf[p], keyPackageClaimAllowed(t, p)
    PROVE  Cardinality(Recorded(t, p)) < ClaimLimit /\ Cardinality(Recorded(t, p)) \in Nat
<1> DEFINE counted == {r \in packages : /\ r.phone = t /\ r.recent /\ r.by # Nobody
                                        /\ AccountOf[r.by] = AccountOf[p]}
           RowOf(h) == CHOOSE r \in packages : r.id = h.id
           f == [h \in Recorded(t, p) |-> RowOf(h)]
<1>1. IsFiniteSet(counted) /\ IsFiniteSet(Recorded(t, p))
  BY Zenon, PackagesFinite, FS_Subset
<1>2. Cardinality(counted) < ClaimLimit
  BY Zenon DEF keyPackageClaimAllowed
<1>3. ASSUME NEW h \in Recorded(t, p) PROVE RowOf(h) \in counted /\ RowOf(h).id = h.id
  <2>1. RowOf(h) \in packages /\ RowOf(h).id = h.id
    BY Zenon DEF Recorded
  <2> HIDE DEF RowOf
  <2>2. h \in handed /\ h.to \in Phones /\ h.phone = t /\ AccountOf[h.to] = AccountOf[p]
    BY Zenon DEF Recorded, PackagesInv, Claim
  <2>3. RowOf(h).recent /\ RowOf(h).by = h.to /\ RowOf(h).phone = h.phone
    BY Zenon, <2>1, <2>2 DEF PackagesInv
  <2>4. h.to # Nobody
    BY Zenon, <2>2, PackagesAssumption DEF Nobody
  <2>5. QED
    BY Zenon, <2>1, <2>2, <2>3, <2>4
<1> HIDE DEF counted, RowOf
<1>4. f \in Injection(Recorded(t, p), counted)
  <2>1. f \in [Recorded(t, p) -> counted]
    BY Zenon, <1>3
  <2>2. \A g, h \in Recorded(t, p) : f[g] = f[h] => g = h
    BY <1>3 DEF PackagesInv, Recorded
  <2>3. QED
    BY Zenon, <2>1, <2>2 DEF Injection, IsInjective
<1>5. Cardinality(Recorded(t, p)) <= Cardinality(counted)
  BY Zenon, <1>1, <1>4, FS_Injection
<1>6. Cardinality(counted) \in Nat /\ Cardinality(Recorded(t, p)) \in Nat
  BY Zenon, <1>1, FS_CardinalityType
<1>7. QED
  BY <1>2, <1>5, <1>6, PackagesAssumption

\* The oldest package of a device is one that it has.
LEMMA OldestIsAvailable ==
    ASSUME PackagesInv, NEW t \in Phones, Available(t) # {}
    PROVE  Oldest(t) \in Available(t)
<1> DEFINE ids == {r.id : r \in Available(t)}
<1>1. \A r \in Available(t) : r.id \in Nat
  BY Zenon DEF Available, PackagesInv, Package
<1>2. ids \subseteq Nat /\ ids # {}
  BY Zenon, <1>1
<1>3. PICK u \in ids : \A v \in ids : u <= v
  BY Zenon, <1>2, LeastElement
<1>4. \E r \in Available(t) : \A o \in Available(t) : r.id <= o.id
  BY Zenon, <1>3
<1>5. QED
  BY <1>4, Zenon DEF Oldest

\* Claiming.
LEMMA TakeInv ==
    ASSUME PackagesInv, NEW p \in Phones, NEW targets \in SUBSET Phones, Take(targets, p),
           \A t \in targets : keyPackageClaimAllowed(t, p) /\ Available(t) # {}
    PROVE  PackagesInv'
<1> DEFINE taken == {Oldest(t) : t \in targets}
           Taken(r) == [r EXCEPT !.by = p, !.recent = TRUE]
           Given(r) == [id |-> r.id, phone |-> r.phone, to |-> p]
<1>1. /\ packages' = (packages \ taken) \cup {Taken(r) : r \in taken}
      /\ handed' = handed \cup {Given(r) : r \in taken}
  BY Zenon DEF Take
<1>2. ASSUME NEW t \in targets
      PROVE  Oldest(t) \in packages /\ Oldest(t).phone = t /\ Oldest(t).by = Nobody
  BY Zenon, OldestIsAvailable DEF Available
<1>3. ASSUME NEW r \in taken
      PROVE  r \in packages /\ r.phone \in targets /\ r = Oldest(r.phone) /\ r.by = Nobody
  BY Zenon, <1>2
<1> HIDE DEF taken
<1>4. ASSUME NEW r \in taken
      PROVE  /\ Taken(r) \in Package /\ Taken(r).id = r.id /\ Taken(r).phone = r.phone
             /\ Taken(r).by = p /\ Taken(r).recent
             /\ Given(r) \in Claim /\ Given(r).id = r.id /\ Given(r).phone = r.phone /\ Given(r).to = p
  <2>1. r \in Package
    BY Zenon, <1>3 DEF PackagesInv
  <2>2. /\ Taken(r) \in Package /\ Taken(r).id = r.id /\ Taken(r).phone = r.phone
        /\ Taken(r).by = p /\ Taken(r).recent
    BY <2>1, Zenon DEF Package
  <2>3. Given(r) \in Claim /\ Given(r).id = r.id /\ Given(r).phone = r.phone /\ Given(r).to = p
    BY Zenon, <2>1 DEF Claim, Package
  <2>4. QED
    BY Zenon, <2>2, <2>3
<1> HIDE DEF Taken, Given
<1>5. \A r \in taken, h \in handed : h.id # r.id
  <2>1. \A h \in handed : h.to # Nobody
    BY Zenon, PackagesAssumption DEF PackagesInv, Claim, Nobody
  <2>2. QED
    BY <1>3, <2>1 DEF PackagesInv
<1>6. packages' \subseteq Package /\ handed' \subseteq Claim
  BY <1>1, <1>4 DEF PackagesInv
<1>7. \A r \in packages' : \E q \in packages : /\ r.id = q.id /\ r.phone = q.phone
                                               /\ \/ q \in taken /\ r = Taken(q)
                                                  \/ q \notin taken /\ r = q
  BY Zenon, <1>1, <1>3, <1>4
<1>8. \A h \in handed' : h \in handed \/ \E q \in taken : h = Given(q) /\ h.id = q.id /\ h.phone = q.phone /\ h.to = p
  BY Zenon, <1>1, <1>4
<1>9. Numbers' \subseteq Numbers
  BY <1>3, <1>7, <1>8 DEF Numbers
<1>10. \A r, q \in packages' : r.id = q.id => r = q
  BY <1>7 DEF PackagesInv
<1>11. \A g, h \in handed' : g.id = h.id => g = h
  BY <1>3, <1>5, <1>8 DEF PackagesInv
<1>12. \A h \in handed', r \in packages' : h.id = r.id => r.recent /\ r.by = h.to /\ r.phone = h.phone
  <2> TAKE h \in handed', r \in packages'
  <2> SUFFICES ASSUME h.id = r.id PROVE r.recent /\ r.by = h.to /\ r.phone = h.phone
    BY Zenon
  <2>1. PICK q \in packages : r.id = q.id /\ r.phone = q.phone
                              /\ ((q \in taken /\ r = Taken(q)) \/ (q \notin taken /\ r = q))
    BY Zenon, <1>7
  <2>2. CASE h \in handed
    BY Zenon, <1>5, <2>1, <2>2 DEF PackagesInv
  <2>3. CASE \E o \in taken : h = Given(o) /\ h.id = o.id /\ h.phone = o.phone /\ h.to = p
    <3>1. PICK o \in taken : h = Given(o) /\ h.id = o.id /\ h.phone = o.phone /\ h.to = p
      BY Zenon, <2>3
    <3>2. o = q
      BY Zenon, <1>3, <2>1, <3>1 DEF PackagesInv
    <3>3. QED
      BY Zenon, <1>4, <2>1, <3>1, <3>2
  <2>4. QED
    BY Zenon, <1>8, <2>2, <2>3
<1>13. ASSUME NEW t \in Phones, NEW c \in Phones, AccountOf[c] # AccountOf[t]
       PROVE  Cardinality(Recorded(t, c)') <= ClaimLimit
  <2>1. IsFiniteSet(Recorded(t, c))
    BY Zenon, PackagesFinite
  <2>2. \A h \in Recorded(t, c)' : h \in Recorded(t, c) \/ (t \in targets /\ AccountOf[p] = AccountOf[c] /\ h = Given(Oldest(t)))
    BY <1>3, <1>7, <1>8 DEF Recorded
  <2>3. CASE t \in targets /\ AccountOf[p] = AccountOf[c]
    <3>1. Recorded(t, p) = Recorded(t, c)
      BY Zenon, <2>3 DEF Recorded
    <3>2. Cardinality(Recorded(t, c)) < ClaimLimit /\ Cardinality(Recorded(t, c)) \in Nat
      BY Zenon, <1>13, <2>3, <3>1, RecordedAreCounted
    <3>3. Recorded(t, c)' \subseteq Recorded(t, c) \cup {Given(Oldest(t))}
      BY Zenon, <2>2
    <3>4. /\ IsFiniteSet(Recorded(t, c) \cup {Given(Oldest(t))})
          /\ Cardinality(Recorded(t, c) \cup {Given(Oldest(t))}) <= Cardinality(Recorded(t, c)) + 1
      <4>1. IsFiniteSet(Recorded(t, c) \cup {Given(Oldest(t))})
        BY Zenon, <2>1, FS_AddElement
      <4>2. \/ Cardinality(Recorded(t, c) \cup {Given(Oldest(t))}) = Cardinality(Recorded(t, c))
            \/ Cardinality(Recorded(t, c) \cup {Given(Oldest(t))}) = Cardinality(Recorded(t, c)) + 1
        BY <2>1, FS_AddElement, Zenon
      <4>3. QED
        BY <3>2, <4>1, <4>2
    <3>5. /\ Cardinality(Recorded(t, c)') <= Cardinality(Recorded(t, c) \cup {Given(Oldest(t))})
          /\ Cardinality(Recorded(t, c)') \in Nat
          /\ Cardinality(Recorded(t, c) \cup {Given(Oldest(t))}) \in Nat
      BY Zenon, <3>3, <3>4, FS_Subset, FS_CardinalityType
    <3>6. QED
      BY <3>2, <3>4, <3>5, PackagesAssumption
  <2>4. CASE ~(t \in targets /\ AccountOf[p] = AccountOf[c])
    <3>1. Recorded(t, c)' \subseteq Recorded(t, c)
      BY Zenon, <2>2, <2>4
    <3>2. Cardinality(Recorded(t, c)') <= Cardinality(Recorded(t, c))
      BY Zenon, <2>1, <3>1, FS_Subset
    <3>3. Cardinality(Recorded(t, c)') \in Nat /\ Cardinality(Recorded(t, c)) \in Nat
      BY Zenon, <2>1, <3>1, FS_Subset, FS_CardinalityType
    <3>4. QED
      BY <1>13, <3>2, <3>3, PackagesAssumption DEF PackagesInv
  <2>5. QED
    BY Zenon, <2>3, <2>4
<1>14. \E n \in Nat : \A i \in Numbers' : i <= n
  BY Zenon, <1>9 DEF PackagesInv
<1>15. QED
  BY Zenon, <1>6, <1>10, <1>11, <1>12, <1>13, <1>14 DEF PackagesInv

\* Every step preserves it.
LEMMA PackagesStepInv == PackagesInv /\ [PackageNext \/ Enrols]_<<packages, handed>> => PackagesInv'
<1> SUFFICES ASSUME PackagesInv, [PackageNext \/ Enrols]_<<packages, handed>> PROVE PackagesInv'
  BY Zenon
<1>1. ASSUME NEW p \in Phones, PublishDeviceKeyPackages(p) PROVE PackagesInv'
  BY Zenon, <1>1, PublishedInv DEF PublishDeviceKeyPackages
<1>2. ASSUME NEW p \in Phones, ClaimConversationKeyPackages(p) PROVE PackagesInv'
  <2> DEFINE targets == {t \in Phones \ {p} : Active(t) /\ AccountOf[t] \in Members}
  <2>1. Take(targets, p) /\ \A t \in targets : keyPackageClaimAllowed(t, p) /\ Available(t) # {}
    BY Zenon, <1>2 DEF ClaimConversationKeyPackages
  <2>2. targets \in SUBSET Phones
    BY Zenon
  <2> HIDE DEF targets
  <2>3. QED
    BY Zenon, <2>1, <2>2, TakeInv
<1>3. ASSUME NEW p \in Phones, NEW asked \in SUBSET {t \in Phones : Active(t)}, ClaimDeviceKeyPackages(p, asked)
      PROVE  PackagesInv'
  <2> DEFINE targets == {t \in asked : keyPackageClaimAllowed(t, p) /\ Available(t) # {}}
  <2>1. Take(targets, p) /\ \A t \in targets : keyPackageClaimAllowed(t, p) /\ Available(t) # {}
    BY Zenon, <1>3 DEF ClaimDeviceKeyPackages
  <2>2. targets \in SUBSET Phones
    BY Zenon
  <2> HIDE DEF targets
  <2>3. QED
    BY Zenon, <2>1, <2>2, TakeInv
<1>4. CASE Enrols
  BY Zenon, <1>4, PublishedInv DEF Enrols, WithInitialPackage
<1>5. CASE UNCHANGED <<packages, handed>>
  <2>1. \A p, c \in Phones : Recorded(p, c)' \subseteq Recorded(p, c)
    BY Zenon, <1>5 DEF Recorded
  <2>2. QED
    BY Zenon, <1>5, <2>1, FewerRecorded DEF PackagesInv, Numbers
<1>6. QED
  BY Zenon, <1>1, <1>2, <1>3, <1>4, <1>5, AgeInv DEF PackageNext

\* A package is handed out once and no account exceeds its recorded claims on a
\* device, for any accounts, devices and limits, and however claims, expiry,
\* cleanup, enrolment and revocation interleave (keyPackageClaimAllowed).
THEOREM ClaimsWithinLimit == PackagesSpec => []RecordedClaimsWithinLimit
<1>1. PackagesInv => RecordedClaimsWithinLimit
  BY Zenon DEF PackagesInv, RecordedClaimsWithinLimit, Recorded
<1>2. QED
  BY PackagesInitInv, PackagesStepInv, <1>1, PTL DEF PackagesSpec

-----------------------------------------------------------------------------
(***************************************************************************)
(* Registration: one owner, and an invite's uses are the accounts it       *)
(* admitted, for any number of requests in flight.                         *)
(***************************************************************************)

\* Nothing reserved, no invite and no account.  Elsewhere a device may be linked
\* or revoked, but its row stays: an id is not given out again.
RegistrationInit ==
    /\ phones \in [Phones -> {"absent", "active", "revoked"}]
    /\ reservations = {} /\ accounts = {}
    /\ invites = [i \in Invites |-> NoInvite]
    /\ enrolling = [c \in Clients |-> Quiet]

DevicesChange ==
    /\ phones' \in [Phones -> {"absent", "active", "revoked"}]
    /\ \A p \in Phones : phones[p] # "absent" => phones'[p] # "absent"
    /\ UNCHANGED <<reservations, invites, accounts, enrolling>>

RegistrationSpec ==
    RegistrationInit /\ [][RegistrationNext \/ DevicesChange]_<<phones, reservations, invites, accounts, enrolling>>

Invite == [max : Nat, uses : Nat, revoked : BOOLEAN, expired : BOOLEAN, known : BOOLEAN]
Request == [at : {"idle", "reserve", "enrol"}, kind : {"owner", "register"},
            invite : Invites \cup {Nobody}, phone : Phones \cup {Nobody}]
Reserved == [phone : Phones, kind : {"owner", "register"}, invite : Invites \cup {Nobody},
             consumed : BOOLEAN, expired : BOOLEAN]
Admitted(i) == {a \in accounts : a.invite = i}
OwnerRows == {a \in accounts : a.role = "owner"}

\* An account's device is there and its reservation used up: so an enrolment
\* adds a new row, and a use counts one account.
RegistrationInv ==
    /\ phones \in [Phones -> {"absent", "active", "revoked"}]
    /\ invites \in [Invites -> Invite]
    /\ enrolling \in [Clients -> Request]
    /\ \A c \in Clients : enrolling[c].at = "enrol" /\ enrolling[c].kind = "register" => enrolling[c].invite \in Invites
    /\ reservations \subseteq Reserved
    /\ IsFiniteSet(accounts)
    /\ \A a \in accounts : /\ a.phone \in Phones /\ phones[a.phone] # "absent"
                           /\ \A r \in reservations : r.phone = a.phone => r.consumed
    /\ Cardinality(OwnerRows) <= 1
    /\ \A i \in Invites : invites[i].known => /\ invites[i].uses = Cardinality(Admitted(i))
                                              /\ invites[i].uses <= invites[i].max

\* Nothing is admitted at first.
LEMMA RegistrationInitInv == RegistrationInit => RegistrationInv
<1> SUFFICES ASSUME RegistrationInit PROVE RegistrationInv
  BY Zenon
<1>1. NoInvite \in Invite /\ ~NoInvite.known
  BY Zenon DEF NoInvite, Invite
<1>2. Quiet \in Request /\ Quiet.at = "idle"
  BY Zenon DEF Quiet, Request
<1>3. invites \in [Invites -> Invite] /\ \A i \in Invites : ~invites[i].known
  BY <1>1, Zenon DEF RegistrationInit
<1>4. enrolling \in [Clients -> Request] /\ \A c \in Clients : enrolling[c].at = "idle"
  BY Zenon, <1>2 DEF RegistrationInit
<1>5. accounts = {} /\ reservations = {} /\ OwnerRows = {}
  BY Zenon DEF RegistrationInit, OwnerRows
<1>6. IsFiniteSet(accounts) /\ Cardinality(OwnerRows) <= 1
  BY <1>5, FS_EmptySet
<1>7. QED
  BY Zenon, <1>3, <1>4, <1>5, <1>6 DEF RegistrationInit, RegistrationInv

\* Beginning a request and answering it touch its client only.
LEMMA RequestsInv ==
    ASSUME RegistrationInv, NEW c \in Clients, NEW q \in Request,
           q.at = "enrol" /\ q.kind = "register" => q.invite \in Invites,
           enrolling' = [enrolling EXCEPT ![c] = q]
    PROVE  /\ enrolling' \in [Clients -> Request]
           /\ \A d \in Clients : enrolling'[d].at = "enrol" /\ enrolling'[d].kind = "register"
                                    => enrolling'[d].invite \in Invites
BY Zenon DEF RegistrationInv

\* The quiet request is one.
LEMMA QuietRequest == Quiet \in Request /\ Quiet.at = "idle"
BY Zenon DEF Quiet, Request

\* Reserving.
LEMMA ReserveInv ==
    ASSUME RegistrationInv, NEW c \in Clients,
           \/ ReserveOwnerEnrollment(c)
           \/ \E i \in Invites : ReserveRegistrationEnrollment(c, i)
           \/ createEnrollmentReservationFor(c)
    PROVE  RegistrationInv'
<1>1. CASE ReserveOwnerEnrollment(c)
  <2> DEFINE q == [Quiet EXCEPT !.at = "reserve"]
  <2>1. q \in Request /\ q.at = "reserve"
    BY Zenon DEF Quiet, Request
  <2>2. enrolling' = [enrolling EXCEPT ![c] = q] /\ UNCHANGED <<phones, reservations, invites, accounts>>
    BY Zenon, <1>1 DEF ReserveOwnerEnrollment, Begin, packageVars
  <2> HIDE DEF q
  <2>3. QED
    BY Zenon, <2>1, <2>2, RequestsInv DEF RegistrationInv, OwnerRows, Admitted
<1>2. ASSUME NEW i \in Invites, ReserveRegistrationEnrollment(c, i) PROVE RegistrationInv'
  <2> DEFINE q == [Quiet EXCEPT !.at = "reserve", !.kind = "register", !.invite = i]
  <2>1. q \in Request /\ q.at = "reserve"
    BY Zenon DEF Quiet, Request
  <2>2. enrolling' = [enrolling EXCEPT ![c] = q] /\ UNCHANGED <<phones, reservations, invites, accounts>>
    BY Zenon, <1>2 DEF ReserveRegistrationEnrollment, Begin, packageVars
  <2> HIDE DEF q
  <2>3. QED
    BY Zenon, <2>1, <2>2, RequestsInv DEF RegistrationInv, OwnerRows, Admitted
<1>3. CASE createEnrollmentReservationFor(c)
  <2> DEFINE free == {p \in ReservedIds : phones[p] = "absent" /\ \A r \in reservations : r.phone # p}
             new == [phone |-> Min(free), kind |-> enrolling[c].kind, invite |-> enrolling[c].invite,
                     consumed |-> FALSE, expired |-> FALSE]
  <2>1. /\ free # {} /\ reservations' = reservations \cup {new}
        /\ enrolling' = [enrolling EXCEPT ![c] = Quiet] /\ UNCHANGED <<phones, invites, accounts>>
    BY Zenon, <1>3 DEF createEnrollmentReservationFor, Answer, packageVars
  <2>2. Min(free) \in free
    BY Zenon, <2>1, MinIsMember, RegistrationAssumption, PackagesAssumption
  <2>3. new.phone \in Phones /\ phones[new.phone] = "absent"
    BY Zenon, <2>2, RegistrationAssumption
  <2>4. new \in Reserved
    BY <2>3, Zenon DEF Reserved, RegistrationInv, Request
  <2> HIDE DEF free, new
  <2>5. \A a \in accounts, r \in reservations' : r.phone = a.phone => r.consumed
    BY Zenon, <2>1, <2>3 DEF RegistrationInv
  <2>6. QED
    BY Zenon, <2>1, <2>4, <2>5, QuietRequest, RequestsInv DEF RegistrationInv, OwnerRows, Admitted
<1>4. QED
  BY Zenon, <1>1, <1>2, <1>3

\* The proof is checked, or the request ends without an account.
LEMMA ProofInv ==
    ASSUME RegistrationInv, NEW c \in Clients,
           \/ \E r \in reservations : SetUpOwner(c, r.phone) \/ \E i \in Invites : Register(c, r.phone, i)
           \/ HashFails(c)
    PROVE  RegistrationInv'
<1>1. ASSUME NEW r \in reservations, SetUpOwner(c, r.phone) PROVE RegistrationInv'
  <2> DEFINE q == [at |-> "enrol", kind |-> "owner", invite |-> Nobody, phone |-> r.phone]
  <2>1. q \in Request /\ q.kind = "owner"
    BY Zenon DEF Request, RegistrationInv, Reserved
  <2>2. enrolling' = [enrolling EXCEPT ![c] = q] /\ UNCHANGED <<phones, reservations, invites, accounts>>
    BY Zenon, <1>1 DEF SetUpOwner, verifyEnrollment, Begin, packageVars
  <2> HIDE DEF q
  <2>3. QED
    BY Zenon, <2>1, <2>2, RequestsInv DEF RegistrationInv, OwnerRows, Admitted
<1>2. ASSUME NEW r \in reservations, NEW i \in Invites, Register(c, r.phone, i) PROVE RegistrationInv'
  <2> DEFINE q == [at |-> "enrol", kind |-> "register", invite |-> i, phone |-> r.phone]
  <2>1. q \in Request /\ q.invite \in Invites
    BY Zenon DEF Request, RegistrationInv, Reserved
  <2>2. enrolling' = [enrolling EXCEPT ![c] = q] /\ UNCHANGED <<phones, reservations, invites, accounts>>
    BY Zenon, <1>2 DEF Register, verifyEnrollment, Begin, packageVars
  <2> HIDE DEF q
  <2>3. QED
    BY Zenon, <2>1, <2>2, RequestsInv DEF RegistrationInv, OwnerRows, Admitted
<1>3. CASE HashFails(c)
  <2>1. enrolling' = [enrolling EXCEPT ![c] = Quiet] /\ UNCHANGED <<phones, reservations, invites, accounts>>
    BY Zenon, <1>3 DEF HashFails, Answer, packageVars
  <2>2. QED
    BY Zenon, <2>1, QuietRequest, RequestsInv DEF RegistrationInv, OwnerRows, Admitted
<1>4. QED
  BY Zenon, <1>1, <1>2, <1>3

\* Inserting an account against a reservation that stands: the device was no
\* account's, so the row is new.
LEMMA InsertInv ==
    ASSUME RegistrationInv, NEW c \in Clients, NEW role, NEW i \in Invites \cup {Nobody}, NEW kind,
           InsertAccount(c, role, i), Reservation(enrolling[c].phone, kind) # {}
    PROVE  LET new == [phone |-> enrolling[c].phone, role |-> role, invite |-> i] IN
           /\ accounts' = accounts \cup {new} /\ new \notin accounts
           /\ phones' \in [Phones -> {"absent", "active", "revoked"}]
           /\ reservations' \subseteq Reserved
           /\ IsFiniteSet(accounts')
           /\ \A a \in accounts' : /\ a.phone \in Phones /\ phones'[a.phone] # "absent"
                                   /\ \A r \in reservations' : r.phone = a.phone => r.consumed
<1> DEFINE phone == enrolling[c].phone
           new == [phone |-> phone, role |-> role, invite |-> i]
           Used(r) == IF r.phone = phone THEN [r EXCEPT !.consumed = TRUE] ELSE r
<1>1. /\ accounts' = accounts \cup {new} /\ phones' = [phones EXCEPT ![phone] = "active"]
      /\ reservations' = {Used(r) : r \in reservations}
  BY Zenon DEF InsertAccount
<1>2. PICK s \in reservations : s.phone = phone /\ ~s.consumed
  BY Zenon DEF Reservation
<1>3. phone \in Phones /\ new.phone = phone
  BY Zenon, <1>2 DEF RegistrationInv, Reserved
<1>4. \A a \in accounts : a.phone # phone
  BY <1>2, Zenon DEF RegistrationInv
<1>5. new \notin accounts
  BY Zenon, <1>3, <1>4
<1> HIDE DEF new
<1>6. phones' \in [Phones -> {"absent", "active", "revoked"}]
      /\ \A p \in Phones : phones[p] # "absent" \/ p = phone => phones'[p] # "absent"
  BY Zenon, <1>1, <1>3 DEF RegistrationInv
<1>7. ASSUME NEW r \in reservations
      PROVE  Used(r) \in Reserved /\ Used(r).phone = r.phone /\ (r.phone = phone \/ r.consumed => Used(r).consumed)
  <2>1. r \in Reserved
    BY Zenon DEF RegistrationInv
  <2>2. CASE r.phone = phone
    <3>1. Used(r) = [r EXCEPT !.consumed = TRUE]
      BY Zenon, <2>2
    <3>2. QED
      BY <2>1, <3>1, Zenon DEF Reserved
  <2>3. CASE r.phone # phone
    BY Zenon, <2>1, <2>3
  <2>4. QED
    BY Zenon, <2>2, <2>3
<1> HIDE DEF Used
<1>8. reservations' \subseteq Reserved /\ IsFiniteSet(accounts')
  BY <1>1, <1>7, FS_AddElement DEF RegistrationInv
<1>9. ASSUME NEW a \in accounts', NEW r \in reservations', r.phone = a.phone PROVE r.consumed
  <2>1. PICK o \in reservations : r = Used(o)
    BY Zenon, <1>1
  <2>2. o.phone = a.phone
    BY Zenon, <1>7, <1>9, <2>1
  <2>3. o.phone = phone \/ o.consumed
    BY Zenon, <1>1, <1>3, <2>2 DEF RegistrationInv
  <2>4. QED
    BY Zenon, <1>7, <2>1, <2>3
<1>10. \A a \in accounts' : a.phone \in Phones /\ phones'[a.phone] # "absent"
  BY Zenon, <1>1, <1>3, <1>6 DEF RegistrationInv
<1>11. QED
  BY Zenon, <1>1, <1>5, <1>6, <1>8, <1>9, <1>10 DEF new

\* Setting up the owner: only the first transaction finds no account.
LEMMA CreateOwnerInv ==
    ASSUME RegistrationInv, NEW c \in Clients, CreateOwner(c)
    PROVE  RegistrationInv'
<1>1. enrolling' = [enrolling EXCEPT ![c] = Quiet] /\ UNCHANGED invites
  BY Zenon DEF CreateOwner, Answer
<1>2. CASE SetupRequired /\ Reservation(enrolling[c].phone, "owner") # {}
  <2> DEFINE new == [phone |-> enrolling[c].phone, role |-> "owner", invite |-> Nobody]
  <2>1. InsertAccount(c, "owner", Nobody)
    BY Zenon, <1>2 DEF CreateOwner
  <2>2. /\ accounts' = accounts \cup {new} /\ new \notin accounts
        /\ phones' \in [Phones -> {"absent", "active", "revoked"}]
        /\ reservations' \subseteq Reserved
        /\ IsFiniteSet(accounts')
        /\ \A a \in accounts' : /\ a.phone \in Phones /\ phones'[a.phone] # "absent"
                                /\ \A r \in reservations' : r.phone = a.phone => r.consumed
    BY Zenon, <1>2, <2>1, InsertInv
  <2>3. new.role = "owner" /\ \A i \in Invites : new.invite # i
    BY Zenon, RegistrationAssumption DEF Nobody
  <2> HIDE DEF new
  <2>4. OwnerRows' = {new}
    BY Zenon, <1>2, <2>2, <2>3 DEF SetupRequired, OwnerRows
  <2>5. Cardinality(OwnerRows)' <= 1
    BY <2>4, FS_Singleton
  <2>6. \A i \in Invites : Admitted(i)' = Admitted(i)
    BY Zenon, <2>2, <2>3 DEF Admitted
  <2>7. QED
    BY Zenon, <1>1, <2>2, <2>5, <2>6, QuietRequest, RequestsInv DEF RegistrationInv
<1>3. CASE ~(SetupRequired /\ Reservation(enrolling[c].phone, "owner") # {})
  <2>1. UNCHANGED <<phones, reservations, accounts>>
    BY Zenon, <1>3 DEF CreateOwner, packageVars
  <2>2. QED
    BY Zenon, <1>1, <2>1, QuietRequest, RequestsInv DEF RegistrationInv, OwnerRows, Admitted
<1>4. QED
  BY Zenon, <1>2, <1>3

\* Registering: the use that is counted is the account that is added.
LEMMA RegisterInv ==
    ASSUME RegistrationInv, NEW c \in Clients, RegisterWithInvite(c)
    PROVE  RegistrationInv'
<1>0. PICK i \in Invites : i = enrolling[c].invite
  BY Zenon DEF RegisterWithInvite, RegistrationInv
<1> DEFINE taken == Usable(i) /\ \E r \in Reservation(enrolling[c].phone, "register") : r.invite = i
<1>1. enrolling' = [enrolling EXCEPT ![c] = Quiet]
  BY Zenon DEF RegisterWithInvite, Answer
<1>2. CASE taken
  <2> DEFINE new == [phone |-> enrolling[c].phone, role |-> "member", invite |-> i]
  <2>1. InsertAccount(c, "member", i) /\ invites' = [invites EXCEPT ![i].uses = @ + 1]
    BY Zenon, <1>0, <1>2 DEF RegisterWithInvite
  <2>2. Reservation(enrolling[c].phone, "register") # {} /\ Usable(i)
    BY Zenon, <1>2
  <2> HIDE DEF taken
  <2>3. /\ accounts' = accounts \cup {new} /\ new \notin accounts
        /\ phones' \in [Phones -> {"absent", "active", "revoked"}]
        /\ reservations' \subseteq Reserved
        /\ IsFiniteSet(accounts')
        /\ \A a \in accounts' : /\ a.phone \in Phones /\ phones'[a.phone] # "absent"
                                /\ \A r \in reservations' : r.phone = a.phone => r.consumed
    BY Zenon, <1>1, <2>1, <2>2, InsertInv
  <2>4. new.role = "member" /\ new.invite = i
    BY Zenon
  <2> HIDE DEF new
  <2>5. OwnerRows' = OwnerRows
    BY Zenon, <2>3, <2>4 DEF OwnerRows
  <2>6. invites[i] \in Invite /\ invites[i].uses < invites[i].max
    BY <1>1, <2>2, Zenon DEF RegistrationInv, Usable
  <2>7. invites[i].uses \in Nat /\ invites[i].max \in Nat
    BY Zenon, <2>6 DEF Invite
  <2>8. invites[i].uses = Cardinality(Admitted(i))
    BY <1>1, <2>2, Zenon DEF RegistrationInv, Usable
  <2>9. invites[i].uses + 1 \in Nat
    BY <2>7
  <2>10. invites' \in [Invites -> Invite] /\ invites'[i].uses = invites[i].uses + 1 /\ invites'[i].max = invites[i].max
    BY <1>1, <2>1, <2>6, <2>9, Zenon DEF RegistrationInv, Invite
  <2>11. \A j \in Invites \ {i} : invites'[j] = invites[j]
    BY Zenon, <2>1 DEF RegistrationInv
  <2>12. \A j \in Invites \ {i} : Admitted(j)' = Admitted(j)
    BY Zenon, <2>3, <2>4 DEF Admitted
  <2>13. Admitted(i)' = Admitted(i) \cup {new} /\ new \notin Admitted(i) /\ IsFiniteSet(Admitted(i))
    <3>1. IsFiniteSet(accounts) /\ Admitted(i) \subseteq accounts
      BY Zenon DEF Admitted, RegistrationInv
    <3>2. Admitted(i)' = Admitted(i) \cup {new} /\ new \notin Admitted(i)
      BY Zenon, <2>3, <2>4 DEF Admitted
    <3>3. QED
      BY Zenon, <3>1, <3>2, FS_Subset
  <2>14. Cardinality(Admitted(i)') = Cardinality(Admitted(i)) + 1
    BY Zenon, <2>13, FS_AddElement
  <2>15. \A j \in Invites : invites'[j].known => /\ invites'[j].uses = Cardinality(Admitted(j)')
                                                 /\ invites'[j].uses <= invites'[j].max
    <3> TAKE j \in Invites
    <3>1. CASE j = i
      <4>1. invites'[i].uses = Cardinality(Admitted(i)') /\ invites'[i].uses <= invites'[i].max
        BY <2>6, <2>7, <2>8, <2>10, <2>14
      <4>2. QED
        BY Zenon, <3>1, <4>1
    <3>2. CASE j # i
      BY Zenon, <2>11, <2>12, <3>2 DEF RegistrationInv
    <3>3. QED
      BY Zenon, <3>1, <3>2
  <2>16. QED
    BY ZenonT(60), <1>1, <2>3, <2>5, <2>10, <2>15, QuietRequest, RequestsInv DEF RegistrationInv
<1>3. CASE ~taken
  <2>1. UNCHANGED <<phones, reservations, accounts, invites>>
    BY Zenon, <1>0, <1>3 DEF RegisterWithInvite, packageVars
  <2> HIDE DEF taken
  <2>2. QED
    BY Zenon, <1>1, <2>1, QuietRequest, RequestsInv DEF RegistrationInv, OwnerRows, Admitted
<1>4. QED
  BY Zenon, <1>2, <1>3

\* An invite is created with no use, revoked, or expires.
LEMMA InviteInv ==
    ASSUME RegistrationInv, NEW i \in Invites,
           RevokeInvite(i) \/ InviteExpires(i) \/ \E max \in MaxUses : CreateInvite(i, max)
    PROVE  RegistrationInv'
<1>1. CASE RevokeInvite(i) \/ InviteExpires(i)
  <2>1. UNCHANGED <<phones, reservations, accounts, enrolling>>
    BY Zenon, <1>1 DEF RevokeInvite, InviteExpires, packageVars
  <2>2. /\ invites' \in [Invites -> Invite]
        /\ \A j \in Invites : /\ invites'[j].uses = invites[j].uses /\ invites'[j].max = invites[j].max
                              /\ invites'[j].known = invites[j].known
    <3>1. invites \in [Invites -> Invite] /\ invites[i] \in Invite
      BY Zenon DEF RegistrationInv
    <3>2. PICK v \in Invite : /\ invites' = [invites EXCEPT ![i] = v]
                              /\ v.uses = invites[i].uses /\ v.max = invites[i].max /\ v.known = invites[i].known
      <4>1. CASE RevokeInvite(i)
        <5>1. [invites[i] EXCEPT !.revoked = TRUE] \in Invite
          BY <3>1, Zenon DEF Invite
        <5>2. invites' = [invites EXCEPT ![i] = [invites[i] EXCEPT !.revoked = TRUE]]
          BY Zenon, <4>1 DEF RevokeInvite
        <5>3. QED
          BY <3>1, <5>1, <5>2, Zenon DEF Invite
      <4>2. CASE InviteExpires(i)
        <5>1. [invites[i] EXCEPT !.expired = TRUE] \in Invite
          BY <3>1, Zenon DEF Invite
        <5>2. invites' = [invites EXCEPT ![i] = [invites[i] EXCEPT !.expired = TRUE]]
          BY Zenon, <4>2 DEF InviteExpires
        <5>3. QED
          BY <3>1, <5>1, <5>2, Zenon DEF Invite
      <4>3. QED
        BY Zenon, <1>1, <4>1, <4>2
    <3>3. QED
      BY <3>1, <3>2, Zenon
  <2>3. QED
    BY Zenon, <2>1, <2>2 DEF RegistrationInv, OwnerRows, Admitted
<1>2. ASSUME NEW max \in MaxUses, CreateInvite(i, max) PROVE RegistrationInv'
  <2> DEFINE most == IF max = 0 THEN 1 ELSE max
             v == [max |-> most, uses |-> 0, revoked |-> FALSE, expired |-> FALSE, known |-> TRUE]
  <2>1. UNCHANGED <<phones, reservations, accounts, enrolling>> /\ invites' = [invites EXCEPT ![i] = v]
    BY Zenon, <1>2 DEF CreateInvite, packageVars
  <2>2. most \in Nat /\ 0 \in Nat /\ 0 <= most
    BY RegistrationAssumption
  <2> HIDE DEF most
  <2>3. v \in Invite /\ v.uses = 0 /\ v.max = most
    BY <2>2, Zenon DEF Invite
  <2> HIDE DEF v
  <2>4. Admitted(i) = {} /\ Cardinality(Admitted(i)) = 0
    BY Zenon, <1>2, FS_EmptySet DEF CreateInvite, Admitted
  <2>5. invites' \in [Invites -> Invite] /\ invites'[i] = v /\ \A j \in Invites \ {i} : invites'[j] = invites[j]
    BY Zenon, <2>1, <2>3 DEF RegistrationInv
  <2>6. \A j \in Invites : invites'[j].known => /\ invites'[j].uses = Cardinality(Admitted(j))
                                                /\ invites'[j].uses <= invites'[j].max
    BY ZenonT(60), <2>2, <2>3, <2>4, <2>5 DEF RegistrationInv
  <2>7. QED
    BY Zenon, <2>1, <2>5, <2>6 DEF RegistrationInv, OwnerRows, Admitted
<1>3. QED
  BY Zenon, <1>1, <1>2

\* Reservations expire, and cleanup takes rows away.
LEMMA OldInv ==
    ASSUME RegistrationInv, CleanupEnrollment \/ \E r \in reservations : ReservationExpires(r)
    PROVE  RegistrationInv'
<1>1. CASE CleanupEnrollment
  <2>1. PICK stale \in SUBSET Invites : invites' = [i \in Invites |-> IF i \in stale THEN NoInvite ELSE invites[i]]
    BY Zenon, <1>1 DEF CleanupEnrollment
  <2>2. reservations' \subseteq reservations /\ UNCHANGED <<phones, accounts, enrolling>>
    BY Zenon, <1>1 DEF CleanupEnrollment, packageVars
  <2>3. NoInvite \in Invite /\ ~NoInvite.known
    BY Zenon DEF NoInvite, Invite
  <2>4. invites' \in [Invites -> Invite] /\ \A i \in Invites : invites'[i] = invites[i] \/ ~invites'[i].known
    BY Zenon, <2>1, <2>3 DEF RegistrationInv
  <2>5. QED
    BY Zenon, <2>2, <2>4 DEF RegistrationInv, OwnerRows, Admitted
<1>2. ASSUME NEW r \in reservations, ReservationExpires(r) PROVE RegistrationInv'
  <2> DEFINE w == [r EXCEPT !.expired = TRUE]
  <2>1. reservations' = (reservations \ {r}) \cup {w} /\ UNCHANGED <<phones, invites, accounts, enrolling>>
    BY Zenon, <1>2 DEF ReservationExpires, packageVars
  <2>2. w \in Reserved /\ w.phone = r.phone /\ w.consumed = r.consumed
    BY Zenon DEF RegistrationInv, Reserved
  <2> HIDE DEF w
  <2>3. reservations' \subseteq Reserved /\ \A a \in accounts, o \in reservations' : o.phone = a.phone => o.consumed
    BY Zenon, <2>1, <2>2 DEF RegistrationInv
  <2>4. QED
    BY Zenon, <2>1, <2>3 DEF RegistrationInv, OwnerRows, Admitted
<1>3. QED
  BY Zenon, <1>1, <1>2

\* Every step preserves it.
LEMMA RegistrationStepInv ==
    RegistrationInv /\ [RegistrationNext \/ DevicesChange]_<<phones, reservations, invites, accounts, enrolling>>
        => RegistrationInv'
<1> SUFFICES ASSUME RegistrationInv,
                    [RegistrationNext \/ DevicesChange]_<<phones, reservations, invites, accounts, enrolling>>
             PROVE  RegistrationInv'
  BY Zenon
<1>1. CASE RegistrationNext
  BY Zenon, <1>1, ReserveInv, ProofInv, CreateOwnerInv, RegisterInv, InviteInv, OldInv DEF RegistrationNext
<1>2. CASE DevicesChange
  BY Zenon, <1>2 DEF DevicesChange, RegistrationInv, OwnerRows, Admitted
<1>3. CASE UNCHANGED <<phones, reservations, invites, accounts, enrolling>>
  BY Zenon, <1>3 DEF RegistrationInv, OwnerRows, Admitted
<1>4. QED
  BY Zenon, <1>1, <1>2, <1>3

\* One owner, and no more accounts by an invite than its uses, for any number of
\* requests at once, invites and limits (CreateOwner, RegisterWithInvite).
THEOREM AdmissionsAreCounted == RegistrationSpec => []AdmittedOnce
<1>1. RegistrationInv => AdmittedOnce
  BY Zenon DEF RegistrationInv, AdmittedOnce, OwnerRows, Admitted
<1>2. QED
  BY RegistrationInitInv, RegistrationStepInv, <1>1, PTL DEF RegistrationSpec

=============================================================================
