--------------------------- MODULE MlsGroup_proofs ---------------------------
(***************************************************************************)
(* What is proved of MlsGroup, for every set of accounts and devices and   *)
(* every bound: roster windows, revocations, pending changes, and that the *)
(* store implements MlsOrder.                                              *)
(*                                                                         *)
(* The argument.  GroupInv says how the tables follow each other.  A       *)
(* revocation row belongs to a revoked device and is announced when it     *)
(* completes (RowsInv); in a rostered group it is pending exactly while    *)
(* the device has a leaf that somebody can remove (LeafInv), which needs   *)
(* that a row past its commit has none.  A roster row is the device's last *)
(* join and the removal since (WindowInv), and the epoch counts the        *)
(* bundles (EpochInv).  No device gets a second row for one join because   *)
(* the handler adds only devices that are not on the roster and removes    *)
(* only those that are.                                                    *)
(***************************************************************************)
EXTENDS MlsGroup, Lemmas, FiniteSetTheorems, TLAPS

\* What the rows of a revocation say of each other: each completed one was
\* announced once and has its confirmations, and only revoked devices have one.
RowsInv ==
    \A d \in Devices :
        /\ announced[d] = IF revocations[d].state = "completed" THEN 1 ELSE 0
        /\ revocations[d].state = "completed" =>
              revocations[d].required \subseteq revocations[d].confirmed
        /\ revocations[d].state # "none" => d \in revoked

\* How they follow the leaves of the group.
LeafInv ==
    /\ ~GroupExists => \A d \in Devices : ~roster[d].row
    /\ GroupExists =>
          \A d \in Devices :
              /\ Pending(d) => Active(d)
              /\ revocations[d].state \in {"commit_submitted", "completed"} => ~Active(d)
              /\ Active(d) /\ d \in revoked /\ (\E x \in Devices : Active(x) /\ x \notin revoked)
                    => Pending(d)

\* The bundles that removed d after position n.
RemovedAfter(d, n) == {j \in Bundles : j > n /\ d \in log[j].removed}

\* The window of d is its last join and the removal since.
Window(d) ==
    /\ roster[d].joined \in Joined(d) \cup {0}
    /\ \A j \in Joined(d) : j <= roster[d].joined
    /\ RemovedAfter(d, roster[d].joined) = IF roster[d].removed = 0 THEN {} ELSE {roster[d].removed}

\* The first bundle.
First(k) == k \in Bundles /\ \A j \in Bundles : k <= j

\* The roster is what the bundles made of it: the devices they added, and the
\* sender of the first one.
WindowInv ==
    /\ Bundles # {} => GroupExists
    /\ GroupExists /\ Bundles = {} => \E c \in Devices : \A d \in Devices : roster[d].row <=> d = c
    /\ \A k \in Bundles : First(k) =>
          \A d \in Devices : roster[d].row <=> Joined(d) # {} \/ d = log[k].sender
    /\ \A d \in Devices : roster[d].row => Window(d)

\* Every bundle moves the epoch by one.
EpochInv == GroupExists => epoch = Cardinality(Bundles)

\* A key is new when it is first used.
KeysInv == \A k \in DOMAIN log : log[k].key <= k

GroupInv == TypeOK /\ RowsInv /\ LeafInv /\ WindowInv /\ EpochInv /\ KeysInv

-----------------------------------------------------------------------------
(* Rows.                                                                   *)

\* A row of known fields.
LEMMA RowOfFields ==
    ASSUME NEW a, NEW b, NEW c, NEW e, NEW f,
           NEW r \in [state : {a}, coordinator : {b}, required : {c}, confirmed : {e}, commit : {f}]
    PROVE  /\ r.state = a /\ r.coordinator = b /\ r.required = c /\ r.confirmed = e /\ r.commit = f
           /\ a \in RevocationStates /\ b \in Nat /\ c \in SUBSET Devices /\ e \in SUBSET Devices /\ f \in Nat
                 => r \in Revocation
BY Zenon DEF Revocation

\* A row has its fields.
LEMMA FieldsOfRow ==
    ASSUME NEW r \in Revocation
    PROVE  /\ r \in [state : {r.state}, coordinator : {r.coordinator}, required : {r.required},
                     confirmed : {r.confirmed}, commit : {r.commit}]
           /\ r.state \in RevocationStates /\ r.coordinator \in Nat /\ r.required \in SUBSET Devices
           /\ r.confirmed \in SUBSET Devices /\ r.commit \in Nat
BY Zenon DEF Revocation

\* A row moves to another state.
LEMMA StateMoved ==
    ASSUME NEW r \in Revocation, NEW s \in RevocationStates
    PROVE  /\ [r EXCEPT !.state = s] \in Revocation /\ [r EXCEPT !.state = s].state = s
           /\ [r EXCEPT !.state = s].required = r.required /\ [r EXCEPT !.state = s].confirmed = r.confirmed
<1> DEFINE q == [r EXCEPT !.state = s]
<1>1. q \in [state : {s}, coordinator : {r.coordinator}, required : {r.required},
             confirmed : {r.confirmed}, commit : {r.commit}]
  BY FieldsOfRow, Zenon
<1> HIDE DEF q
<1>2. q \in Revocation /\ q.state = s /\ q.required = r.required /\ q.confirmed = r.confirmed
  BY <1>1, FieldsOfRow, RowOfFields
<1>3. QED
  BY Zenon, <1>2 DEF q

\* completeMLSRevocationIfConfirmed moves only a submitted row, and only when
\* nothing is missing.
LEMMA CompletedRow ==
    ASSUME NEW r \in Revocation
    PROVE  /\ Completed(r) \in Revocation
           /\ r.state # "commit_submitted" => Completed(r) = r
           /\ r.state = "commit_submitted" =>
                 /\ Completed(r).state \in {"commit_submitted", "completed"}
                 /\ Completed(r).state = "completed" => Completed(r).required \subseteq Completed(r).confirmed
<1>1. "completed" \in RevocationStates
  BY Zenon DEF RevocationStates
<1>2. CASE r.state = "commit_submitted" /\ r.required \subseteq r.confirmed
  <2>1. Completed(r) = [r EXCEPT !.state = "completed"]
    BY Zenon, <1>2 DEF Completed
  <2>2. /\ Completed(r) \in Revocation /\ Completed(r).state = "completed"
        /\ Completed(r).required = r.required /\ Completed(r).confirmed = r.confirmed
    BY <1>1, <2>1, StateMoved
  <2>3. QED
    BY Zenon, <1>2, <2>2
<1>3. CASE ~(r.state = "commit_submitted" /\ r.required \subseteq r.confirmed)
  <2>1. Completed(r) = r
    BY Zenon, <1>3 DEF Completed
  <2>2. QED
    BY Zenon, <1>3, <2>1
<1>4. QED
  BY Zenon, <1>2, <1>3

\* Confirmations are added to a row.
LEMMA ConfirmedRow ==
    ASSUME NEW r \in Revocation, NEW ds, ds \subseteq Devices
    PROVE  /\ [r EXCEPT !.confirmed = @ \cup ds] \in Revocation
           /\ [r EXCEPT !.confirmed = @ \cup ds].state = r.state
<1> DEFINE q == [r EXCEPT !.confirmed = @ \cup ds]
<1>1. q \in [state : {r.state}, coordinator : {r.coordinator}, required : {r.required},
             confirmed : {r.confirmed \cup ds}, commit : {r.commit}]
  BY FieldsOfRow, Zenon
<1>2. r.confirmed \cup ds \in SUBSET Devices
  BY Zenon, FieldsOfRow
<1> HIDE DEF q
<1>3. q \in Revocation /\ q.state = r.state
  BY <1>1, <1>2, FieldsOfRow, RowOfFields
<1>4. QED
  BY Zenon, <1>3 DEF q

\* The row of a commit that was stored.
LEMMA SubmittedRow ==
    ASSUME NEW r \in Revocation, NEW x, NEW k \in Nat
    PROVE  /\ CommitSubmitted(r, x, k) \in Revocation
           /\ CommitSubmitted(r, x, k).state \in {"commit_submitted", "completed"}
           /\ CommitSubmitted(r, x, k).state = "completed" =>
                 CommitSubmitted(r, x, k).required \subseteq CommitSubmitted(r, x, k).confirmed
<1> DEFINE c == r.confirmed \cup ({x} \cap r.required)
           q == [r EXCEPT !.state = "commit_submitted", !.commit = k,
                          !.confirmed = @ \cup ({x} \cap r.required)]
<1>1. CommitSubmitted(r, x, k) = Completed(q)
  BY Zenon DEF CommitSubmitted
<1>2. q \in [state : {"commit_submitted"}, coordinator : {r.coordinator}, required : {r.required},
             confirmed : {c}, commit : {k}]
  BY FieldsOfRow, Zenon
<1>3. c \in SUBSET Devices /\ "commit_submitted" \in RevocationStates
  BY Zenon, FieldsOfRow DEF RevocationStates
<1> HIDE DEF q, c
<1>4. q \in Revocation /\ q.state = "commit_submitted"
  BY <1>2, <1>3, FieldsOfRow, RowOfFields
<1>5. QED
  BY ZenonT(60), <1>1, <1>4, CompletedRow

\* The coordinator that queueMLSRevocations records is a device.
LEMMA QueuedRow ==
    ASSUME NEW r \in Revocation, NEW gone, NEW d
    PROVE  /\ QueueRevocation(gone, d, r) \in Revocation
           /\ r.state # "none" => QueueRevocation(gone, d, r) = r
           /\ r.state = "none" =>
                 QueueRevocation(gone, d, r).state = IF Remaining(gone, d) # {} THEN "pending" ELSE "none"
<1> DEFINE m == QueuedCoordinator(gone, d)
           n == RequiredDevices(gone, d)
           q == [NoRevocation EXCEPT !.state = "pending", !.coordinator = m, !.required = n]
<1>1. CASE r.state = "none" /\ Remaining(gone, d) # {}
  <2>1. Remaining(gone, d) \subseteq Devices /\ Devices \subseteq Nat
    BY Zenon, MlsGroupConstants DEF Remaining
  <2> DEFINE evident == {x \in Remaining(gone, d) : GroupExists \/ LegacyLeafEvidence(x)}
             T == IF evident = {} THEN Remaining(gone, d) ELSE evident
  <2>2. T \subseteq Nat /\ T # {} /\ m = Min(T)
    BY <1>1, <2>1, Zenon DEF QueuedCoordinator
  <2> HIDE DEF T
  <2>3. m \in Nat
    BY Zenon, <2>2, MinIsMember
  <2>4. n \in SUBSET Devices /\ "pending" \in RevocationStates
    BY Zenon DEF RequiredDevices, RevocationStates
  <2> HIDE DEF m, n
  <2>5. q \in [state : {"pending"}, coordinator : {m}, required : {n}, confirmed : {{}}, commit : {0}]
    BY Zenon DEF NoRevocation
  <2> HIDE DEF q
  <2>6. q \in Revocation /\ q.state = "pending"
    BY <2>3, <2>4, <2>5, RowOfFields
  <2>7. QueueRevocation(gone, d, r) = q
    BY Zenon, <1>1 DEF QueueRevocation, q, m, n
  <2>8. QED
    BY Zenon, <1>1, <2>6, <2>7
<1>2. CASE ~(r.state = "none" /\ Remaining(gone, d) # {})
  <2>1. QueueRevocation(gone, d, r) = r
    BY Zenon, <1>2 DEF QueueRevocation
  <2>2. QED
    BY Zenon, <1>2, <2>1
<1>3. QED
  BY Zenon, <1>1, <1>2

\* Releasing confirmations completes a submitted row or leaves its state.
LEMMA ReleasedRow ==
    ASSUME NEW r \in Revocation, NEW ds
    PROVE  /\ ReleaseConfirmations(ds, r) \in Revocation
           /\ r.state # "commit_submitted" => ReleaseConfirmations(ds, r).state = r.state
           /\ r.state = "commit_submitted" =>
                 ReleaseConfirmations(ds, r).state \in {"commit_submitted", "completed"}
           /\ (r.state = "completed" => r.required \subseteq r.confirmed) =>
                 (ReleaseConfirmations(ds, r).state = "completed" =>
                    ReleaseConfirmations(ds, r).required \subseteq ReleaseConfirmations(ds, r).confirmed)
<1> DEFINE q == [r EXCEPT !.confirmed = @ \cup (ds \cap r.required)]
<1>1. CASE ds \cap (r.required \ r.confirmed) = {}
  <2>1. ReleaseConfirmations(ds, r) = r
    BY Zenon, <1>1 DEF ReleaseConfirmations
  <2>2. QED
    BY Zenon, <2>1, <1>1
<1>2. CASE ds \cap (r.required \ r.confirmed) # {}
  <2>1. ReleaseConfirmations(ds, r) = Completed(q)
    BY Zenon, <1>2 DEF ReleaseConfirmations
  <2>2. ds \cap r.required \subseteq Devices
    BY Zenon, FieldsOfRow
  <2>3. q \in Revocation /\ q.state = r.state
    BY <2>2, ConfirmedRow, Zenon
  <2> HIDE DEF q
  <2>4. r.state = "completed" => ~(r.required \subseteq r.confirmed)
    BY Zenon, <1>2
  <2>5. QED
    BY <2>1, <2>3, <2>4, CompletedRow
<1>3. QED
  BY Zenon, <1>1, <1>2

\* The rows after a step: announced once for each that became completed.
LEMMA RowsStep ==
    ASSUME TypeOK, RowsInv, NEW rows \in [Devices -> Revocation], revoked \subseteq revoked',
           announced' = Announce(rows),
           revocations' \in [Devices -> Revocation],
           \A d \in Devices : \/ revocations'[d] = rows[d]
                              \/ rows[d].state = "pending" /\ revocations'[d].state = "none",
           \A d \in Devices : /\ rows[d].state = "completed" => rows[d].required \subseteq rows[d].confirmed
                              /\ revocations[d].state = "completed" => rows[d].state = "completed"
                              /\ rows[d].state # "none" => d \in revoked'
    PROVE  RowsInv' /\ announced' \in [Devices -> Nat]
<1>1. announced \in [Devices -> Nat]
  BY Zenon DEF TypeOK
<1>2. ASSUME NEW d \in Devices
      PROVE  announced'[d] \in Nat /\ announced'[d] = IF rows[d].state = "completed" THEN 1 ELSE 0
  <2>1. announced'[d] = announced[d] + IF rows[d].state = "completed" /\ revocations[d].state # "completed"
                                       THEN 1 ELSE 0
    BY Zenon DEF Announce
  <2>2. announced[d] = IF revocations[d].state = "completed" THEN 1 ELSE 0
    BY Zenon DEF RowsInv
  <2>3. QED
    BY <2>1, <2>2
<1>3. announced' \in [Devices -> Nat]
  BY Zenon, <1>2 DEF Announce
<1>4. QED
  BY Zenon, <1>2, <1>3 DEF RowsInv

-----------------------------------------------------------------------------
(* Bundles.                                                                *)

\* What SendBundle sends.
Bundle == [sender : Devices, key : Nat, epoch : Nat, commit : BOOLEAN,
           added : SUBSET Devices, removed : SUBSET Devices, revocation : Nat]

Sent(b) ==
    /\ b \in Bundle
    /\ b.key <= Len(log) + 1
    /\ b.added \cap b.removed = {}
    /\ b.sender \notin b.added
    /\ BundleAccepted(b)

\* What an accepted bundle says.
LEMMA AcceptedSays ==
    ASSUME NEW b, Sent(b)
    PROVE  /\ b.sender \in Devices /\ b.sender \notin revoked /\ b.sender \notin b.removed
           /\ b.commit \in BOOLEAN
           /\ \A d \in b.added : d \in Devices /\ d \notin revoked /\ ~Active(d)
           /\ \A d \in b.removed : d \in Devices /\ Active(d) /\ (Pending(d) => d = b.revocation)
           /\ b.revocation # NoDevice => b.revocation \in b.removed /\ Pending(b.revocation)
           /\ GroupExists => b.commit /\ b.epoch = epoch /\ Active(b.sender)
           /\ ~GroupExists => b.removed = {} /\ b.epoch = 0
           /\ ~b.commit => b.added = {} /\ b.removed = {}
<1>1. /\ b.sender \in Devices /\ b.commit \in BOOLEAN
      /\ b.added \subseteq Devices /\ b.removed \subseteq Devices
  BY Zenon DEF Sent, Bundle
<1>2. /\ ValidBundle(b) /\ Eligible(b.sender) /\ (b.commit => CommitAccepted(b))
      /\ IF GroupExists THEN Active(b.sender) /\ b.commit /\ b.epoch = epoch
         ELSE b.epoch = 0 /\ b.removed = {}
  BY Zenon DEF Sent, BundleAccepted
<1>3. /\ b.sender \notin b.removed /\ (b.revocation # NoDevice => b.revocation \in b.removed)
      /\ ~b.commit => b.added = {} /\ b.removed = {}
  BY <1>2, Zenon DEF ValidBundle
<1>4. b.commit => /\ \A d \in b.added : d \notin revoked /\ ~Active(d)
                  /\ \A d \in b.removed : Active(d) /\ (Pending(d) => d = b.revocation)
                  /\ b.revocation # NoDevice => Pending(b.revocation)
  BY <1>2, Zenon DEF CommitAccepted, Eligible, CommitAllowed
<1>5. b.sender \notin revoked
  BY <1>2, Zenon DEF Eligible
<1>6. ASSUME ~b.commit PROVE b.revocation = NoDevice
  BY Zenon, <1>3, <1>6
<1>7. QED
  BY Zenon, <1>1, <1>2, <1>3, <1>4, <1>5, <1>6

\* The roster row of every device after a bundle.
RosterMoves(b, k) ==
    \A d \in Devices :
        /\ roster'[d] \in RosterRow
        /\ d \in b.added =>
              roster'[d].row /\ roster'[d].joined = k /\ roster'[d].removed = 0
        /\ d \in b.removed =>
              roster'[d].row = roster[d].row /\ roster'[d].joined = roster[d].joined /\ roster'[d].removed = k
        /\ d \notin b.added \cup b.removed /\ ~GroupExists /\ d = b.sender =>
              roster'[d].row /\ roster'[d].joined = 0 /\ roster'[d].removed = 0
        /\ d \notin b.added \cup b.removed /\ (GroupExists \/ d # b.sender) =>
              roster'[d] = roster[d]

LEMMA RosterRowOf ==
    ASSUME NEW a \in BOOLEAN, NEW j \in Nat, NEW e \in Nat, NEW m \in Nat,
           NEW r \in [row : {a}, joined : {j}, epoch : {e}, removed : {m}]
    PROVE  r \in RosterRow /\ r.row = a /\ r.joined = j /\ r.removed = m
BY Zenon DEF RosterRow

LEMMA NewRow ==
    ASSUME NEW j \in Nat, NEW e \in Nat
    PROVE  LET r == [row |-> TRUE, joined |-> j, epoch |-> e, removed |-> 0]
           IN  r \in RosterRow /\ r.row /\ r.joined = j /\ r.removed = 0
BY Zenon DEF RosterRow

LEMMA RosterMoved ==
    ASSUME TypeOK, NEW b, Sent(b), CreateMLSCommitBundle(b)
    PROVE  RosterMoves(b, Len(log) + 1) /\ roster' \in [Devices -> RosterRow]
<1> DEFINE k == Len(log) + 1
           e == BaseEpoch + 1
           new == [row |-> TRUE, joined |-> k, epoch |-> e, removed |-> 0]
           first == [row |-> TRUE, joined |-> 0, epoch |-> 0, removed |-> 0]
           gone(d) == [roster[d] EXCEPT !.removed = k]
<1>1. k \in Nat /\ e \in Nat /\ roster \in [Devices -> RosterRow]
  BY DEF TypeOK, BaseEpoch, NoGroup, GroupExists
<1>2. /\ b.sender \in Devices /\ b.commit \in BOOLEAN
      /\ ~b.commit => b.added = {} /\ b.removed = {}
  BY Zenon, AcceptedSays
<1>3. roster' = IF b.commit THEN Committed(b, k, BaseEpoch) ELSE WithCreator(b.sender)
  BY Zenon DEF CreateMLSCommitBundle
<1>4. new \in RosterRow /\ new.row /\ new.joined = k /\ new.removed = 0
  BY Zenon, <1>1, NewRow
<1>5. first \in RosterRow /\ first.row /\ first.joined = 0 /\ first.removed = 0
  <2>1. first \in [row : {TRUE}, joined : {0}, epoch : {0}, removed : {0}]
    BY Zenon
  <2> HIDE DEF first
  <2>2. QED
    BY Zenon, <2>1, RosterRowOf
<1>6. ASSUME NEW d \in Devices
      PROVE  gone(d) \in RosterRow /\ gone(d).row = roster[d].row /\ gone(d).joined = roster[d].joined /\ gone(d).removed = k
  <2>1. /\ roster[d] \in [row : {roster[d].row}, joined : {roster[d].joined}, epoch : {roster[d].epoch},
                          removed : {roster[d].removed}]
        /\ roster[d].row \in BOOLEAN /\ roster[d].joined \in Nat /\ roster[d].epoch \in Nat
    BY <1>1, Zenon DEF RosterRow
  <2>2. gone(d) \in [row : {roster[d].row}, joined : {roster[d].joined}, epoch : {roster[d].epoch}, removed : {k}]
    BY <2>1, Zenon
  <2>3. PICK g : g = gone(d)
    BY Zenon
  <2> HIDE DEF gone, k
  <2>4. g \in RosterRow /\ g.row = roster[d].row /\ g.joined = roster[d].joined /\ g.removed = k
    BY <1>1, <2>1, <2>2, <2>3, RosterRowOf
  <2>5. QED
    BY Zenon, <2>3, <2>4
<1> HIDE DEF gone
<1>7. WithCreator(b.sender) = IF GroupExists THEN roster ELSE [roster EXCEPT ![b.sender] = first]
  BY Zenon DEF WithCreator
<1>8. /\ DOMAIN roster' = Devices /\ roster' = [d \in Devices |-> roster'[d]]
      /\ \A d \in Devices :
            roster'[d] = IF d \in b.added THEN new
                         ELSE IF d \in b.removed THEN gone(d)
                         ELSE IF GroupExists \/ d # b.sender THEN roster[d] ELSE first
  <2> HIDE DEF new, first
  <2>1. CASE b.commit
    <3>1. roster' = [d \in Devices |-> IF d \in b.added THEN new
                                       ELSE IF d \in b.removed THEN gone(d)
                                       ELSE WithCreator(b.sender)[d]]
      BY Zenon, <1>3, <2>1 DEF Committed, new, gone
    <3>2. QED
      BY Zenon, <1>1, <1>2, <1>7, <3>1
  <2>2. CASE ~b.commit
    BY Zenon, <1>1, <1>2, <1>3, <1>7, <2>2
  <2>3. QED
    BY Zenon, <2>1, <2>2
<1> HIDE DEF new, first, k
<1>9. \A d \in Devices : roster'[d] \in RosterRow
  BY <1>1, <1>4, <1>5, <1>6, <1>8
<1>11. roster' \in [Devices -> RosterRow]
  BY Zenon, <1>8, <1>9
<1>12. \A d \in b.removed : d \notin b.added
  BY Zenon DEF Sent
<1>13. RosterMoves(b, k)
  BY <1>4, <1>5, <1>6, <1>8, <1>9, <1>12 DEF RosterMoves
<1>14. QED
  BY Zenon, <1>11, <1>13 DEF k

\* The log after a message.
LEMMA Appended ==
    ASSUME log \in Seq(Message), NEW m \in Message, log' = Append(log, m)
    PROVE  /\ log' \in Seq(Message) /\ Len(log) \in Nat
           /\ DOMAIN log = 1..Len(log) /\ DOMAIN log' = DOMAIN log \cup {Len(log) + 1}
           /\ Len(log) + 1 \notin DOMAIN log
           /\ \A j \in DOMAIN log : log'[j] = log[j] /\ j < Len(log) + 1 /\ log'[j] \in Message
           /\ log'[Len(log) + 1] = m
<1>1. Len(log) \in Nat /\ DOMAIN log = 1..Len(log) /\ \A j \in DOMAIN log : log[j] \in Message
  OBVIOUS
<1>2. log' \in Seq(Message) /\ DOMAIN log' = 1..(Len(log) + 1) /\ log'[Len(log) + 1] = m
  OBVIOUS
<1>3. \A j \in 1..Len(log) : log'[j] = log[j]
  OBVIOUS
<1>4. QED
  BY <1>1, <1>2, <1>3

\* The sets of bundles after a bundle with the fields of b.
LEMMA BundleAppended ==
    ASSUME log \in Seq(Message), NEW m \in Message, m.kind = "bundle", log' = Append(log, m), NEW d
    PROVE  /\ Bundles' = Bundles \cup {Len(log) + 1}
           /\ Joined(d)' = Joined(d) \cup (IF d \in m.added THEN {Len(log) + 1} ELSE {})
           /\ \A n \in 0..Len(log) :
                 RemovedAfter(d, n)' = RemovedAfter(d, n) \cup (IF d \in m.removed THEN {Len(log) + 1} ELSE {})
           /\ \A n : n = Len(log) + 1 => RemovedAfter(d, n)' = {}
<1> DEFINE k == Len(log) + 1
<1>1. /\ DOMAIN log' = DOMAIN log \cup {k} /\ k \notin DOMAIN log /\ log'[k] = m
      /\ \A j \in DOMAIN log : log'[j] = log[j] /\ j < k /\ j \in Nat
      /\ k \in Nat /\ \A n \in 0..Len(log) : n < k
  BY Appended
<1> HIDE DEF k
<1>2. Bundles' = Bundles \cup {k}
  BY Zenon, <1>1 DEF Bundles
<1>3. Joined(d)' = Joined(d) \cup (IF d \in m.added THEN {k} ELSE {})
  BY Zenon, <1>1, <1>2 DEF Joined, Bundles
<1>4. ASSUME NEW n \in 0..Len(log)
      PROVE  RemovedAfter(d, n)' = RemovedAfter(d, n) \cup (IF d \in m.removed THEN {k} ELSE {})
  BY Zenon, <1>1, <1>2 DEF RemovedAfter, Bundles
<1>5. ASSUME NEW n, n = k PROVE RemovedAfter(d, n)' = {}
  BY <1>5, <1>1, <1>2 DEF RemovedAfter, Bundles
<1>6. QED
  BY Zenon, <1>2, <1>3, <1>4, <1>5 DEF k

\* They stay when the log does, and when a message is appended to it.
LEMMA BundlesStay ==
    ASSUME \/ UNCHANGED log
           \/ log \in Seq(Message) /\ \E m \in Message : m.kind # "bundle" /\ log' = Append(log, m)
    PROVE  Bundles' = Bundles /\ \A k \in Bundles : log'[k] = log[k]
<1>1. CASE UNCHANGED log
  BY Zenon, <1>1 DEF Bundles
<1>2. CASE log \in Seq(Message) /\ \E m \in Message : m.kind # "bundle" /\ log' = Append(log, m)
  <2>1. PICK m \in Message : m.kind # "bundle" /\ log' = Append(log, m)
    BY Zenon, <1>2
  <2>2. /\ DOMAIN log' = DOMAIN log \cup {Len(log) + 1} /\ log'[Len(log) + 1] = m
        /\ \A j \in DOMAIN log : log'[j] = log[j]
    BY Zenon, <1>2, <2>1, Appended
  <2>3. QED
    BY Zenon, <2>1, <2>2 DEF Bundles
<1>3. QED
  BY Zenon, <1>1, <1>2

\* So does what the roster says of them.
LEMMA WindowsStay ==
    ASSUME WindowInv, EpochInv, UNCHANGED <<roster, epoch>>,
           Bundles' = Bundles, \A k \in Bundles : log'[k] = log[k]
    PROVE  WindowInv' /\ EpochInv'
<1>1. \A d \in Devices : Joined(d)' = Joined(d)
  BY Zenon DEF Joined
<1>2. \A d \in Devices : \A n : RemovedAfter(d, n)' = RemovedAfter(d, n)
  BY Zenon DEF RemovedAfter
<1>3. \A d \in Devices : Window(d) => Window(d)'
  BY Zenon, <1>1, <1>2 DEF Window
<1>4. \A k \in Bundles : First(k)' <=> First(k)
  BY Zenon DEF First
<1>5. GroupExists' <=> GroupExists
  BY Zenon DEF GroupExists
<1>6. WindowInv'
  BY <1>1, <1>3, <1>4, <1>5 DEF WindowInv
<1>7. EpochInv'
  BY Zenon, <1>5 DEF EpochInv
<1>8. QED
  BY Zenon, <1>6, <1>7

\* The revocations after a bundle: the one it commits is submitted, and those
\* without a leaf are dropped.
LEMMA BundleRows ==
    ASSUME TypeOK, RowsInv, NEW b, Sent(b), CreateMLSCommitBundle(b)
    PROVE  /\ RowsInv' /\ announced' \in [Devices -> Nat] /\ revocations' \in [Devices -> Revocation]
           /\ \A d \in Devices :
                 /\ d = b.revocation => revocations'[d].state \in {"commit_submitted", "completed"}
                 /\ d # b.revocation =>
                       revocations'[d] = IF Pending(d) /\ ~Active(d)' THEN NoRevocation ELSE revocations[d]
<1> DEFINE k == Len(log) + 1
           sub(d) == CommitSubmitted(revocations[d], b.sender, k)
           rows == [d \in Devices |-> IF b.commit /\ d = b.revocation THEN sub(d) ELSE revocations[d]]
<1>1. /\ revocations' = [d \in Devices |-> IF rows[d].state = "pending" /\ ~(roster'[d].row /\ roster'[d].removed = 0)
                                           THEN NoRevocation ELSE rows[d]]
      /\ announced' = Announce(rows) /\ UNCHANGED revoked
  BY Zenon DEF CreateMLSCommitBundle, DropStale
<1>2. k \in Nat /\ revocations \in [Devices -> Revocation]
  BY DEF TypeOK
<1>3. /\ b.commit \in BOOLEAN /\ 0 \notin Devices
      /\ \A d \in Devices : d = b.revocation => b.commit /\ Pending(d)
  BY Zenon, AcceptedSays, MlsGroupConstants DEF NoDevice
<1>4. ASSUME NEW d \in Devices
      PROVE  /\ sub(d) \in Revocation /\ sub(d).state \in {"commit_submitted", "completed"}
             /\ sub(d).state = "completed" => sub(d).required \subseteq sub(d).confirmed
  BY Zenon, <1>2, SubmittedRow
<1>5. NoRevocation \in Revocation /\ NoRevocation.state = "none"
  BY Zenon DEF NoRevocation, Revocation, RevocationStates, NoDevice
<1> HIDE DEF sub
<1>6. /\ rows \in [Devices -> Revocation]
      /\ \A d \in Devices : rows[d] = IF d = b.revocation THEN sub(d) ELSE revocations[d]
  BY Zenon, <1>2, <1>3, <1>4
<1> HIDE DEF rows
<1>7. /\ revocations' \in [Devices -> Revocation]
      /\ \A d \in Devices : \/ revocations'[d] = rows[d]
                            \/ rows[d].state = "pending" /\ revocations'[d].state = "none"
  BY Zenon, <1>1, <1>5, <1>6
<1>8. ASSUME NEW d \in Devices
      PROVE  /\ rows[d].state = "completed" => rows[d].required \subseteq rows[d].confirmed
             /\ revocations[d].state = "completed" => rows[d].state = "completed"
             /\ rows[d].state # "none" => d \in revoked'
  <2>1. CASE d = b.revocation
    BY Zenon, <1>1, <1>3, <1>4, <1>6, <2>1 DEF RowsInv, Pending
  <2>2. CASE d # b.revocation
    BY Zenon, <1>1, <1>6, <2>2 DEF RowsInv
  <2>3. QED
    BY Zenon, <2>1, <2>2
<1>9. RowsInv' /\ announced' \in [Devices -> Nat]
  BY Zenon, <1>1, <1>6, <1>7, <1>8, RowsStep
<1>10. ASSUME NEW d \in Devices
       PROVE  /\ d = b.revocation => revocations'[d].state \in {"commit_submitted", "completed"}
              /\ d # b.revocation =>
                    revocations'[d] = IF Pending(d) /\ ~Active(d)' THEN NoRevocation ELSE revocations[d]
  BY Zenon, <1>1, <1>4, <1>6 DEF Pending, Active
<1>11. QED
  BY Zenon, <1>7, <1>9, <1>10

\* The leaves after a bundle.
LEMMA BundleLeaves ==
    ASSUME TypeOK, RowsInv, LeafInv, NEW b, Sent(b), CreateMLSCommitBundle(b)
    PROVE  LeafInv'
<1>1. /\ \A d \in Devices :
            /\ d = b.revocation => revocations'[d].state \in {"commit_submitted", "completed"}
            /\ d # b.revocation =>
                  revocations'[d] = IF Pending(d) /\ ~Active(d)' THEN NoRevocation ELSE revocations[d]
      /\ NoRevocation.state = "none"
  BY Zenon, BundleRows DEF NoRevocation
<1>2. RosterMoves(b, Len(log) + 1) /\ Len(log) + 1 \in Nat /\ Len(log) + 1 # 0
  BY RosterMoved DEF TypeOK
<1>3. GroupExists' /\ revoked' = revoked
  <2>1. epoch' = (IF b.commit THEN BaseEpoch + 1 ELSE 0) /\ revoked' = revoked
    BY Zenon DEF CreateMLSCommitBundle
  <2>2. BaseEpoch \in Nat
    BY Zenon DEF BaseEpoch, TypeOK, GroupExists, NoGroup
  <2>3. QED
    BY <2>1, <2>2 DEF GroupExists, NoGroup
<1>4. ASSUME NEW d \in Devices
      PROVE  /\ d \in b.added => Active(d)' /\ d \notin revoked
             /\ d \in b.removed => ~Active(d)'
             /\ d \notin b.added \cup b.removed /\ GroupExists => (Active(d)' <=> Active(d))
             /\ d \notin b.added \cup b.removed /\ ~GroupExists => (Active(d)' => d = b.sender)
  <2>1. d \in b.added => Active(d)' /\ d \notin revoked
    BY Zenon, <1>2, AcceptedSays DEF RosterMoves, Active
  <2>2. d \in b.removed => ~Active(d)'
    BY Zenon, <1>2 DEF RosterMoves, Active
  <2>3. d \notin b.added \cup b.removed /\ (GroupExists \/ d # b.sender) => (Active(d)' <=> Active(d))
    BY Zenon, <1>2 DEF RosterMoves, Active
  <2>4. ~GroupExists => ~Active(d)
    BY Zenon DEF LeafInv, Active
  <2>5. QED
    BY Zenon, <2>1, <2>2, <2>3, <2>4
<1>5. /\ b.sender \in Devices /\ b.sender \notin revoked
      /\ GroupExists => Active(b.sender)
      /\ b.revocation # NoDevice => b.revocation \in b.removed
      /\ 0 \notin Devices
      /\ \A d \in b.removed : Pending(d) => d = b.revocation
  BY Zenon, AcceptedSays, MlsGroupConstants
<1>6. ASSUME NEW d \in Devices
      PROVE  /\ Pending(d)' => Active(d)'
             /\ revocations'[d].state \in {"commit_submitted", "completed"} => ~Active(d)'
             /\ Active(d)' /\ d \in revoked => Pending(d)'
  <2>1. CASE d = b.revocation
    <3>1. d \in b.removed
      BY Zenon, <1>5, <2>1 DEF NoDevice
    <3>2. QED
      BY Zenon, <1>1, <1>4, <2>1, <3>1 DEF Pending
  <2>2. CASE d # b.revocation
    <3>1. revocations'[d] = IF Pending(d) /\ ~Active(d)' THEN NoRevocation ELSE revocations[d]
      BY Zenon, <1>1, <2>2
    <3>2. Pending(d)' => Active(d)'
      BY Zenon, <1>1, <3>1 DEF Pending
    <3>3. ASSUME revocations'[d].state \in {"commit_submitted", "completed"} PROVE ~Active(d)'
      <4>1. revocations[d].state \in {"commit_submitted", "completed"} /\ d \in revoked
        BY Zenon, <1>1, <3>1, <3>3 DEF RowsInv
      <4>2. GroupExists => ~Active(d)
        BY Zenon, <4>1 DEF LeafInv
      <4>3. QED
        BY Zenon, <1>4, <1>5, <4>1, <4>2
    <3>4. ASSUME Active(d)', d \in revoked PROVE Pending(d)'
      <4>1. d \notin b.added \cup b.removed /\ GroupExists /\ Active(d)
        BY Zenon, <1>4, <1>5, <3>4
      <4>2. Pending(d)
        BY Zenon, <1>5, <3>4, <4>1 DEF LeafInv
      <4>3. QED
        BY Zenon, <3>1, <3>4, <4>2 DEF Pending
    <3>5. QED
      BY Zenon, <3>2, <3>3, <3>4
  <2>3. QED
    BY Zenon, <2>1, <2>2
<1>7. QED
  BY Zenon, <1>3, <1>6 DEF LeafInv

\* What a bundle with a commit stores.
LEMMA BundleStored ==
    ASSUME TypeOK, NEW b, Sent(b), CreateMLSCommitBundle(b)
    PROVE  /\ b.commit => \E m \in Message : /\ log' = Append(log, m) /\ m.kind = "bundle" /\ m.key = b.key
                                             /\ m.sender = b.sender /\ m.base = b.epoch
                                             /\ m.added = b.added /\ m.removed = b.removed
           /\ b.commit => live' = live \cup {Len(log) + 1}
           /\ ~b.commit => UNCHANGED <<log, live>>
<1> DEFINE m == [kind |-> "bundle", sender |-> b.sender, to |-> NoDevice,
                 key |-> b.key, base |-> b.epoch, added |-> b.added,
                 removed |-> b.removed, revocation |-> b.revocation]
<1>1. /\ b.commit => log' = Append(log, m) /\ live' = live \cup {Len(log) + 1}
      /\ ~b.commit => UNCHANGED <<log, live>>
  BY Zenon DEF CreateMLSCommitBundle, StoreBundle
<1>2. /\ b.sender \in Devices /\ b.key \in Nat /\ b.epoch \in Nat /\ b.added \in SUBSET Devices
      /\ b.removed \in SUBSET Devices /\ b.revocation \in Nat
  BY Zenon DEF Sent, Bundle
<1>3. m \in Message
  BY Zenon, <1>2 DEF Message, NoDevice
<1>4. /\ m.kind = "bundle" /\ m.key = b.key /\ m.sender = b.sender /\ m.base = b.epoch
      /\ m.added = b.added /\ m.removed = b.removed
  BY Zenon
<1> HIDE DEF m
<1>5. QED
  BY Zenon, <1>1, <1>3, <1>4

\* Positions of bundles.
LEMMA BundlePositions ==
    ASSUME log \in Seq(Message)
    PROVE  /\ Bundles \subseteq 1..Len(log) /\ Len(log) \in Nat
           /\ \A d : Joined(d) \subseteq Bundles
           /\ IsFiniteSet(Bundles) /\ Cardinality(Bundles) \in Nat
<1>1. Bundles \subseteq 1..Len(log) /\ Len(log) \in Nat
  BY DEF Bundles
<1>2. \A d : Joined(d) \subseteq Bundles
  BY Zenon DEF Joined
<1>3. IsFiniteSet(1..Len(log))
  BY <1>1, FS_Interval
<1>4. IsFiniteSet(Bundles) /\ Cardinality(Bundles) \in Nat
  BY Zenon, <1>1, <1>3, FS_Subset, FS_CardinalityType
<1>5. QED
  BY Zenon, <1>1, <1>2, <1>4

\* The epoch after a bundle.
LEMMA BundleEpoch ==
    ASSUME TypeOK, WindowInv, EpochInv, NEW b, Sent(b), CreateMLSCommitBundle(b)
    PROVE  EpochInv' /\ GroupExists' /\ epoch' \in Nat
<1>1. epoch' = IF b.commit THEN BaseEpoch + 1 ELSE 0
  BY Zenon DEF CreateMLSCommitBundle
<1>2. log \in Seq(Message) /\ epoch \in Nat \cup {-1}
  BY Zenon DEF TypeOK, NoGroup
<1>3. Cardinality(Bundles) \in Nat /\ IsFiniteSet(Bundles) /\ Bundles \subseteq 1..Len(log) /\ Len(log) \in Nat
  BY Zenon, <1>2, BundlePositions
<1>4. BaseEpoch = Cardinality(Bundles)
  <2>1. CASE GroupExists
    BY Zenon, <2>1 DEF EpochInv, BaseEpoch
  <2>2. CASE ~GroupExists
    <3>1. Bundles = {}
      BY Zenon, <2>2 DEF WindowInv
    <3>2. QED
      BY Zenon, <2>2, <3>1, FS_EmptySet DEF BaseEpoch
  <2>3. QED
    BY Zenon, <2>1, <2>2
<1>5. CASE b.commit
  <2>1. Bundles' = Bundles \cup {Len(log) + 1}
    BY Zenon, <1>2, <1>5, BundleStored, BundleAppended
  <2>2. Cardinality(Bundles \cup {Len(log) + 1}) = Cardinality(Bundles) + 1
    <3>1. Len(log) + 1 \notin Bundles
      BY <1>3
    <3>2. QED
      BY Zenon, <1>3, <3>1, FS_AddElement
  <2>3. epoch' = Cardinality(Bundles') /\ epoch' \in Nat
    BY <1>1, <1>3, <1>4, <1>5, <2>1, <2>2
  <2>4. QED
    BY <2>3 DEF EpochInv, GroupExists, NoGroup
<1>6. CASE ~b.commit
  <2>1. ~GroupExists /\ UNCHANGED log
    BY Zenon, <1>6, AcceptedSays, BundleStored
  <2>2. Bundles = {} /\ Bundles' = Bundles
    BY Zenon, <2>1, BundlesStay DEF WindowInv
  <2>3. epoch' = Cardinality(Bundles') /\ epoch' \in Nat
    BY Zenon, <1>1, <1>6, <2>2, FS_EmptySet
  <2>4. QED
    BY <2>3 DEF EpochInv, GroupExists, NoGroup
<1>7. QED
  BY Zenon, <1>5, <1>6

\* The windows after a bundle with a commit.
LEMMA CommitWindows ==
    ASSUME TypeOK, LeafInv, WindowInv, EpochInv, NEW b, Sent(b), CreateMLSCommitBundle(b), b.commit
    PROVE  WindowInv'
<1>1. PICK m \in Message : /\ log' = Append(log, m) /\ m.kind = "bundle"
                           /\ m.sender = b.sender /\ m.added = b.added /\ m.removed = b.removed
  BY Zenon, BundleStored
<1>2. PICK k : k = Len(log) + 1
  BY Zenon
<1>3. /\ log \in Seq(Message) /\ Len(log) \in Nat /\ k \in Nat /\ k # 0
      /\ Bundles \subseteq 1..Len(log) /\ \A d : Joined(d) \subseteq Bundles
      /\ \A j \in Bundles : j < k /\ j # k
  BY <1>2, BundlePositions DEF TypeOK
<1>4. Bundles' = Bundles \cup {k} /\ log'[k] = m /\ \A j \in Bundles : log'[j] = log[j]
  BY Zenon, <1>1, <1>2, <1>3, Appended, BundleAppended DEF Bundles
<1>5. ASSUME NEW d \in Devices
      PROVE  /\ Joined(d)' = Joined(d) \cup (IF d \in b.added THEN {k} ELSE {})
             /\ \A n \in 0..Len(log) :
                   RemovedAfter(d, n)' = RemovedAfter(d, n) \cup (IF d \in b.removed THEN {k} ELSE {})
             /\ \A n : n = k => RemovedAfter(d, n)' = {}
  BY Zenon, <1>1, <1>2, <1>3, BundleAppended
<1>6. RosterMoves(b, k)
  BY Zenon, <1>2, RosterMoved
<1>7. GroupExists'
  BY Zenon, BundleEpoch
<1>8. /\ b.sender \in Devices /\ b.sender \notin b.removed
      /\ \A d \in b.removed : d \in Devices /\ roster[d].row /\ roster[d].removed = 0 /\ d \notin b.added
      /\ GroupExists => roster[b.sender].row
      /\ ~GroupExists => b.removed = {}
  BY Zenon, AcceptedSays DEF Sent, Active
<1>9. ASSUME NEW d \in Devices
      PROVE  /\ GroupExists => (roster'[d].row <=> d \in b.added \/ roster[d].row)
             /\ ~GroupExists => (roster'[d].row <=> d \in b.added \/ d = b.sender)
  <2>1. ~GroupExists => ~roster[d].row
    BY Zenon DEF LeafInv
  <2>2. QED
    BY Zenon, <1>6, <1>8, <2>1 DEF RosterMoves
<1>10. ASSUME NEW f \in Bundles', First(f)', NEW d \in Devices
       PROVE  roster'[d].row <=> Joined(d)' # {} \/ d = log'[f].sender
  <2>1. CASE Bundles = {}
    <3>1. f = k /\ log'[f].sender = b.sender /\ Joined(d) = {}
      BY Zenon, <1>1, <1>3, <1>4, <2>1
    <3>2. Joined(d)' # {} <=> d \in b.added
      BY Zenon, <1>5, <3>1
    <3>3. GroupExists => (roster[d].row <=> d = b.sender)
      BY Zenon, <1>8, <2>1 DEF WindowInv
    <3>4. QED
      BY Zenon, <1>9, <3>1, <3>2, <3>3
  <2>2. CASE Bundles # {}
    <3>1. f \in Bundles /\ First(f)
      <4>1. PICK g \in Bundles : g < k
        BY Zenon, <1>3, <2>2
      <4>2. f \in Bundles \cup {k} /\ \A j \in Bundles \cup {k} : f <= j
        BY Zenon, <1>4, <1>10 DEF First
      <4>3. f <= g /\ g \in Nat
        BY <1>3, <4>1, <4>2
      <4>4. f # k
        BY <1>3, <4>1, <4>3
      <4>5. QED
        BY Zenon, <4>2, <4>4 DEF First
    <3>2. GroupExists /\ (roster[d].row <=> Joined(d) # {} \/ d = log[f].sender)
      BY Zenon, <2>2, <3>1 DEF WindowInv
    <3>3. QED
      BY ZenonT(60), <1>4, <1>5, <1>9, <3>1, <3>2
  <2>3. QED
    BY Zenon, <2>1, <2>2
<1>11. ASSUME NEW d \in Devices, roster'[d].row PROVE Window(d)'
  <2>1. PICK n : n = roster'[d].joined
    BY Zenon
  <2>7. Joined(d) \cup {0} \subseteq 0..Len(log) /\ \A j \in Joined(d) : j <= k
    <3>1. Joined(d) \subseteq 1..Len(log) /\ \A j \in 1..Len(log) : j <= k
      <4>1. Joined(d) \subseteq 1..Len(log)
        BY <1>3, Zenon
      <4>2. \A j \in 1..Len(log) : j <= k
        BY <1>2, <1>3
      <4>3. QED
        BY Zenon, <4>1, <4>2
    <3>2. QED
      BY <1>3, <3>1
  <2>2. CASE d \in b.added
    <3>1. n = k /\ roster'[d].removed = 0
      BY ZenonT(60), <1>6, <2>1, <2>2 DEF RosterMoves
    <3>2. RemovedAfter(d, n)' = {} /\ Joined(d)' = Joined(d) \cup {k}
      BY Zenon, <1>5, <2>2, <3>1
    <3>3. \A j \in Joined(d)' : j <= n
      BY <1>3, <2>7, <3>1, <3>2
    <3>4. QED
      BY Zenon, <2>1, <3>1, <3>2, <3>3 DEF Window
  <2>3. CASE d \in b.removed
    <3>1. n = roster[d].joined /\ roster'[d].removed = k /\ Window(d) /\ roster[d].removed = 0
      BY Zenon, <1>6, <1>8, <2>1, <2>3 DEF RosterMoves, WindowInv
    <3>5. n \in 0..Len(log) /\ RemovedAfter(d, n) = {}
      BY Zenon, <2>7, <3>1 DEF Window
    <3>6. d \notin b.added
      BY Zenon, <1>8, <2>3
    <3>2. n \in 0..Len(log) /\ RemovedAfter(d, n) = {} /\ Joined(d)' = Joined(d)
      BY Zenon, <1>5, <3>5, <3>6
    <3>3. RemovedAfter(d, n)' = {k}
      BY <1>5, <2>3, <3>2
    <3>4. QED
      BY ZenonT(60), <1>3, <2>1, <3>1, <3>2, <3>3 DEF Window
  <2>4. CASE d \notin b.added \cup b.removed /\ ~GroupExists /\ d = b.sender
    <3>1. n = 0 /\ roster'[d].removed = 0 /\ Bundles = {}
      BY Zenon, <1>6, <2>1, <2>4 DEF RosterMoves, WindowInv
    <3>2. Joined(d)' = {} /\ RemovedAfter(d, n) = {}
      BY ZenonT(60), <1>3, <1>5, <2>4, <3>1 DEF RemovedAfter
    <3>3. RemovedAfter(d, n)' = {}
      BY <1>3, <1>5, <2>4, <3>1, <3>2
    <3>4. QED
      BY Zenon, <2>1, <3>1, <3>2, <3>3 DEF Window
  <2>5. CASE d \notin b.added \cup b.removed /\ (GroupExists \/ d # b.sender)
    <3>1. roster'[d] = roster[d] /\ Window(d)
      BY Zenon, <1>6, <1>11, <2>5 DEF RosterMoves, WindowInv
    <3>5. n \in 0..Len(log)
      BY Zenon, <2>1, <2>7, <3>1 DEF Window
    <3>2. n \in 0..Len(log) /\ Joined(d)' = Joined(d)
      BY Zenon, <1>5, <2>5, <3>5
    <3>3. RemovedAfter(d, n)' = RemovedAfter(d, n)
      <4>1. RemovedAfter(d, n)' = RemovedAfter(d, n) \cup {}
        BY Zenon, <1>5, <2>5, <3>2
      <4>2. QED
        BY <4>1, Zenon
    <3>4. QED
      BY Zenon, <2>1, <3>1, <3>2, <3>3 DEF Window
  <2>6. QED
    BY Zenon, <2>2, <2>3, <2>4, <2>5
<1>12. Bundles' # {}
  BY Zenon, <1>4
<1>13. QED
  BY Zenon, <1>7, <1>10, <1>11, <1>12 DEF WindowInv

\* The windows of a group recorded without a commit.
LEMMA FoundWindows ==
    ASSUME TypeOK, LeafInv, WindowInv, EpochInv, NEW b, Sent(b), CreateMLSCommitBundle(b), ~b.commit
    PROVE  WindowInv'
<1>1. ~GroupExists /\ UNCHANGED log /\ b.sender \in Devices /\ b.added = {} /\ b.removed = {}
  BY Zenon, AcceptedSays, BundleStored
<1>2. Bundles = {} /\ Bundles' = {}
  BY Zenon, <1>1, BundlesStay DEF WindowInv
<1>3. GroupExists' /\ RosterMoves(b, Len(log) + 1)
  BY Zenon, BundleEpoch, RosterMoved
<1>4. ASSUME NEW d \in Devices
      PROVE  (roster'[d].row <=> d = b.sender) /\ (roster'[d].row => Window(d)')
  <2>1. ~roster[d].row /\ Joined(d)' = {} /\ \A n : RemovedAfter(d, n)' = {}
    BY Zenon, <1>1, <1>2 DEF LeafInv, Joined, RemovedAfter
  <2>2. d # b.sender => ~roster'[d].row
    BY Zenon, <1>1, <1>3, <2>1 DEF RosterMoves
  <2>3. d = b.sender => roster'[d].row /\ roster'[d].joined = 0 /\ roster'[d].removed = 0
    BY Zenon, <1>1, <1>3 DEF RosterMoves
  <2>4. QED
    BY Zenon, <2>1, <2>2, <2>3 DEF Window
<1>5. QED
  BY Zenon, <1>1, <1>2, <1>3, <1>4 DEF WindowInv

\* The types after a bundle.
LEMMA BundleTypes ==
    ASSUME GroupInv, NEW b, Sent(b), CreateMLSCommitBundle(b)
    PROVE  TypeOK' /\ KeysInv'
<1>1. TypeOK /\ RowsInv /\ LeafInv /\ WindowInv /\ EpochInv /\ KeysInv
  BY Zenon DEF GroupInv
<1>2. UNCHANGED <<members, enrolled, revoked, old, churn>> /\ (recent' = recent \/ recent' = recent \cup {b.sender})
  BY Zenon DEF CreateMLSCommitBundle
<1>3. roster' \in [Devices -> RosterRow] /\ announced' \in [Devices -> Nat]
      /\ revocations' \in [Devices -> Revocation] /\ epoch' \in Nat /\ b.sender \in Devices
  BY Zenon, <1>1, RosterMoved, BundleRows, BundleEpoch, AcceptedSays
<1>4. log' \in Seq(Message) /\ live' \subseteq DOMAIN log' /\ KeysInv'
  <2>1. CASE b.commit
    <3>1. PICK m \in Message : log' = Append(log, m) /\ m.key = b.key
      BY Zenon, <1>1, <2>1, BundleStored
    <3>2. live' = live \cup {Len(log) + 1} /\ log \in Seq(Message) /\ live \subseteq DOMAIN log
      BY Zenon, <1>1, <2>1, BundleStored DEF TypeOK
    <3>3. /\ log' \in Seq(Message) /\ DOMAIN log' = DOMAIN log \cup {Len(log) + 1}
          /\ \A j \in DOMAIN log : log'[j] = log[j]
          /\ log'[Len(log) + 1] = m
      BY Zenon, <3>1, <3>2, Appended
    <3>4. b.key <= Len(log) + 1
      BY Zenon DEF Sent
    <3>5. KeysInv'
      BY Zenon, <1>1, <3>1, <3>3, <3>4 DEF KeysInv
    <3>6. QED
      BY Zenon, <3>2, <3>3, <3>5
  <2>2. CASE ~b.commit
    BY Zenon, <1>1, <2>2, BundleStored DEF TypeOK, KeysInv
  <2>3. QED
    BY Zenon, <2>1, <2>2
<1>5. QED
  BY Zenon, <1>1, <1>2, <1>3, <1>4 DEF TypeOK

\* A key that is sent is at most one more than the messages.
LEMMA KeySent ==
    ASSUME TypeOK, KeysInv, NEW s, NEW key \in RequestKeys(s)
    PROVE  key \in Nat /\ key <= Len(log) + 1
<1>1. log \in Seq(Message)
  BY Zenon DEF TypeOK
<1>2. Len(log) \in Nat /\ DOMAIN log = 1..Len(log) /\ \A k \in DOMAIN log : log[k] \in Message
  BY <1>1
<1>3. \A k \in DOMAIN log : log[k].key \in Nat /\ log[k].key <= k
  BY Zenon, <1>2 DEF KeysInv, Message
<1>4. key = Len(log) + 1 \/ \E k \in DOMAIN log : key = log[k].key
  BY Zenon DEF RequestKeys
<1>5. QED
  BY <1>2, <1>3, <1>4

\* SendBundle sends bundles.
LEMMA BundleSent ==
    ASSUME GroupInv, SendBundle
    PROVE  \E b : Sent(b) /\ CreateMLSCommitBundle(b)
<1>1. PICK s \in {x \in Devices : Rostered /\ Eligible(x)} : \E key \in RequestKeys(s) :
    \E added \in SUBSET (Devices \ {s}) : \E removed \in SUBSET (Devices \ (added \cup {s})) :
    \E d \in removed \cup {NoDevice}, commit \in {TRUE, added \cup removed # {}} :
        /\ commit => MayAppend(d)
        /\ \E e \in 0..BaseEpoch :
              CreateMLSCommitBundle([sender |-> s, key |-> key, epoch |-> e, commit |-> commit,
                                     added |-> added, removed |-> removed, revocation |-> d])
  BY Zenon DEF SendBundle
<1>2. PICK key \in RequestKeys(s) :
    \E added \in SUBSET (Devices \ {s}) : \E removed \in SUBSET (Devices \ (added \cup {s})) :
    \E d \in removed \cup {NoDevice}, commit \in {TRUE, added \cup removed # {}} :
        /\ commit => MayAppend(d)
        /\ \E e \in 0..BaseEpoch :
              CreateMLSCommitBundle([sender |-> s, key |-> key, epoch |-> e, commit |-> commit,
                                     added |-> added, removed |-> removed, revocation |-> d])
  BY Zenon, <1>1
<1>3. PICK added \in SUBSET (Devices \ {s}) : \E removed \in SUBSET (Devices \ (added \cup {s})) :
    \E d \in removed \cup {NoDevice}, commit \in {TRUE, added \cup removed # {}} :
        /\ commit => MayAppend(d)
        /\ \E e \in 0..BaseEpoch :
              CreateMLSCommitBundle([sender |-> s, key |-> key, epoch |-> e, commit |-> commit,
                                     added |-> added, removed |-> removed, revocation |-> d])
  BY Zenon, <1>2
<1>4. PICK removed \in SUBSET (Devices \ (added \cup {s})) :
    \E d \in removed \cup {NoDevice}, commit \in {TRUE, added \cup removed # {}} :
        /\ commit => MayAppend(d)
        /\ \E e \in 0..BaseEpoch :
              CreateMLSCommitBundle([sender |-> s, key |-> key, epoch |-> e, commit |-> commit,
                                     added |-> added, removed |-> removed, revocation |-> d])
  BY Zenon, <1>3
<1>5. PICK d \in removed \cup {NoDevice}, commit \in {TRUE, added \cup removed # {}}, e \in 0..BaseEpoch :
        CreateMLSCommitBundle([sender |-> s, key |-> key, epoch |-> e, commit |-> commit,
                               added |-> added, removed |-> removed, revocation |-> d])
  BY <1>4, Zenon
<1>6. PICK b : b = [sender |-> s, key |-> key, epoch |-> e, commit |-> commit,
                    added |-> added, removed |-> removed, revocation |-> d]
  BY Zenon
<1>7. CreateMLSCommitBundle(b)
  BY <1>5, <1>6, Zenon
<1>8. key \in Nat /\ key <= Len(log) + 1
  BY Zenon, KeySent DEF GroupInv
<1>9. commit \in BOOLEAN /\ e \in Nat /\ d \in Nat /\ added \in SUBSET Devices /\ removed \in SUBSET Devices
  <2>1. BaseEpoch \in Nat
    BY Zenon DEF GroupInv, TypeOK, BaseEpoch, GroupExists, NoGroup
  <2>2. commit \in BOOLEAN
    BY Zenon
  <2>3. QED
    BY <2>1, <2>2, MlsGroupConstants DEF NoDevice
<1>10. b \in Bundle
  BY Zenon, <1>6, <1>8, <1>9 DEF Bundle
<1>11. b.sender = s /\ b.key = key /\ b.added = added /\ b.removed = removed
  BY <1>6, Zenon
<1>12. b.added \cap b.removed = {} /\ b.sender \notin b.added
  BY Zenon, <1>11
<1>13. BundleAccepted(b)
  BY Zenon, <1>7 DEF CreateMLSCommitBundle
<1>14. Sent(b)
  BY ZenonT(60), <1>8, <1>10, <1>11, <1>12, <1>13 DEF Sent
<1>15. QED
  BY Zenon, <1>7, <1>14

\* A bundle preserves the invariant.
LEMMA BundleInv ==
    ASSUME GroupInv, SendBundle
    PROVE  GroupInv'
<1>1. TypeOK /\ RowsInv /\ LeafInv /\ WindowInv /\ EpochInv /\ KeysInv
  BY Zenon DEF GroupInv
<1>2. PICK b : Sent(b) /\ CreateMLSCommitBundle(b)
  BY Zenon, BundleSent
<1>3. RowsInv' /\ LeafInv' /\ EpochInv' /\ TypeOK' /\ KeysInv'
  BY ZenonT(60), <1>1, <1>2, BundleRows, BundleLeaves, BundleEpoch, BundleTypes
<1>4. WindowInv'
  <2>1. b.commit \in BOOLEAN
    BY Zenon, <1>2, AcceptedSays
  <2>2. QED
    BY Zenon, <1>1, <1>2, <2>1, CommitWindows, FoundWindows
<1>5. QED
  BY Zenon, <1>3, <1>4 DEF GroupInv

-----------------------------------------------------------------------------
(* The other actions.                                                      *)

\* The leaves stay as they are when no row starts or stops to be pending.
LEMMA LeavesStay ==
    ASSUME LeafInv, UNCHANGED <<roster, epoch, revoked>>,
           \A d \in Devices :
               /\ Pending(d)' <=> Pending(d)
               /\ revocations'[d].state \in {"commit_submitted", "completed"} =>
                     revocations[d].state \in {"commit_submitted", "completed"}
    PROVE  LeafInv'
<1>1. (GroupExists' <=> GroupExists) /\ \A d \in Devices : Active(d)' <=> Active(d)
  BY Zenon DEF GroupExists, Active
<1>2. QED
  BY Zenon, <1>1 DEF LeafInv

\* A message outside a bundle, in a group without a roster.
LEMMA MessageSent ==
    ASSUME TypeOK, KeysInv, SendMessage
    PROVE  \E s, d : \E m \in Message :
               LET rows == [x \in Devices |-> IF x = d THEN CommitSubmitted(revocations[x], s, Len(log) + 1)
                                              ELSE revocations[x]]
               IN /\ ~GroupExists /\ m.kind # "bundle" /\ m.key <= Len(log) + 1
                  /\ d \in Devices => Pending(d)
                  /\ log' = Append(log, m) /\ live' = live \cup {Len(log) + 1}
                  /\ revocations' = rows /\ announced' = Announce(rows)
                  /\ UNCHANGED <<members, enrolled, revoked, epoch, roster, old, recent, churn>>
<1>1. PICK s \in {x \in Devices : Legacy /\ Eligible(x)} : \E key \in RequestKeys(s) :
           \E d \in {x \in Devices \cup {NoDevice} : MayAppend(x)},
              to \in Devices \cup {NoDevice}, kind \in {"commit", "welcome"} :
               CreateMLSMessage(s, kind, to, d, key)
  BY Zenon DEF SendMessage
<1>2. PICK key \in RequestKeys(s), d \in Devices \cup {NoDevice}, to \in Devices \cup {NoDevice},
           kind \in {"commit", "welcome"} :
          CreateMLSMessage(s, kind, to, d, key)
  BY Zenon, <1>1
<1> DEFINE rows == [x \in Devices |-> IF x = d THEN CommitSubmitted(revocations[x], s, Len(log) + 1)
                                      ELSE revocations[x]]
           m == [kind |-> kind, sender |-> s, to |-> to, key |-> key,
                 base |-> 0, added |-> {}, removed |-> {}, revocation |-> d]
<1>3. /\ ~GroupExists /\ log' = Append(log, m) /\ live' = live \cup {Len(log) + 1}
      /\ revocations' = rows /\ announced' = Announce(rows)
      /\ d # NoDevice => Pending(d)
      /\ UNCHANGED <<members, enrolled, revoked, epoch, roster, old, recent, churn>>
  BY Zenon, <1>2 DEF CreateMLSMessage, CommitAllowed
<1>4. key \in Nat /\ key <= Len(log) + 1
  BY Zenon, <1>2, KeySent
<1>5. m \in Message
  BY <1>2, <1>4, MlsGroupConstants DEF Message, NoDevice
<1>6. m.kind # "bundle" /\ m.key = key
  BY Zenon, <1>2
<1>7. d \in Devices => Pending(d)
  BY Zenon, <1>3, MlsGroupConstants DEF NoDevice
<1> HIDE DEF m, rows
<1>8. m.key <= Len(log) + 1
  BY Zenon, <1>4, <1>6
<1>10. QED
  BY ZenonT(60), <1>3, <1>5, <1>6, <1>7, <1>8 DEF rows

\* CreateMLSMessage preserves the invariant.
LEMMA MessageInv ==
    ASSUME GroupInv, SendMessage
    PROVE  GroupInv'
<1>1. TypeOK /\ RowsInv /\ LeafInv /\ WindowInv /\ EpochInv /\ KeysInv
  BY Zenon DEF GroupInv
<1>2. PICK s, d : \E m \in Message :
          LET rows == [x \in Devices |-> IF x = d THEN CommitSubmitted(revocations[x], s, Len(log) + 1)
                                         ELSE revocations[x]]
          IN /\ ~GroupExists /\ m.kind # "bundle" /\ m.key <= Len(log) + 1
             /\ d \in Devices => Pending(d)
             /\ log' = Append(log, m) /\ live' = live \cup {Len(log) + 1}
             /\ revocations' = rows /\ announced' = Announce(rows)
             /\ UNCHANGED <<members, enrolled, revoked, epoch, roster, old, recent, churn>>
  BY <1>1, MessageSent, Zenon
<1> DEFINE k == Len(log) + 1
           sub(x) == CommitSubmitted(revocations[x], s, k)
           rows == [x \in Devices |-> IF x = d THEN sub(x) ELSE revocations[x]]
<1>6. PICK n \in Message :
          /\ ~GroupExists /\ n.kind # "bundle" /\ n.key <= k
          /\ d \in Devices => Pending(d)
          /\ log' = Append(log, n) /\ live' = live \cup {k}
          /\ revocations' = rows /\ announced' = Announce(rows)
          /\ UNCHANGED <<members, enrolled, revoked, epoch, roster, old, recent, churn>>
  BY Zenon, <1>2
<1>3. /\ ~GroupExists /\ log' = Append(log, n) /\ live' = live \cup {k}
      /\ revocations' = rows /\ announced' = Announce(rows)
      /\ d \in Devices => Pending(d)
      /\ UNCHANGED <<members, enrolled, revoked, epoch, roster, old, recent, churn>>
  BY Zenon, <1>6
<1>4. log \in Seq(Message) /\ live \subseteq DOMAIN log /\ k \in Nat /\ revocations \in [Devices -> Revocation]
  BY <1>1 DEF TypeOK
<1>5. n.key <= k /\ n.kind # "bundle"
  BY Zenon, <1>6
<1>10. /\ log' \in Seq(Message) /\ DOMAIN log' = DOMAIN log \cup {k} /\ log'[k] = n
       /\ \A j \in DOMAIN log : log'[j] = log[j]
  BY Zenon, <1>3, <1>4, Appended
<1>11. WindowInv' /\ EpochInv'
  BY ZenonT(60), <1>1, <1>3, <1>4, <1>5, BundlesStay, WindowsStay
<1>12. KeysInv'
  BY Zenon, <1>1, <1>5, <1>10 DEF KeysInv
<1>13. ASSUME NEW x \in Devices
       PROVE  /\ sub(x) \in Revocation /\ sub(x).state \in {"commit_submitted", "completed"}
              /\ sub(x).state = "completed" => sub(x).required \subseteq sub(x).confirmed
  BY Zenon, <1>4, SubmittedRow
<1> HIDE DEF sub
<1>14. /\ rows \in [Devices -> Revocation] /\ revocations' = rows
       /\ \A x \in Devices : rows[x] = IF x = d THEN sub(x) ELSE revocations[x]
  BY Zenon, <1>3, <1>4, <1>13
<1> HIDE DEF rows
<1>15. ASSUME NEW x \in Devices
       PROVE  /\ rows[x].state = "completed" => rows[x].required \subseteq rows[x].confirmed
              /\ revocations[x].state = "completed" => rows[x].state = "completed"
              /\ rows[x].state # "none" => x \in revoked'
  <2>1. CASE x = d
    <3>1. Pending(x)
      BY Zenon, <1>3, <2>1
    <3>2. QED
      BY ZenonT(60), <1>1, <1>3, <1>13, <1>14, <2>1, <3>1 DEF RowsInv, Pending
  <2>2. CASE x # d
    BY Zenon, <1>1, <1>3, <1>14, <2>2 DEF RowsInv
  <2>3. QED
    BY Zenon, <2>1, <2>2
<1>16. RowsInv' /\ announced' \in [Devices -> Nat]
  BY ZenonT(60), <1>1, <1>3, <1>14, <1>15, RowsStep
<1>17. LeafInv'
  BY Zenon, <1>1, <1>3 DEF LeafInv, GroupExists
<1>18. TypeOK'
  BY ZenonT(60), <1>1, <1>3, <1>4, <1>10, <1>14, <1>16 DEF TypeOK
<1>19. QED
  BY ZenonT(60), <1>11, <1>12, <1>16, <1>17, <1>18 DEF GroupInv

\* ConfirmMLSRevocation.
LEMMA ConfirmInv ==
    ASSUME GroupInv, NEW d \in Devices, NEW x \in Devices, ConfirmMLSRevocation(d, x)
    PROVE  GroupInv'
<1>1. TypeOK /\ RowsInv /\ LeafInv /\ WindowInv /\ EpochInv /\ KeysInv /\ revocations \in [Devices -> Revocation]
  BY Zenon DEF GroupInv, TypeOK
<1> DEFINE q == [revocations[d] EXCEPT !.confirmed = @ \cup {x}]
           r == Completed(q)
           rows == [revocations EXCEPT ![d] = r]
<1>2. /\ revocations[d].state = "commit_submitted" /\ revocations' = rows /\ announced' = Announce(rows)
      /\ UNCHANGED <<members, enrolled, revoked, epoch, roster, log, live, old, recent, churn>>
  <2>1. /\ revocations[d].state = "commit_submitted"
        /\ UNCHANGED <<members, enrolled, revoked, epoch, roster, log, live, old, recent, churn>>
    BY Zenon DEF ConfirmMLSRevocation
  <2>2. revocations' = rows /\ announced' = Announce(rows)
    BY Zenon DEF ConfirmMLSRevocation
  <2>3. QED
    BY Zenon, <2>1, <2>2
<1>3. q \in Revocation /\ q.state = "commit_submitted"
  BY Zenon, <1>1, <1>2, ConfirmedRow
<1> HIDE DEF q
<1>4. /\ r \in Revocation /\ r.state \in {"commit_submitted", "completed"}
      /\ r.state = "completed" => r.required \subseteq r.confirmed
  BY Zenon, <1>3, CompletedRow
<1> HIDE DEF r
<1>5. /\ rows \in [Devices -> Revocation] /\ revocations' = rows
      /\ \A y \in Devices : rows[y] = IF y = d THEN r ELSE revocations[y]
  BY Zenon, <1>1, <1>2, <1>4
<1> HIDE DEF rows
<1>6. ASSUME NEW y \in Devices
      PROVE  /\ rows[y].state = "completed" => rows[y].required \subseteq rows[y].confirmed
             /\ revocations[y].state = "completed" => rows[y].state = "completed"
             /\ rows[y].state # "none" => y \in revoked'
  BY Zenon, <1>1, <1>2, <1>4, <1>5 DEF RowsInv
<1>7. RowsInv' /\ announced' \in [Devices -> Nat]
  BY Zenon, <1>1, <1>2, <1>5, <1>6, RowsStep
<1>8. ASSUME NEW y \in Devices
      PROVE  /\ Pending(y)' <=> Pending(y)
             /\ revocations'[y].state \in {"commit_submitted", "completed"} =>
                   revocations[y].state \in {"commit_submitted", "completed"}
  BY Zenon, <1>2, <1>4, <1>5 DEF Pending
<1>9. LeafInv'
  BY Zenon, <1>1, <1>2, <1>8, LeavesStay
<1>10. WindowInv' /\ EpochInv' /\ KeysInv'
  BY Zenon, <1>1, <1>2, BundlesStay, WindowsStay DEF KeysInv
<1>11. TypeOK'
  BY Zenon, <1>1, <1>2, <1>5, <1>7 DEF TypeOK
<1>12. QED
  BY Zenon, <1>7, <1>9, <1>10, <1>11 DEF GroupInv

\* Revoking devices together (RevokeDevice, DeleteAccountData).
LEMMA RevokeAllInv ==
    ASSUME GroupInv, NEW ds, ds \subseteq Devices,
           revoked' = revoked \cup ds, revocations' = RevokeAll(ds), announced' = Announce(RevokeAll(ds)),
           members' \subseteq members, UNCHANGED <<enrolled, epoch, roster, log, live, old, recent, churn>>
    PROVE  GroupInv'
<1>1. TypeOK /\ RowsInv /\ LeafInv /\ WindowInv /\ EpochInv /\ KeysInv /\ revocations \in [Devices -> Revocation]
  BY Zenon DEF GroupInv, TypeOK
<1> DEFINE gone == revoked \cup ds
           q(d) == IF d \in ds THEN QueueRevocation(gone, d, revocations[d]) ELSE revocations[d]
           r(d) == ReleaseConfirmations(ds, q(d))
           rows == RevokeAll(ds)
<1>2. ASSUME NEW d \in Devices
      PROVE  /\ q(d) \in Revocation
             /\ revocations[d].state # "none" => q(d) = revocations[d]
             /\ revocations[d].state = "none" =>
                   q(d).state = IF d \in ds /\ Remaining(gone, d) # {} THEN "pending" ELSE "none"
  BY Zenon, <1>1, QueuedRow
<1>3. rows = [d \in Devices |-> r(d)]
  BY Zenon DEF RevokeAll
<1> HIDE DEF q
<1>4. ASSUME NEW d \in Devices
      PROVE  /\ r(d) \in Revocation
             /\ q(d).state # "commit_submitted" => r(d).state = q(d).state
             /\ q(d).state = "commit_submitted" => r(d).state \in {"commit_submitted", "completed"}
             /\ (q(d).state = "completed" => q(d).required \subseteq q(d).confirmed) =>
                   (r(d).state = "completed" => r(d).required \subseteq r(d).confirmed)
  BY Zenon, <1>2, ReleasedRow
<1> HIDE DEF r, rows
<1>5. /\ rows \in [Devices -> Revocation] /\ revocations' = rows /\ announced' = Announce(rows)
      /\ \A d \in Devices : rows[d] = r(d)
  BY Zenon, <1>3, <1>4 DEF rows
<1>6. ASSUME NEW d \in Devices
      PROVE  /\ rows[d].state = "completed" => rows[d].required \subseteq rows[d].confirmed
             /\ revocations[d].state = "completed" => rows[d].state = "completed"
             /\ rows[d].state # "none" => d \in revoked'
  <2>1. q(d).state = "completed" => q(d).required \subseteq q(d).confirmed
    BY Zenon, <1>1, <1>2 DEF RowsInv
  <2>2. rows[d].state # "none" => revocations[d].state # "none" \/ d \in ds
    BY Zenon, <1>2, <1>4, <1>5
  <2>3. QED
    BY Zenon, <1>1, <1>2, <1>4, <1>5, <2>1, <2>2 DEF RowsInv
<1>7. RowsInv' /\ announced' \in [Devices -> Nat]
  BY Zenon, <1>1, <1>5, <1>6, RowsStep
<1>8. (GroupExists' <=> GroupExists) /\ \A d \in Devices : Active(d)' <=> Active(d)
  BY Zenon DEF GroupExists, Active
<1>9. ASSUME GroupExists, NEW d \in Devices
      PROVE  /\ Pending(d)' => Active(d)
             /\ revocations'[d].state \in {"commit_submitted", "completed"} => ~Active(d)
             /\ Active(d) /\ d \in revoked' /\ (\E x \in Devices : Active(x) /\ x \notin revoked') => Pending(d)'
  <2>1. Pending(d)' <=> r(d).state = "pending"
    BY Zenon, <1>5 DEF Pending
  <2>2. Remaining(gone, d) = IF Active(d) THEN {x \in Devices : Active(x) /\ x # d /\ x \notin gone} ELSE {}
    BY Zenon, <1>9 DEF Remaining
  <2>3. CASE revocations[d].state = "none"
    <3>1. r(d).state = IF d \in ds /\ Remaining(gone, d) # {} THEN "pending" ELSE "none"
      BY Zenon, <1>2, <1>4, <2>3
    <3>2. ASSUME Active(d), d \in revoked', NEW x \in Devices, Active(x), x \notin revoked' PROVE Pending(d)'
      <4>1. d \in ds
        BY Zenon, <1>1, <1>9, <2>3, <3>2 DEF LeafInv, Pending
      <4>2. x \in Remaining(gone, d)
        BY Zenon, <2>2, <3>2
      <4>3. QED
        BY Zenon, <2>1, <3>1, <4>1, <4>2
    <3>3. QED
      BY Zenon, <1>5, <2>1, <2>2, <3>1, <3>2
  <2>4. CASE revocations[d].state # "none"
    <3>1. q(d) = revocations[d]
      BY Zenon, <1>2, <2>4
    <3>2. Pending(d)' <=> Pending(d)
      BY Zenon, <1>4, <2>1, <3>1 DEF Pending
    <3>3. revocations'[d].state \in {"commit_submitted", "completed"} => ~Active(d)
      BY Zenon, <1>1, <1>4, <1>5, <1>9, <3>1 DEF LeafInv
    <3>4. ASSUME Active(d) PROVE Pending(d)
      <4>1. revocations[d].state \in RevocationStates
        BY Zenon, <1>1, FieldsOfRow
      <4>2. QED
        BY Zenon, <1>1, <1>9, <2>4, <3>4, <4>1 DEF LeafInv, Pending, RevocationStates
    <3>5. QED
      BY Zenon, <1>1, <1>9, <3>2, <3>3, <3>4 DEF LeafInv
  <2>5. QED
    BY Zenon, <2>3, <2>4
<1>10. LeafInv'
  BY Zenon, <1>1, <1>8, <1>9 DEF LeafInv
<1>11. WindowInv' /\ EpochInv' /\ KeysInv'
  BY Zenon, <1>1, BundlesStay, WindowsStay DEF KeysInv
<1>12. TypeOK'
  BY Zenon, <1>1, <1>5, <1>7 DEF TypeOK
<1>13. QED
  BY Zenon, <1>7, <1>10, <1>11, <1>12 DEF GroupInv

\* Membership, new devices, the self-update interval, age and retention leave
\* the group's rows alone.
LEMMA QuietInv ==
    ASSUME GroupInv, UNCHANGED <<revoked, epoch, roster, log, revocations, announced>>,
           members' \subseteq Accounts, enrolled' \in [Devices -> Nat \cup {Never}],
           live' \subseteq live, old' \in Nat, recent' \subseteq Devices, churn' \in Nat
    PROVE  GroupInv'
<1>1. TypeOK /\ RowsInv /\ LeafInv /\ WindowInv /\ EpochInv /\ KeysInv
  BY Zenon DEF GroupInv
<1>2. TypeOK'
  BY Zenon, <1>1 DEF TypeOK
<1>3. RowsInv' /\ KeysInv'
  BY Zenon, <1>1 DEF RowsInv, KeysInv
<1>4. LeafInv'
  BY Zenon, <1>1, LeavesStay DEF Pending
<1>5. WindowInv' /\ EpochInv'
  BY Zenon, <1>1, BundlesStay, WindowsStay
<1>6. QED
  BY Zenon, <1>2, <1>3, <1>4, <1>5 DEF GroupInv

\* It holds initially.
LEMMA GroupInitInv == Init => GroupInv
<1> SUFFICES ASSUME Init PROVE GroupInv
  BY Zenon
<1>1. /\ NoRow \in RosterRow /\ ~NoRow.row
      /\ NoRevocation \in Revocation /\ NoRevocation.state = "none"
  BY Zenon DEF NoRow, RosterRow, NoRevocation, Revocation, RevocationStates, NoDevice
<1>2. TypeOK
  <2>1. log \in Seq(Message) /\ live \subseteq DOMAIN log
    BY DEF Init
  <2>2. enrolled \in [Devices -> Nat \cup {Never}]
    BY Zenon DEF Init
  <2>3. QED
    BY ZenonT(60), <1>1, <2>1, <2>2, MlsGroupConstants DEF TypeOK, Init, NoGroup
<1>3. ~GroupExists /\ DOMAIN log = {} /\ Bundles = {}
  BY DEF Init, GroupExists, NoGroup, Bundles
<1>4. RowsInv /\ KeysInv /\ EpochInv
  BY Zenon, <1>1, <1>3 DEF RowsInv, KeysInv, EpochInv, Init
<1>5. \A d \in Devices : ~roster[d].row
  BY Zenon, <1>1 DEF Init
<1>6. LeafInv /\ WindowInv
  BY Zenon, <1>3, <1>5 DEF LeafInv, WindowInv
<1>7. QED
  BY Zenon, <1>2, <1>4, <1>6 DEF GroupInv

\* Every step preserves it.
LEMMA GroupStepInv == GroupInv /\ [Next]_vars => GroupInv'
<1> SUFFICES ASSUME GroupInv, [Next]_vars PROVE GroupInv'
  BY Zenon
<1>1. TypeOK
  BY Zenon DEF GroupInv
<1>2. ASSUME NEW d \in Devices, RevokeDevice(d) PROVE GroupInv'
  BY <1>2, RevokeAllInv DEF RevokeDevice
<1>3. ASSUME NEW a \in Accounts, DeleteAccount(a) PROVE GroupInv'
  BY <1>3, RevokeAllInv DEF DeleteAccount
<1>4. ASSUME NEW a \in Accounts, Join(a) \/ Leave(a) PROVE GroupInv'
  BY <1>1, <1>4, QuietInv DEF Join, Leave, TypeOK
<1>5. ASSUME NEW d \in Devices, Enroll(d) \/ IntervalEnds(d) PROVE GroupInv'
  <2>1. CASE Enroll(d)
    <3>1. enrolled' \in [Devices -> Nat \cup {Never}]
      BY <1>1, <2>1 DEF Enroll, TypeOK
    <3>2. QED
      BY ZenonT(60), <1>1, <2>1, <3>1, QuietInv DEF Enroll, TypeOK
  <2>2. CASE IntervalEnds(d)
    BY ZenonT(60), <1>1, <2>2, QuietInv DEF IntervalEnds, TypeOK
  <2>3. QED
    BY ZenonT(60), <1>5, <2>1, <2>2
<1>6. ASSUME Age \/ PruneSyncEvents PROVE GroupInv'
  BY <1>1, <1>6, QuietInv DEF Age, PruneSyncEvents, TypeOK
<1>7. ASSUME UNCHANGED vars PROVE GroupInv'
  BY Zenon, <1>1, <1>7, QuietInv DEF vars, TypeOK
<1>8. QED
  BY SMTT(60), <1>2, <1>3, <1>4, <1>5, <1>6, <1>7, BundleInv, MessageInv, ConfirmInv DEF Next

\* It is always so.
LEMMA AlwaysGroupInv == Spec => []GroupInv
BY GroupInitInv, GroupStepInv, PTL DEF Spec

-----------------------------------------------------------------------------

\* The types (the tables of mls_group_store.go and mls_revocation_store.go).
THEOREM GroupTypeCorrect == Spec => []TypeOK
<1>1. GroupInv => TypeOK
  BY Zenon DEF GroupInv
<1>2. QED
  BY AlwaysGroupInv, <1>1, PTL

\* A completed revocation is announced once, confirmed and without a leaf
\* (completeMLSRevocationIfConfirmed), for any devices and accounts.
THEOREM CompletedAreRemoved == Spec => []CompletedMeansRemoved
<1>1. GroupInv => CompletedMeansRemoved
  BY Zenon DEF GroupInv, RowsInv, LeafInv, CompletedMeansRemoved
<1>2. QED
  BY AlwaysGroupInv, <1>1, PTL

\* The pending revocations of a rostered group are its revoked leaves
\* (queueMLSRevocations, dropStaleMLSRevocations, CreateMLSCommitBundle).
THEOREM RevocationsMatch == Spec => []RevocationsMatchLeaves
<1>1. GroupInv => RevocationsMatchLeaves
  BY Zenon DEF GroupInv, RowsInv, LeafInv, RevocationsMatchLeaves, Pending
<1>2. QED
  BY AlwaysGroupInv, <1>1, PTL

\* What ListMLSPendingChangesRead lists, CreateMLSCommitBundle accepts.
THEOREM ChangesAreAccepted == Spec => []PendingChangesAreAccepted
<1>1. ASSUME GroupInv PROVE PendingChangesAreAccepted
  <2> SUFFICES ASSUME GroupExists, PendingAdd \cup PendingRemove # {},
                      NEW x \in Devices, Eligible(x), Active(x)
               PROVE  BundleAccepted(ReconcileBundle(x))
    BY Zenon DEF PendingChangesAreAccepted
  <2>1. PICK b : b = ReconcileBundle(x)
    BY Zenon
  <2>2. /\ b.sender = x /\ b.key = Len(log) + 1 /\ b.epoch = epoch /\ b.commit = TRUE
        /\ b.added = PendingAdd /\ b.removed = PendingRemove /\ b.revocation = NoDevice
    BY <2>1, Zenon DEF ReconcileBundle
  <2>3. ValidBundle(b)
    BY Zenon, <2>2 DEF ValidBundle, PendingRemove, Eligible
  <2>4. ~KeyUsed(b.sender, b.key)
    <3>1. log \in Seq(Message) /\ live \subseteq DOMAIN log /\ KeysInv
      BY Zenon, <1>1 DEF GroupInv, TypeOK
    <3>2. Len(log) \in Nat /\ DOMAIN log = 1..Len(log) /\ \A k \in DOMAIN log : log[k] \in Message
      BY <3>1
    <3>3. \A k \in DOMAIN log : log[k].key \in Nat /\ log[k].key <= k /\ k <= Len(log) /\ k \in Nat
      BY <3>1, <3>2 DEF KeysInv, Message
    <3>4. \A k \in live : log[k].key # Len(log) + 1
      BY <3>1, <3>2, <3>3
    <3>5. QED
      BY Zenon, <2>2, <3>4 DEF KeyUsed
  <2>5. CommitAccepted(b)
    <3>1. ~UpdateOnly(b)
      BY Zenon, <2>2 DEF UpdateOnly
    <3>2. \A d \in b.added : Eligible(d) /\ ~Active(d) /\ d # b.sender
      BY Zenon, <2>2 DEF PendingAdd
    <3>3. \A d \in b.removed : Active(d) /\ Removable(d) /\ ~Pending(d)
      BY Zenon, <1>1, <2>2 DEF PendingRemove, Removable, GroupInv, RowsInv, Pending
    <3>4. QED
      BY <2>2, <3>1, <3>2, <3>3, Zenon DEF CommitAccepted
  <2>6. BundleAccepted(b)
    BY <2>2, <2>3, <2>4, <2>5 DEF BundleAccepted
  <2>7. QED
    BY Zenon, <2>1, <2>6
<1>2. QED
  BY AlwaysGroupInv, <1>1, PTL

\* The roster windows are the bundles' effect (CreateMLSCommitBundle,
\* mlsJoinFilterMessage), for histories of any length.
THEOREM WindowsMatch == Spec => []WindowsMatchCommits
<1>1. ASSUME GroupInv PROVE WindowsMatchCommits
  <2> SUFFICES ASSUME NEW d \in Devices, NEW k \in Bundles
               PROVE  Visible(d, k) <=> /\ Joined(d) # {} \/ d = log[Min(Bundles)].sender
                                        /\ k > LastJoin(d)
                                        /\ \A j \in RemovedSince(d) : k <= j
    BY Zenon DEF WindowsMatchCommits
  <2>1. TypeOK /\ WindowInv
    BY Zenon, <1>1 DEF GroupInv
  <2>2. Bundles \subseteq 1..Len(log) /\ Len(log) \in Nat /\ Joined(d) \subseteq Bundles
    BY Zenon, <2>1, BundlePositions DEF TypeOK
  <2>3. First(Min(Bundles))
    <3>1. Bundles \subseteq Nat /\ Bundles # {}
      BY <2>2
    <3>2. \E u \in Bundles : \A v \in Bundles : u <= v
      BY <3>1, LeastElement, Zenon
    <3>3. QED
      BY <3>2, Zenon DEF First, Min
  <2>4. GroupExists /\ (roster[d].row <=> Joined(d) # {} \/ d = log[Min(Bundles)].sender)
    BY Zenon, <2>1, <2>3 DEF WindowInv, First
  <2>5. CASE ~roster[d].row
    BY Zenon, <2>4, <2>5 DEF Visible
  <2>6. CASE roster[d].row
    <3>1. Window(d)
      BY Zenon, <2>1, <2>6 DEF WindowInv
    <3>2. LastJoin(d) = roster[d].joined
      <4>1. Joined(d) \cup {0} \subseteq 0..Len(log)
        <5>1. Joined(d) \subseteq 1..Len(log)
          BY <2>2, Zenon
        <5>2. QED
          BY <2>2, <5>1
      <4>2. PICK u : u = LastJoin(d)
        BY Zenon
      <4>3. u \in Joined(d) \cup {0} /\ \A y \in Joined(d) \cup {0} : y <= u
        <5>1. Joined(d) \cup {0} # {}
          BY Zenon
        <5>2. QED
          BY <2>2, <4>1, <4>2, <5>1, MaxIsGreatest, ZenonT(60) DEF LastJoin
      <4>4. PICK v : v = roster[d].joined
        BY Zenon
      <4>5. v \in Joined(d) \cup {0} /\ \A j \in Joined(d) : j <= v
        BY Zenon, <3>1, <4>4 DEF Window
      <4>6. u \in Nat /\ v \in Nat /\ v <= u /\ u <= v
        BY <4>1, <4>3, <4>5
      <4>7. QED
        BY <4>2, <4>4, <4>6
    <3>3. RemovedSince(d) = IF roster[d].removed = 0 THEN {} ELSE {roster[d].removed}
      BY Zenon, <3>1, <3>2 DEF Window, RemovedSince, RemovedAfter
    <3>4. Visible(d, k) <=> k > roster[d].joined /\ (roster[d].removed = 0 \/ k <= roster[d].removed)
      BY Zenon, <2>4, <2>6 DEF Visible
    <3>5. (\A j \in RemovedSince(d) : k <= j) <=> (roster[d].removed = 0 \/ k <= roster[d].removed)
      BY Zenon, <3>3
    <3>6. QED
      BY <2>4, <2>6, <3>2, <3>4, <3>5
  <2>7. QED
    BY Zenon, <2>5, <2>6
<1>2. QED
  BY AlwaysGroupInv, <1>1, PTL

-----------------------------------------------------------------------------
(* The server implements MlsOrder.                                         *)

\* A step that stores no bundle and leaves the roster alone is a stutter.
LEMMA OrderStutters ==
    ASSUME UNCHANGED roster, Bundles' = Bundles, \A k \in Bundles : log'[k] = log[k]
    PROVE  UNCHANGED <<History, Leaves>>
<1>1. Leaves' = Leaves
  BY Zenon DEF Leaves, Active
<1>2. History' = History
  BY Zenon DEF History
<1>3. QED
  BY Zenon, <1>1, <1>2

\* The devices in the group after a bundle.
LEMMA LeavesMove ==
    ASSUME TypeOK, LeafInv, NEW b, Sent(b), CreateMLSCommitBundle(b)
    PROVE  /\ GroupExists => Leaves' = (Leaves \ b.removed) \cup b.added
           /\ ~GroupExists => Leaves = {} /\ Leaves' = {b.sender} \cup b.added
<1>1. RosterMoves(b, Len(log) + 1) /\ Len(log) + 1 \in Nat /\ Len(log) + 1 # 0
  BY RosterMoved DEF TypeOK
<1>2. /\ b.sender \in Devices /\ b.added \subseteq Devices /\ (~GroupExists => b.removed = {})
      /\ \A d \in b.added : d \notin b.removed
  BY Zenon, AcceptedSays DEF Sent
<1>3. ASSUME NEW d \in Devices
      PROVE  /\ GroupExists => (Active(d)' <=> (Active(d) /\ d \notin b.removed) \/ d \in b.added)
             /\ ~GroupExists => ~Active(d) /\ (Active(d)' <=> d = b.sender \/ d \in b.added)
  <2>1. ~GroupExists => ~Active(d)
    BY Zenon DEF LeafInv, Active
  <2>2. QED
    BY <1>1, <1>2, <2>1 DEF RosterMoves, Active
<1>4. QED
  BY Zenon, <1>2, <1>3 DEF Leaves

\* The history after a bundle.
LEMMA HistoryMoves ==
    ASSUME TypeOK, NEW b, Sent(b), CreateMLSCommitBundle(b), b.commit
    PROVE  LET c == [sender |-> b.sender, base |-> b.epoch, added |-> b.added, removed |-> b.removed]
           IN  \E k : /\ k \in DOMAIN History' \ DOMAIN History
                      /\ History'[k] = c /\ \A j \in DOMAIN History : j < k
                      /\ History' = [j \in DOMAIN History \cup {k} |-> IF j = k THEN c ELSE History[j]]
<1> DEFINE c == [sender |-> b.sender, base |-> b.epoch, added |-> b.added, removed |-> b.removed]
<1>1. PICK m \in Message : /\ log' = Append(log, m) /\ m.kind = "bundle"
                           /\ m.sender = b.sender /\ m.base = b.epoch /\ m.added = b.added /\ m.removed = b.removed
  BY Zenon, BundleStored
<1>2. PICK k : k = Len(log) + 1
  BY Zenon
<1>3. Bundles \subseteq 1..Len(log) /\ Len(log) \in Nat /\ log \in Seq(Message)
  BY Zenon, BundlePositions DEF TypeOK
<1>4. Bundles' = Bundles \cup {k} /\ log'[k] = m /\ \A j \in Bundles : log'[j] = log[j]
  BY SMTT(60), <1>1, <1>2, <1>3, Appended, BundleAppended DEF Bundles
<1>5. k \notin Bundles /\ \A j \in Bundles : j < k
  BY <1>2, <1>3
<1>6. [sender |-> log'[k].sender, base |-> log'[k].base, added |-> log'[k].added, removed |-> log'[k].removed] = c
  BY Zenon, <1>1, <1>4
<1>7. DOMAIN History = Bundles
  BY Zenon DEF History
<1>8. History' = [j \in Bundles \cup {k} |-> IF j = k THEN c ELSE History[j]]
  <2>1. History' = [j \in Bundles' |-> [sender |-> log'[j].sender, base |-> log'[j].base,
                                        added |-> log'[j].added, removed |-> log'[j].removed]]
    BY Zenon DEF History
  <2>2. \A j \in Bundles : History[j] = [sender |-> log[j].sender, base |-> log[j].base,
                                         added |-> log[j].added, removed |-> log[j].removed]
    BY Zenon DEF History
  <2>3. QED
    BY ZenonT(60), <1>4, <1>5, <1>6, <2>1, <2>2
<1> HIDE DEF c
<1>9. History'[k] = c /\ DOMAIN History' = Bundles \cup {k}
  BY Zenon, <1>8
<1>10. QED
  BY Zenon, <1>5, <1>7, <1>8, <1>9 DEF c

\* Every step of the group is one of MlsOrder, or none.
LEMMA OrderSteps ==
    ASSUME GroupInv, [Next]_vars
    PROVE  [Order!Next]_<<History, Leaves>>
<1>1. TypeOK /\ RowsInv /\ LeafInv /\ WindowInv /\ EpochInv
  BY Zenon DEF GroupInv
<1>2. CASE SendBundle
  <2>1. PICK b : Sent(b) /\ CreateMLSCommitBundle(b)
    BY Zenon, <1>2, BundleSent
  <2>2. /\ b.sender \in Devices /\ b.commit \in BOOLEAN /\ b.sender \notin b.removed /\ b.sender \notin b.added
        /\ b.added \in SUBSET Devices /\ b.removed \in SUBSET Devices /\ b.epoch \in Nat
        /\ GroupExists => b.commit /\ b.epoch = epoch /\ b.sender \in Leaves
        /\ ~GroupExists => b.epoch = 0 /\ b.removed = {}
        /\ b.removed \subseteq Leaves /\ b.added \cap Leaves = {}
        /\ ~b.commit => b.added = {}
    BY Zenon, <2>1, AcceptedSays DEF Sent, Bundle, Leaves
  <2>3. /\ GroupExists => Leaves' = (Leaves \ b.removed) \cup b.added
        /\ ~GroupExists => Leaves = {} /\ Leaves' = {b.sender} \cup b.added
    BY <1>1, <2>1, LeavesMove
  <2>4. /\ GroupExists => epoch = Cardinality(DOMAIN History)
        /\ ~GroupExists => DOMAIN History = {}
    BY Zenon, <1>1 DEF EpochInv, WindowInv, History
  <2>5. CASE b.commit
    <3> DEFINE c == [sender |-> b.sender, base |-> b.epoch, added |-> b.added, removed |-> b.removed]
    <3>1. PICK k : /\ k \in DOMAIN History' \ DOMAIN History
                   /\ History'[k] = c /\ \A j \in DOMAIN History : j < k
                   /\ History' = [j \in DOMAIN History \cup {k} |-> IF j = k THEN c ELSE History[j]]
      BY Zenon, <1>1, <2>1, <2>5, HistoryMoves
    <3>2. /\ c \in Order!Commits
          /\ c.sender = b.sender /\ c.base = b.epoch /\ c.added = b.added /\ c.removed = b.removed
      BY Zenon, <2>2 DEF Order!Commits
    <3> HIDE DEF c
    <3>3. Order!Store(k, c)
      BY Zenon, <3>1 DEF Order!Store
    <3>4. Order!Commit(k, c) \/ Order!FoundWith(k, c)
      <4>1. CASE GroupExists
        <5>1. /\ c.base = Cardinality(DOMAIN History) /\ c.sender \in Leaves
              /\ c.removed \subseteq Leaves \ {c.sender} /\ c.added \cap Leaves = {}
              /\ Leaves' = (Leaves \ c.removed) \cup c.added
          BY <2>2, <2>3, <2>4, <3>2, <4>1
        <5>2. Order!Cardinality(DOMAIN History) = Cardinality(DOMAIN History)
          BY Zenon DEF Order!Cardinality, Cardinality
        <5>3. QED
          BY <3>3, <5>1, <5>2 DEF Order!Commit
      <4>2. CASE ~GroupExists
        <5>1. /\ Leaves = {} /\ DOMAIN History = {} /\ c.base = 0 /\ c.removed = {} /\ c.sender \notin c.added
              /\ Leaves' = {c.sender} \cup c.added
          BY SMTT(60), <2>2, <2>3, <2>4, <3>2, <4>2
        <5>2. QED
          BY Zenon, <3>3, <5>1 DEF Order!FoundWith
      <4>3. QED
        BY Zenon, <4>1, <4>2
    <3>5. QED
      BY <3>1, <3>2, <3>4 DEF Order!Next
  <2>6. CASE ~b.commit
    <3>1. UNCHANGED log /\ ~GroupExists /\ b.added = {}
      BY SMTT(60), <1>1, <2>1, <2>2, <2>6, BundleStored
    <3>2. History' = History
      BY Zenon, <3>1, BundlesStay DEF History
    <3>3. Order!Found(b.sender)
      BY Zenon, <2>3, <3>1, <3>2 DEF Order!Found
    <3>4. QED
      BY Zenon, <2>2, <3>3 DEF Order!Next
  <2>7. QED
    BY Zenon, <2>2, <2>5, <2>6
<1>3. CASE SendMessage
  <2>1. UNCHANGED roster /\ \E m \in Message : m.kind # "bundle" /\ log' = Append(log, m)
    BY Zenon, <1>3, MessageSent DEF GroupInv
  <2>2. QED
    BY ZenonT(60), <1>1, <2>1, BundlesStay, OrderStutters DEF TypeOK
<1>4. CASE (Next /\ ~SendBundle /\ ~SendMessage) \/ UNCHANGED vars
  <2>1. UNCHANGED <<roster, log>>
    BY Zenon, <1>4 DEF Next, vars, ConfirmMLSRevocation, RevokeDevice, DeleteAccount, Join, Leave, Enroll, IntervalEnds,
                Age, PruneSyncEvents
  <2>2. QED
    BY <2>1, BundlesStay, OrderStutters
<1>5. QED
  BY Zenon, <1>2, <1>3, <1>4

\* The accepted bundles are one sequence of commits, each built on the ones
\* before it by a device then in the group, and the roster is what they
\* declare (CreateMLSCommitBundle).
THEOREM OrderIsKept == Spec => KeepsOrder
<1>1. Init => Order!Init
  <2> SUFFICES ASSUME Init PROVE Order!Init
    BY Zenon
  <2>1. DOMAIN History = {}
    BY DEF Init, History, Bundles
  <2>2. Leaves = {}
    BY Zenon DEF Init, Leaves, Active, NoRow
  <2>3. QED
    BY <2>1, <2>2 DEF Order!Init
<1>2. GroupInv /\ [Next]_vars => [Order!Next]_<<History, Leaves>>
  BY Zenon, OrderSteps
<1>3. QED
  BY AlwaysGroupInv, <1>1, <1>2, PTL DEF Spec, KeepsOrder, Order!Spec

=============================================================================
