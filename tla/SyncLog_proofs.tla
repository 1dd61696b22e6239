--------------------------- MODULE SyncLog_proofs ---------------------------
(***************************************************************************)
(* Proofs about SyncLog, for every set of accounts, devices, conversations *)
(* and keys and every bound.                                               *)
(*                                                                         *)
(* The type invariant TypeOK is not inductive by itself: an expired or     *)
(* deleted id is an id of the log only because an envelope's id is the id  *)
(* of an issued event (EnvelopeIdsOK).  Each lemma also shows that the     *)
(* action appends to the log at most (Grows).                              *)
(*                                                                         *)
(* What SyncLog promises: the prune marks cover what was pruned, a request *)
(* is never answered over a hole, and no event keeps a ciphertext it       *)
(* should not.  Three kinds of facts hold of every step: the log only      *)
(* grows at its end (Grows), a message event that is hidden stays hidden   *)
(* (Fades), and prune marks only rise, with a row's mark set in the step   *)
(* that deletes it (MarksRise, PruneMarksTaken).  From them the marks      *)
(* cover every pruned event that could still be served (CoverInv), the     *)
(* pruned events a request's page is missing are marked when the page is   *)
(* read and stay marked (GapInv), and the check that runs after the page   *)
(* finds each of them that is still in scope (MarksFound).                 *)
(*                                                                         *)
(* The converse, that a cursor is refused for a reason, needs to know what *)
(* every mark is the id of (EarnedInv); a window that ended before the     *)
(* newest mark counts because the commit that ended it went too.  A device *)
(* reads a group's chain after its Welcome because between a join and its  *)
(* Welcome there is no row of that chain (JoinInv).                        *)
(***************************************************************************)
EXTENDS SyncLog, Lemmas

\* A message event names the id of a created event at or before it.
RefsOK == \A e \in DOMAIN log : log[e].msg <= e

\* An envelope's id is the id of its created event, which was issued.
EnvelopeIdsOK == \A m \in envelopes : m.id \in DOMAIN log

TypeInv == TypeOK /\ RefsOK /\ EnvelopeIdsOK

\* The log is only appended to.
Grows ==
    /\ log' \in Seq(Event)
    /\ Len(log) <= Len(log')
    /\ \A e \in DOMAIN log : e \in DOMAIN log' /\ log'[e] = log[e]
    /\ \A e \in DOMAIN log' : log'[e].msg <= e

-----------------------------------------------------------------------------
\* insertSyncEvent: one row at the end of the log.
LEMMA AppendGrows ==
    ASSUME TypeInv, NEW ev \in Event, ev.msg <= Len(log) + 1, log' = Append(log, ev)
    PROVE  Grows
<1>1. log \in Seq(Event) /\ Len(log) \in Nat /\ DOMAIN log = 1..Len(log)
  BY DEF TypeInv, TypeOK
<1>2. /\ log' \in Seq(Event) /\ Len(log') = Len(log) + 1
      /\ \A e \in 1..Len(log) : log'[e] = log[e]
      /\ log'[Len(log) + 1] = ev
  BY <1>1
<1>3. DOMAIN log' = 1..(Len(log) + 1)
  BY <1>1, <1>2
<1>4. \A e \in DOMAIN log' : log'[e].msg <= e
  BY <1>1, <1>2, <1>3 DEF TypeInv, RefsOK
<1> QED BY <1>1, <1>2, <1>3, <1>4 DEF Grows

\* Several rows of one transaction, none of them a message event.
LEMMA ConcatGrows ==
    ASSUME TypeInv, NEW new \in Seq(Event), \A i \in DOMAIN new : new[i].msg = 0,
           log' = log \o new
    PROVE  Grows
<1>1. /\ log \in Seq(Event) /\ Len(log) \in Nat /\ DOMAIN log = 1..Len(log)
      /\ Len(new) \in Nat /\ DOMAIN new = 1..Len(new)
  BY DEF TypeInv, TypeOK
<1>2. log' \in Seq(Event) /\ Len(log') = Len(log) + Len(new)
  BY <1>1
<1>3. DOMAIN log' = 1..(Len(log) + Len(new))
  BY <1>1, <1>2
<1>4. \A e \in 1..Len(log) : log'[e] = log[e]
  BY <1>1
<1>5. \A e \in DOMAIN log' : log'[e].msg <= e
  <2> TAKE e \in DOMAIN log'
  <2>1. CASE e \in 1..Len(log)
    BY Zenon, <2>1, <1>1, <1>4 DEF TypeInv, RefsOK
  <2>2. CASE e \notin 1..Len(log)
    <3>1. e - Len(log) \in 1..Len(new) /\ log'[e] = new[e - Len(log)] /\ e \in Nat
      BY <2>2, <1>1, <1>3
    <3> QED BY <3>1, <1>1
  <2> QED BY Zenon, <2>1, <2>2
<1> QED BY <1>1, <1>2, <1>3, <1>4, <1>5 DEF Grows

\* The columns of a row have their types.
LEMMA EventAt ==
    ASSUME TypeInv, NEW e \in DOMAIN log
    PROVE  /\ e \in Nat /\ 1 <= e /\ e <= Len(log) /\ Len(log) \in Nat
           /\ log[e].kind \in Kinds /\ log[e].acct \in Accounts \cup {None}
           /\ log[e].dev \in Devices \cup {None} /\ log[e].conv \in Conversations \cup {None}
           /\ log[e].msg \in Nat /\ log[e].by \in Accounts \cup {None}
           /\ log[e].mlsEpoch \in Nat \cup {NoEpoch}
<1>1. log \in Seq(Event) /\ Len(log) \in Nat /\ DOMAIN log = 1..Len(log)
  BY DEF TypeInv, TypeOK
<1>2. log[e] \in Event
  BY <1>1
<1> QED BY <1>1, <1>2 DEF Event

LEMMA StillGrows ==
    ASSUME TypeInv, log' = log
    PROVE  Grows
BY DEF TypeInv, TypeOK, RefsOK, Grows

-----------------------------------------------------------------------------
(***************************************************************************)
(* Each operation keeps the types and the references between rows.         *)
(***************************************************************************)

LEMMA SaveMessageEnvelopeType ==
    ASSUME TypeInv, NEW d \in Devices, NEW k \in Keys, NEW c \in Conversations,
           NEW timed \in BOOLEAN, NEW ep \in NamedEpochs(c),
           SaveMessageEnvelope(d, k, c, timed, ep)
    PROVE  TypeInv' /\ Grows
<1> DEFINE id == Len(log) + 1
           row == EventRow("created", None, None, c, id, Owner[d], ep)
           env == [id |-> id, dev |-> d, key |-> k, conv |-> c, timed |-> timed]
<1>1. ep \in Nat \cup {NoEpoch}
  BY DEF NamedEpochs, TypeInv, TypeOK
<1>2. id \in Nat /\ Owner[d] \in Accounts /\ log \in Seq(Event) /\ DOMAIN log = 1..Len(log)
  BY OwnerAssumption DEF TypeInv, TypeOK
<1>3. row \in Event /\ row.msg = id
  BY Zenon, <1>1, <1>2 DEF EventRow, Event, Kinds
<1>4. log' = Append(log, row)
  BY Zenon DEF SaveMessageEnvelope
<1>5. Grows
  BY <1>2, <1>3, <1>4, AppendGrows
<1>6. id \in DOMAIN log'
  BY <1>2, <1>3, <1>4
<1>7. env \in Envelope
  BY Zenon, <1>2 DEF Envelope
<1>8. envelopes' \subseteq envelopes \cup {env}
  BY Zenon DEF SaveMessageEnvelope
<1>9. redacted' \subseteq DOMAIN log'
  <2>1. redacted' \subseteq redacted \cup DOMAIN log
    BY Zenon DEF SaveMessageEnvelope, Copies, Surviving
  <2> QED BY Zenon, <2>1, <1>5 DEF TypeInv, TypeOK, Grows
<1>10. EnvelopeIdsOK'
  <2>1. env.id = id
    BY Zenon
  <2> QED BY Zenon, <1>5, <1>6, <1>8, <2>1 DEF TypeInv, EnvelopeIdsOK, Grows
<1>11. TypeOK'
  <2>1. UNCHANGED <<pruned, lost, expired, deleted, role, blocks, groups, epoch, roster,
                    prunedThrough, acctMark, convMark, cursor, pc, page, gap>>
    BY Zenon DEF SaveMessageEnvelope, memberVars, mlsVars, markVars, readVars
  <2> QED BY <2>1, <1>5, <1>7, <1>8, <1>9, Zenon DEF TypeInv, TypeOK, Grows
<1> QED BY Zenon, <1>5, <1>10, <1>11 DEF TypeInv, RefsOK, Grows

LEMMA UpdateMessageEnvelopeType ==
    ASSUME TypeInv, NEW m \in envelopes, NEW ep \in NamedEpochs(m.conv),
           UpdateMessageEnvelope(m, ep)
    PROVE  TypeInv' /\ Grows
<1> DEFINE row == EventRow("edited", None, None, m.conv, m.id, Owner[m.dev], ep)
<1>1. m \in Envelope /\ m.id \in DOMAIN log /\ DOMAIN log = 1..Len(log) /\ Len(log) \in Nat
  BY DEF TypeInv, TypeOK, EnvelopeIdsOK
<1>2. m.conv \in Conversations /\ m.dev \in Devices /\ m.id \in Nat /\ Owner[m.dev] \in Accounts
  BY Zenon, <1>1, OwnerAssumption DEF Envelope
<1>3. ep \in Nat \cup {NoEpoch}
  BY <1>2 DEF NamedEpochs, TypeInv, TypeOK
<1>4. row \in Event /\ row.msg <= Len(log) + 1
  BY <1>1, <1>2, <1>3 DEF EventRow, Event, Kinds
<1>5. log' = Append(log, row)
  BY Zenon DEF UpdateMessageEnvelope
<1>6. Grows
  BY Zenon, <1>4, <1>5, AppendGrows
<1>7. UNCHANGED <<pruned, lost, redacted, envelopes, expired, deleted, role, blocks, groups, epoch,
                  roster, prunedThrough, acctMark, convMark, cursor, pc, page, gap>>
  BY Zenon DEF UpdateMessageEnvelope, msgVars, memberVars, mlsVars, markVars, readVars
<1> QED BY <1>6, <1>7, Zenon DEF TypeInv, TypeOK, RefsOK, EnvelopeIdsOK, Grows

LEMMA DeleteMessageEnvelopeType ==
    ASSUME TypeInv, NEW m \in envelopes, DeleteMessageEnvelope(m)
    PROVE  TypeInv' /\ Grows
<1> DEFINE row == EventRow("deleted", None, None, m.conv, m.id, Owner[m.dev], NoEpoch)
<1>1. m \in Envelope /\ m.id \in DOMAIN log /\ DOMAIN log = 1..Len(log) /\ Len(log) \in Nat
  BY DEF TypeInv, TypeOK, EnvelopeIdsOK
<1>2. m.conv \in Conversations /\ m.dev \in Devices /\ m.id \in Nat /\ Owner[m.dev] \in Accounts
  BY Zenon, <1>1, OwnerAssumption DEF Envelope
<1>3. row \in Event /\ row.msg <= Len(log) + 1
  BY <1>1, <1>2 DEF EventRow, Event, Kinds
<1>4. log' = Append(log, row)
  BY Zenon DEF DeleteMessageEnvelope
<1>5. Grows
  BY Zenon, <1>3, <1>4, AppendGrows
<1>6. redacted' \subseteq redacted \cup DOMAIN log /\ deleted' = deleted \cup {m.id}
  BY Zenon DEF DeleteMessageEnvelope, Copies, Surviving
<1>7. UNCHANGED <<pruned, lost, envelopes, expired, role, blocks, groups, epoch,
                  roster, prunedThrough, acctMark, convMark, cursor, pc, page, gap>>
  BY Zenon DEF DeleteMessageEnvelope, memberVars, mlsVars, markVars, readVars
<1> QED BY <1>1, <1>5, <1>6, <1>7, Zenon DEF TypeInv, TypeOK, RefsOK, EnvelopeIdsOK, Grows

LEMMA ExpireType ==
    ASSUME TypeInv, NEW m \in envelopes, Expire(m)
    PROVE  TypeInv' /\ Grows
<1>1. log' = log /\ expired' = expired \cup {m.id} /\ m.id \in DOMAIN log
  BY Zenon DEF Expire, logVars, TypeInv, EnvelopeIdsOK
<1>2. UNCHANGED <<pruned, lost, redacted, envelopes, deleted, role, blocks, groups, epoch,
                  roster, prunedThrough, acctMark, convMark, cursor, pc, page, gap>>
  BY Zenon DEF Expire, logVars, memberVars, mlsVars, markVars, readVars
<1>3. Grows
  BY Zenon, <1>1, StillGrows
<1> QED BY <1>1, <1>2, <1>3, Zenon DEF TypeInv, TypeOK, RefsOK, EnvelopeIdsOK

LEMMA PruneExpiredContentType ==
    ASSUME TypeInv, NEW S \in SUBSET envelopes, NEW backfill \in BOOLEAN,
           PruneExpiredContent(S, backfill)
    PROVE  TypeInv' /\ Grows
<1>1. log' = log /\ envelopes' \subseteq envelopes
  BY Zenon DEF PruneExpiredContent
<1>2. redacted' \subseteq redacted \cup DOMAIN log
  BY Zenon DEF PruneExpiredContent, Copies, Orphans, Surviving
<1>3. UNCHANGED <<pruned, lost, expired, deleted, role, blocks, groups, epoch,
                  roster, prunedThrough, acctMark, convMark, cursor, pc, page, gap>>
  BY Zenon DEF PruneExpiredContent, memberVars, mlsVars, markVars, readVars
<1>4. Grows
  BY Zenon, <1>1, StillGrows
<1> QED BY <1>1, <1>2, <1>3, <1>4, Zenon DEF TypeInv, TypeOK, RefsOK, EnvelopeIdsOK

\* The triggers keep every mark a natural number, raise it at most, and take
\* it to every id deleted under its key.
LEMMA MarksForRaises ==
    ASSUME TypeInv, NEW S \in SUBSET DOMAIN log, NEW T \in SUBSET S, MarksFor(S, T)
    PROVE  /\ prunedThrough' \in Nat
           /\ acctMark' \in [Accounts -> [Devices \cup {None} -> Nat]]
           /\ convMark' \in [Conversations -> [BOOLEAN -> Nat]]
           /\ prunedThrough <= prunedThrough'
           /\ \A a \in Accounts, x \in Devices \cup {None} : acctMark[a][x] <= acctMark'[a][x]
           /\ \A c \in Conversations, f \in BOOLEAN : convMark[c][f] <= convMark'[c][f]
           /\ \A e \in S : e <= prunedThrough'
           /\ \A e \in S : log[e].acct \in Accounts => e <= acctMark'[log[e].acct][log[e].dev]
           /\ \A e \in T : log[e].acct = None /\ log[e].conv \in Conversations =>
                 e <= convMark'[log[e].conv][log[e].kind \in RosterFiltered]
<1> DEFINE n == Len(log)
           A(a, x) == {e \in S : log[e].acct = a /\ log[e].dev = x}
           C(c, f) == {e \in T : /\ log[e].acct = None /\ log[e].conv = c
                                 /\ (log[e].kind \in RosterFiltered) = f}
<1>1. n \in Nat /\ S \subseteq 1..n /\ T \subseteq 1..n /\ DOMAIN log = 1..n
  BY DEF TypeInv, TypeOK
<1>2. /\ prunedThrough \in Nat
      /\ \A a \in Accounts, x \in Devices \cup {None} : acctMark[a][x] \in Nat
      /\ \A c \in Conversations, f \in BOOLEAN : convMark[c][f] \in Nat
  BY ZenonT(60) DEF TypeInv, TypeOK
<1>3. /\ prunedThrough' \in Nat /\ prunedThrough <= prunedThrough'
      /\ \A e \in S : e <= prunedThrough'
  <2>1. prunedThrough' = Max({prunedThrough} \cup S)
    BY Zenon DEF MarksFor
  <2> QED BY <2>1, <1>1, <1>2, MaxOfMark, Zenon
<1>4. \A a \in Accounts, x \in Devices \cup {None} :
         /\ Max({acctMark[a][x]} \cup A(a, x)) \in Nat
         /\ acctMark[a][x] <= Max({acctMark[a][x]} \cup A(a, x))
         /\ \A e \in A(a, x) : e <= Max({acctMark[a][x]} \cup A(a, x))
  <2> TAKE a \in Accounts, x \in Devices \cup {None}
  <2>1. A(a, x) \subseteq 1..n
    BY Zenon, <1>1
  <2> QED BY <2>1, <1>1, <1>2, MaxOfMark, Zenon
<1>5. acctMark' = [a \in Accounts |-> [x \in Devices \cup {None} |-> Max({acctMark[a][x]} \cup A(a, x))]]
  BY Zenon DEF MarksFor
<1>6. \A c \in Conversations, f \in BOOLEAN :
         /\ Max({convMark[c][f]} \cup C(c, f)) \in Nat
         /\ convMark[c][f] <= Max({convMark[c][f]} \cup C(c, f))
         /\ \A e \in C(c, f) : e <= Max({convMark[c][f]} \cup C(c, f))
  <2> TAKE c \in Conversations, f \in BOOLEAN
  <2>1. C(c, f) \subseteq 1..n
    BY Zenon, <1>1
  <2> QED BY <2>1, <1>1, <1>2, MaxOfMark, Zenon
<1>7. convMark' = [c \in Conversations |-> [f \in BOOLEAN |-> Max({convMark[c][f]} \cup C(c, f))]]
  BY Zenon DEF MarksFor
<1>8. /\ acctMark' \in [Accounts -> [Devices \cup {None} -> Nat]]
      /\ \A a \in Accounts, x \in Devices \cup {None} : acctMark[a][x] <= acctMark'[a][x]
  BY <1>4, <1>5, Zenon
<1>9. /\ convMark' \in [Conversations -> [BOOLEAN -> Nat]]
      /\ \A c \in Conversations, f \in BOOLEAN : convMark[c][f] <= convMark'[c][f]
  BY <1>6, <1>7, Zenon
<1>10. \A e \in S : log[e].acct \in Accounts => e <= acctMark'[log[e].acct][log[e].dev]
  <2> SUFFICES ASSUME NEW e \in S, log[e].acct \in Accounts
               PROVE  e <= acctMark'[log[e].acct][log[e].dev]
    BY Zenon
  <2>1. log[e].dev \in Devices \cup {None}
    BY Zenon, EventAt
  <2>2. e \in A(log[e].acct, log[e].dev)
    BY Zenon
  <2> QED BY <2>1, <2>2, <1>4, <1>5, Zenon
<1>11. \A e \in T : log[e].acct = None /\ log[e].conv \in Conversations =>
          e <= convMark'[log[e].conv][log[e].kind \in RosterFiltered]
  <2> SUFFICES ASSUME NEW e \in T, log[e].acct = None, log[e].conv \in Conversations
               PROVE  e <= convMark'[log[e].conv][log[e].kind \in RosterFiltered]
    BY Zenon
  <2>1. (log[e].kind \in RosterFiltered) \in BOOLEAN
    OBVIOUS
  <2>2. e \in C(log[e].conv, log[e].kind \in RosterFiltered)
    BY Zenon
  <2> QED BY <2>1, <2>2, <1>6, <1>7, Zenon
<1> QED BY <1>3, <1>8, <1>9, <1>10, <1>11, Zenon

LEMMA PruneSyncEventsType ==
    ASSUME TypeInv, NEW cutoff \in Surviving, PruneSyncEvents(cutoff)
    PROVE  TypeInv' /\ Grows
<1> DEFINE S == {e \in Surviving : e <= cutoff}
           T == {e \in S : EnvelopeLive(e)}
<1>1. S \in SUBSET DOMAIN log /\ T \in SUBSET S
  BY Zenon DEF Surviving
<1>2. MarksFor(S, T)
  BY Zenon DEF PruneSyncEvents, PruneMarks
<1>3. /\ prunedThrough' \in Nat
      /\ acctMark' \in [Accounts -> [Devices \cup {None} -> Nat]]
      /\ convMark' \in [Conversations -> [BOOLEAN -> Nat]]
  BY <1>1, <1>2, MarksForRaises, Zenon
<1>4. log' = log /\ pruned' = pruned \cup S /\ lost' = lost \cup T
  BY Zenon DEF PruneSyncEvents
<1>5. UNCHANGED <<redacted, envelopes, expired, deleted, role, blocks, groups, epoch,
                  roster, cursor, pc, page, gap>>
  BY Zenon DEF PruneSyncEvents, msgVars, memberVars, mlsVars, readVars
<1>6. Grows
  BY Zenon, <1>4, StillGrows
<1> QED BY <1>1, <1>3, <1>4, <1>5, <1>6, Zenon DEF TypeInv, TypeOK, RefsOK, EnvelopeIdsOK

\* A membership row: no message, no device.
LEMMA MembershipRow ==
    ASSUME NEW a \in Accounts \cup {None}, NEW c \in Conversations \cup {None}
    PROVE  /\ EventRow("membership", a, None, c, 0, None, NoEpoch) \in Event
           /\ EventRow("membership", a, None, c, 0, None, NoEpoch).msg = 0
BY Zenon DEF EventRow, Event, Kinds

LEMMA CreateConversationType ==
    ASSUME TypeInv, NEW a \in Accounts, NEW c \in Conversations, NEW others \in MemberLists,
           CreateConversation(a, c, others)
    PROVE  TypeInv' /\ Grows
<1> DEFINE new == [i \in 1..Len(others) |->
                      EventRow("membership", others[i], None, c, 0, None, NoEpoch)]
<1>1. others \in Seq(Accounts) /\ Len(others) \in Nat
  BY ListsAssumption
<1>2. \A i \in 1..Len(others) : new[i] \in Event /\ new[i].msg = 0
  BY <1>1, MembershipRow
<1>3. new \in Seq(Event) /\ DOMAIN new = 1..Len(others)
  BY <1>1, <1>2
<1>4. log' = log \o new
  BY Zenon DEF CreateConversation
<1>5. Grows
  BY <1>2, <1>3, <1>4, ConcatGrows, Zenon
<1>6. role' \in [Conversations -> [Accounts -> Roles]]
  BY Zenon DEF CreateConversation, TypeInv, TypeOK, Roles, MemberRoles
<1>7. UNCHANGED <<pruned, lost, redacted, envelopes, expired, deleted, blocks, groups, epoch,
                  roster, prunedThrough, acctMark, convMark, cursor, pc, page, gap>>
  BY Zenon DEF CreateConversation, msgVars, mlsVars, markVars, readVars
<1> QED BY <1>5, <1>6, <1>7, Zenon DEF TypeInv, TypeOK, RefsOK, EnvelopeIdsOK, Grows

LEMMA ManageConversationMemberType ==
    ASSUME TypeInv, NEW a \in Accounts, NEW b \in Accounts, NEW c \in Conversations,
           NEW r \in GrantRoles, ManageConversationMember(a, b, c, r)
    PROVE  TypeInv' /\ Grows
<1> DEFINE row == EventRow("membership", None, None, c, 0, None, NoEpoch)
<1>1. row \in Event /\ row.msg <= Len(log) + 1
  <2>1. row \in Event /\ row.msg = 0
    BY Zenon, MembershipRow
  <2>2. Len(log) \in Nat
    BY DEF TypeInv, TypeOK
  <2> HIDE DEF row
  <2> QED BY <2>1, <2>2
<1>2. Grows
  BY Zenon, <1>1, AppendGrows DEF ManageConversationMember
<1>3. role' \in [Conversations -> [Accounts -> Roles]]
  BY Zenon, GrantAssumption DEF ManageConversationMember, TypeInv, TypeOK, Roles
<1>4. UNCHANGED <<pruned, lost, redacted, envelopes, expired, deleted, blocks, groups, epoch,
                  roster, prunedThrough, acctMark, convMark, cursor, pc, page, gap>>
  BY Zenon DEF ManageConversationMember, msgVars, mlsVars, markVars, readVars
<1> QED BY <1>2, <1>3, <1>4, Zenon DEF TypeInv, TypeOK, RefsOK, EnvelopeIdsOK, Grows

LEMMA RemoveConversationMemberType ==
    ASSUME TypeInv, NEW a \in Accounts, NEW b \in Accounts, NEW c \in Conversations,
           RemoveConversationMember(a, b, c)
    PROVE  TypeInv' /\ Grows
<1> DEFINE shared == EventRow("membership", None, None, c, 0, None, NoEpoch)
           own == EventRow("membership", b, None, None, 0, None, NoEpoch)
<1>1. shared \in Event /\ shared.msg = 0 /\ own \in Event /\ own.msg = 0
  BY Zenon, MembershipRow
<1>2. <<shared, own>> \in Seq(Event) /\ \A i \in DOMAIN <<shared, own>> : <<shared, own>>[i].msg = 0
  <2> HIDE DEF shared, own
  <2> QED BY <1>1
<1>3. Grows
  BY <1>2, ConcatGrows, Zenon DEF RemoveConversationMember
<1>4. role' \in [Conversations -> [Accounts -> Roles]]
  BY Zenon DEF RemoveConversationMember, TypeInv, TypeOK, Roles
<1>5. UNCHANGED <<pruned, lost, redacted, envelopes, expired, deleted, blocks, groups, epoch,
                  roster, prunedThrough, acctMark, convMark, cursor, pc, page, gap>>
  BY Zenon DEF RemoveConversationMember, msgVars, mlsVars, markVars, readVars
<1> QED BY <1>3, <1>4, <1>5, Zenon DEF TypeInv, TypeOK, RefsOK, EnvelopeIdsOK, Grows

LEMMA BlockType ==
    ASSUME TypeInv, NEW a \in Accounts, NEW b \in Accounts,
           BlockAccount(a, b) \/ UnblockAccount(a, b)
    PROVE  TypeInv' /\ Grows
<1>1. blocks' \subseteq Accounts \X Accounts
  BY DEF BlockAccount, UnblockAccount, TypeInv, TypeOK
<1>2. UNCHANGED <<log, pruned, lost, redacted, envelopes, expired, deleted, role, groups, epoch,
                  roster, prunedThrough, acctMark, convMark, cursor, pc, page, gap>>
  BY Zenon DEF BlockAccount, UnblockAccount, logVars, msgVars, mlsVars, markVars, readVars
<1>3. Grows
  BY Zenon, <1>2, StillGrows
<1> QED BY <1>1, <1>2, <1>3, Zenon DEF TypeInv, TypeOK, RefsOK, EnvelopeIdsOK

LEMMA RegisterMLSGroupType ==
    ASSUME TypeInv, NEW d \in Devices, NEW c \in Conversations, RegisterMLSGroup(d, c)
    PROVE  TypeInv' /\ Grows
<1>1. groups' \subseteq Conversations /\ roster' \in [Conversations -> [Devices -> Window]]
  BY Zenon DEF RegisterMLSGroup, TypeInv, TypeOK, Creator, Window
<1>2. UNCHANGED <<log, pruned, lost, redacted, envelopes, expired, deleted, role, blocks, epoch,
                  prunedThrough, acctMark, convMark, cursor, pc, page, gap>>
  BY Zenon DEF RegisterMLSGroup, logVars, msgVars, memberVars, markVars, readVars
<1>3. Grows
  BY Zenon, <1>2, StillGrows
<1> QED BY <1>1, <1>2, <1>3, Zenon DEF TypeInv, TypeOK, RefsOK, EnvelopeIdsOK

LEMMA CreateMLSCommitBundleType ==
    ASSUME TypeInv, NEW d \in Devices, NEW c \in Conversations, NEW added \in AddLists,
           NEW removed \in SUBSET Devices, CreateMLSCommitBundle(d, c, added, removed)
    PROVE  TypeInv' /\ Grows
<1> DEFINE id == Len(log) + 1
           commit == EventRow("commit", None, None, c, 0, None, NoEpoch)
           new == <<commit>> \o WelcomeRows(c, added)
<1>1. added \in Seq(Devices) /\ Len(added) \in Nat /\ Len(log) \in Nat /\ log \in Seq(Event)
  BY ListsAssumption DEF TypeInv, TypeOK
<1>2. commit \in Event /\ commit.msg = 0
  BY Zenon DEF EventRow, Event, Kinds
<1>3. \A i \in 1..Len(added) : WelcomeRows(c, added)[i] \in Event /\ WelcomeRows(c, added)[i].msg = 0
  <2> TAKE i \in 1..Len(added)
  <2>1. added[i] \in Devices /\ Owner[added[i]] \in Accounts
    BY <1>1, OwnerAssumption
  <2> QED BY Zenon, <2>1 DEF WelcomeRows, EventRow, Event, Kinds
<1>4. WelcomeRows(c, added) \in Seq(Event) /\ Len(WelcomeRows(c, added)) = Len(added)
  BY <1>1, <1>3 DEF WelcomeRows
<1>5. new \in Seq(Event) /\ \A i \in DOMAIN new : new[i].msg = 0
  <2> HIDE DEF commit
  <2>1. new \in Seq(Event) /\ Len(new) = 1 + Len(added)
    BY <1>1, <1>2, <1>4
  <2>2. \A i \in 1..(1 + Len(added)) : new[i].msg = 0
    BY <1>1, <1>2, <1>3, <1>4
  <2> QED BY <2>1, <2>2
<1>6. log' = log \o new
  <2>1. log' = Append(log, commit) \o WelcomeRows(c, added)
    BY Zenon DEF CreateMLSCommitBundle
  <2> HIDE DEF commit
  <2> QED BY SMTT(60), <2>1, <1>1, <1>2, <1>4
<1>7. Grows
  BY <1>5, <1>6, ConcatGrows, Zenon
<1>8. groups' \subseteq Conversations /\ epoch' \in [Conversations -> Nat]
  BY DEF CreateMLSCommitBundle, TypeInv, TypeOK
<1>9. roster' \in [Conversations -> [Devices -> Window]]
  <2>1. epoch[c] \in Nat /\ id \in Nat /\ \A x \in Devices : roster[c][x] \in Window
    BY <1>1 DEF TypeInv, TypeOK
  <2>2. JoinWindow(id, c) \in Window /\ Creator \in Window
    BY <2>1 DEF JoinWindow, Creator, Window
  <2>3. \A x \in Devices : [roster[c][x] EXCEPT !.removed = id] \in Window
    BY Zenon, <2>1 DEF Window
  <2> QED BY Zenon, <2>1, <2>2, <2>3 DEF CreateMLSCommitBundle, TypeInv, TypeOK
<1>10. UNCHANGED <<pruned, lost, redacted, envelopes, expired, deleted, role, blocks,
                   prunedThrough, acctMark, convMark, cursor, pc, page, gap>>
  BY Zenon DEF CreateMLSCommitBundle, msgVars, memberVars, markVars, readVars
<1> QED BY <1>7, <1>8, <1>9, <1>10, Zenon DEF TypeInv, TypeOK, RefsOK, EnvelopeIdsOK, Grows

-----------------------------------------------------------------------------
\* What a page holds, and where the cursor goes when it is answered.
LEMMA PageInLog ==
    ASSUME TypeInv, NEW d \in Readers
    PROVE  PageOf(d) \subseteq DOMAIN log
BY Zenon DEF PageOf, Surviving

LEMMA AnswerType ==
    ASSUME TypeInv, NEW d \in Readers, NEW events, events \subseteq DOMAIN log,
           Answer(d, events)
    PROVE  /\ cursor' \in [Readers -> Nat]
           /\ pc' \in [Readers -> {"idle", "state", "marks", "legacy", "expired"}]
           /\ page' \in [Readers -> SUBSET DOMAIN log]
           /\ gap' \in [Readers -> SUBSET DOMAIN log]
<1>1. Len(log) \in Nat /\ DOMAIN log = 1..Len(log)
  BY DEF TypeInv, TypeOK
<1>2. events # {} => Max(events) \in Nat
  <2> SUFFICES ASSUME events # {} PROVE Max(events) \in Nat
    BY Zenon
  <2>1. events \subseteq 0..Len(log)
    BY <1>1
  <2>2. Max(events) \in events
    BY <1>1, <2>1, MaxIsGreatest, Zenon
  <2> QED BY <1>1, <2>2
<1> QED BY Zenon, <1>2 DEF Answer, TypeInv, TypeOK

LEMMA ReadType ==
    ASSUME TypeInv, NEW d \in Readers, Read(d)
    PROVE  TypeInv' /\ Grows
<1>1. UNCHANGED <<log, pruned, lost, redacted, envelopes, expired, deleted, role, blocks, groups,
                  epoch, roster, prunedThrough, acctMark, convMark>>
  BY Zenon DEF Read, ListSyncEventsPage, CheckPruneState, CheckPruneMarks, CheckLegacy,
         logVars, msgVars, memberVars, mlsVars, markVars
<1>2. Grows
  BY Zenon, <1>1, StillGrows
<1> DEFINE ReadTypes ==
          /\ cursor' \in [Readers -> Nat]
          /\ pc' \in [Readers -> {"idle", "state", "marks", "legacy", "expired"}]
          /\ page' \in [Readers -> SUBSET DOMAIN log]
          /\ gap' \in [Readers -> SUBSET DOMAIN log]
<1>3. page[d] \subseteq DOMAIN log /\ PageOf(d) \subseteq DOMAIN log
  BY PageInLog, Zenon DEF TypeInv, TypeOK
<1>4. ASSUME NEW events, events \subseteq DOMAIN log, Answer(d, events)
      PROVE  ReadTypes
  BY Zenon, <1>4, AnswerType
<1>5. \A at \in {"marks", "legacy", "expired"} : Proceed(d, at) => ReadTypes
  BY Zenon DEF Proceed, TypeInv, TypeOK
<1> HIDE DEF ReadTypes
<1>6. ReadTypes
  <2>1. CASE ListSyncEventsPage(d)
    <3>1. CASE Answer(d, PageOf(d))
      BY Zenon, <3>1, <1>3, <1>4
    <3>2. CASE cursor[d] > 0
      <4>1. {e \in pruned : e > cursor[d] /\ Visible(d, e)} \subseteq DOMAIN log
        BY Zenon DEF TypeInv, TypeOK
      <4>2. /\ page' = [page EXCEPT ![d] = PageOf(d)]
            /\ gap' = [gap EXCEPT ![d] = {e \in pruned : e > cursor[d] /\ Visible(d, e)}]
            /\ pc' = [pc EXCEPT ![d] = "state"] /\ cursor' = cursor
        BY <2>1, <3>2 DEF ListSyncEventsPage, TypeInv, TypeOK
      <4>3. page' \in [Readers -> SUBSET DOMAIN log]
        BY Zenon, <4>2, <1>3 DEF TypeInv, TypeOK
      <4>4. gap' \in [Readers -> SUBSET DOMAIN log]
        BY Zenon, <4>1, <4>2 DEF TypeInv, TypeOK
      <4> QED BY Zenon, <4>2, <4>3, <4>4 DEF ReadTypes, TypeInv, TypeOK
    <3> QED BY Zenon, <2>1, <3>1, <3>2 DEF ListSyncEventsPage
  <2>2. CASE CheckPruneState(d)
    BY Zenon, <2>2, <1>3, <1>4, <1>5 DEF CheckPruneState
  <2>3. CASE CheckPruneMarks(d)
    BY Zenon, <2>3, <1>3, <1>4, <1>5 DEF CheckPruneMarks
  <2>4. CASE CheckLegacy(d)
    BY Zenon, <2>4, <1>3, <1>4, <1>5 DEF CheckLegacy
  <2> QED BY Zenon, <2>1, <2>2, <2>3, <2>4 DEF Read
<1> QED BY Zenon, <1>1, <1>2, <1>6, Zenon DEF ReadTypes, TypeInv, TypeOK, RefsOK, EnvelopeIdsOK

LEMMA InitType == Init => TypeInv
<1> SUFFICES ASSUME Init PROVE TypeInv
  BY Zenon
<1>1. LegacyLog \in Seq(Event) /\ LegacyThrough \in Nat
  BY LegacyAssumption DEF LegacyThrough
<1>2. roster \in [Conversations -> [Devices -> Window]]
  BY Zenon DEF Init, NoWindow, Window
<1>3. cursor \in [Readers -> Nat]
  BY <1>1 DEF Init
<1>4. /\ acctMark \in [Accounts -> [Devices \cup {None} -> Nat]]
      /\ convMark \in [Conversations -> [BOOLEAN -> Nat]]
  BY Zenon DEF Init
<1> QED BY Zenon, <1>1, <1>2, <1>3, <1>4, LegacyAssumption DEF Init, TypeInv, TypeOK, RefsOK, EnvelopeIdsOK

\* Every step keeps the types and only appends to the log.
LEMMA NextType == TypeInv /\ [Next]_vars => TypeInv' /\ Grows
<1> SUFFICES ASSUME TypeInv, [Next]_vars PROVE TypeInv' /\ Grows
  BY Zenon
<1>1. CASE UNCHANGED vars
  <2>1. UNCHANGED <<log, pruned, lost, redacted, envelopes, expired, deleted, role, blocks, groups,
                    epoch, roster, prunedThrough, acctMark, convMark, cursor, pc, page, gap>>
    BY Zenon, <1>1 DEF vars, logVars, msgVars, memberVars, mlsVars, markVars, readVars
  <2>2. Grows
    BY Zenon, <2>1, StillGrows
  <2> QED BY <2>1, <2>2, Zenon DEF TypeInv, TypeOK, RefsOK, EnvelopeIdsOK
<1>2. CASE Write
  <2>1. ASSUME NEW d \in Senders, NEW k \in Keys, NEW c \in Conversations, NEW timed \in BOOLEAN,
               NEW ep \in NamedEpochs(c), SaveMessageEnvelope(d, k, c, timed, ep)
        PROVE  TypeInv' /\ Grows
    BY Zenon, <2>1, RolesAssumption, SaveMessageEnvelopeType
  <2>2. ASSUME NEW m \in envelopes, NEW ep \in NamedEpochs(m.conv), UpdateMessageEnvelope(m, ep)
        PROVE  TypeInv' /\ Grows
    BY Zenon, <2>2, UpdateMessageEnvelopeType
  <2>3. ASSUME NEW m \in envelopes, DeleteMessageEnvelope(m) PROVE TypeInv' /\ Grows
    BY Zenon, <2>3, DeleteMessageEnvelopeType
  <2>4. ASSUME NEW m \in envelopes, Expire(m) PROVE TypeInv' /\ Grows
    BY Zenon, <2>4, ExpireType
  <2>5. ASSUME NEW S \in SUBSET envelopes, NEW backfill \in BOOLEAN, PruneExpiredContent(S, backfill)
        PROVE  TypeInv' /\ Grows
    BY Zenon, <2>5, PruneExpiredContentType
  <2>6. ASSUME NEW cutoff \in Surviving, PruneSyncEvents(cutoff) PROVE TypeInv' /\ Grows
    BY Zenon, <2>6, PruneSyncEventsType
  <2>7. ASSUME NEW a \in Accounts, NEW c \in Conversations, NEW others \in MemberLists,
               CreateConversation(a, c, others)
        PROVE  TypeInv' /\ Grows
    BY Zenon, <2>7, CreateConversationType
  <2>8. ASSUME NEW a \in Accounts, NEW b \in Accounts, NEW c \in Conversations, NEW r \in GrantRoles,
               ManageConversationMember(a, b, c, r)
        PROVE  TypeInv' /\ Grows
    BY Zenon, <2>8, ManageConversationMemberType
  <2>9. ASSUME NEW a \in Accounts, NEW b \in Accounts, NEW c \in Conversations,
               RemoveConversationMember(a, b, c)
        PROVE  TypeInv' /\ Grows
    BY Zenon, <2>9, RemoveConversationMemberType
  <2>10. ASSUME NEW a \in Accounts, NEW b \in Accounts, BlockAccount(a, b) \/ UnblockAccount(a, b)
         PROVE  TypeInv' /\ Grows
    BY Zenon, <2>10, BlockType
  <2>11. ASSUME NEW d \in Devices, NEW c \in Conversations, RegisterMLSGroup(d, c)
         PROVE  TypeInv' /\ Grows
    BY Zenon, <2>11, RegisterMLSGroupType
  <2>12. ASSUME NEW d \in Devices, NEW c \in Conversations, NEW added \in AddLists,
                NEW removed \in SUBSET Devices, CreateMLSCommitBundle(d, c, added, removed)
         PROVE  TypeInv' /\ Grows
    BY Zenon, <2>12, CreateMLSCommitBundleType
  <2> QED BY Zenon, <1>2, <2>1, <2>2, <2>3, <2>4, <2>5, <2>6, <2>7, <2>8, <2>9, <2>10, <2>11, <2>12, ZenonT(60)
          DEF Write
<1>3. ASSUME NEW d \in Readers, Read(d) PROVE TypeInv' /\ Grows
  BY Zenon, <1>3, ReadType
<1> QED BY Zenon, <1>1, <1>2, <1>3 DEF Next

LEMMA Typing == Spec => []TypeInv
<1>1. Init => TypeInv
  BY Zenon, InitType
<1>2. TypeInv /\ [Next]_vars => TypeInv'
  BY Zenon, NextType
<1> QED BY <1>1, <1>2, PTL DEF Spec

\* Every variable of the log, the marks and the requests keeps its type.
THEOREM TypeCorrect == Spec => []TypeOK
<1>1. TypeInv => TypeOK
  BY Zenon DEF TypeInv
<1> QED BY <1>1, Typing, PTL

(***************************************************************************)
(* What every step does to messages and marks.                             *)
(***************************************************************************)

\* Expiry and deletion are final, and a stored envelope has an unused id.
MessagesAge ==
    /\ expired \subseteq expired' /\ deleted \subseteq deleted'
    /\ \A m \in envelopes' : m \in envelopes \/ m.id = Len(log) + 1

\* An event that is hidden because of its envelope stays hidden.
Fades == \A e \in DOMAIN log : EnvelopeLive(e)' => EnvelopeLive(e)

\* Marks only rise.
MarksRise ==
    /\ prunedThrough <= prunedThrough'
    /\ \A a \in Accounts, x \in Devices \cup {None} : acctMark[a][x] <= acctMark'[a][x]
    /\ \A c \in Conversations, f \in BOOLEAN : convMark[c][f] <= convMark'[c][f]

\* An event that a cursor could be sent: it is on an account's own chain, or
\* its envelope does not hide it.
Servable(e) == log[e].acct # None \/ EnvelopeLive(e)

LEMMA AgeFades ==
    ASSUME TypeInv, Grows, MessagesAge
    PROVE  Fades
<1> SUFFICES ASSUME NEW e \in DOMAIN log, EnvelopeLive(e)' PROVE EnvelopeLive(e)
  BY Zenon DEF Fades
<1>1. log'[e] = log[e] /\ log[e].msg <= e /\ e <= Len(log) /\ Len(log) \in Nat /\ log[e].msg \in Nat /\ e \in Nat
  BY Zenon, EventAt DEF Grows, TypeInv, RefsOK
<1>2. \A m \in envelopes' : m.id = log[e].msg => m \in envelopes
  BY <1>1 DEF MessagesAge
<1> QED BY Zenon, <1>1, <1>2 DEF EnvelopeLive, MessagesAge

LEMMA UnchangedRise ==
    ASSUME TypeInv, UNCHANGED markVars
    PROVE  MarksRise
<1>1. UNCHANGED <<prunedThrough, acctMark, convMark>>
  BY Zenon DEF markVars
<1>2. prunedThrough \in Nat /\ (\A a \in Accounts, x \in Devices \cup {None} : acctMark[a][x] \in Nat)
      /\ \A c \in Conversations, f \in BOOLEAN : convMark[c][f] \in Nat
  BY DEF TypeInv, TypeOK
<1> QED BY <1>1, <1>2 DEF MarksRise

\* All that a step other than retention's does to what was pruned.
LEMMA StepAges ==
    ASSUME TypeInv, [Next]_vars
    PROVE  /\ MessagesAge
           /\ \/ pruned' = pruned /\ lost' = lost /\ UNCHANGED markVars
              \/ \E cutoff \in Surviving : PruneSyncEvents(cutoff)
<1> USE DEF MessagesAge
<1>1. CASE UNCHANGED vars
  BY Zenon, <1>1 DEF vars, logVars, msgVars
<1>2. CASE Write
  <2>1. ASSUME NEW d \in Senders, NEW k \in Keys, NEW c \in Conversations, NEW timed \in BOOLEAN,
               NEW ep \in NamedEpochs(c), SaveMessageEnvelope(d, k, c, timed, ep)
        PROVE  MessagesAge /\ pruned' = pruned /\ lost' = lost /\ UNCHANGED markVars
    BY <2>1 DEF SaveMessageEnvelope
  <2>2. ASSUME NEW m \in envelopes, NEW ep \in NamedEpochs(m.conv), UpdateMessageEnvelope(m, ep)
        PROVE  MessagesAge /\ pruned' = pruned /\ lost' = lost /\ UNCHANGED markVars
    BY Zenon, <2>2 DEF UpdateMessageEnvelope, msgVars
  <2>3. ASSUME NEW m \in envelopes, DeleteMessageEnvelope(m) \/ Expire(m)
        PROVE  MessagesAge /\ pruned' = pruned /\ lost' = lost /\ UNCHANGED markVars
    BY Zenon, <2>3 DEF DeleteMessageEnvelope, Expire, logVars
  <2>4. ASSUME NEW S \in SUBSET envelopes, NEW backfill \in BOOLEAN, PruneExpiredContent(S, backfill)
        PROVE  MessagesAge /\ pruned' = pruned /\ lost' = lost /\ UNCHANGED markVars
    BY Zenon, <2>4 DEF PruneExpiredContent
  <2>5. ASSUME NEW cutoff \in Surviving, PruneSyncEvents(cutoff)
        PROVE  MessagesAge
    BY Zenon, <2>5 DEF PruneSyncEvents, msgVars
  <2>6. ASSUME NEW a \in Accounts, NEW c \in Conversations, NEW others \in MemberLists,
               CreateConversation(a, c, others)
        PROVE  MessagesAge /\ pruned' = pruned /\ lost' = lost /\ UNCHANGED markVars
    BY Zenon, <2>6 DEF CreateConversation, msgVars
  <2>7. ASSUME NEW a \in Accounts, NEW b \in Accounts, NEW c \in Conversations, NEW r \in GrantRoles,
               ManageConversationMember(a, b, c, r)
        PROVE  MessagesAge /\ pruned' = pruned /\ lost' = lost /\ UNCHANGED markVars
    BY Zenon, <2>7 DEF ManageConversationMember, msgVars
  <2>8. ASSUME NEW a \in Accounts, NEW b \in Accounts, NEW c \in Conversations,
               RemoveConversationMember(a, b, c)
        PROVE  MessagesAge /\ pruned' = pruned /\ lost' = lost /\ UNCHANGED markVars
    BY Zenon, <2>8 DEF RemoveConversationMember, msgVars
  <2>9. ASSUME NEW a \in Accounts, NEW b \in Accounts, BlockAccount(a, b) \/ UnblockAccount(a, b)
        PROVE  MessagesAge /\ pruned' = pruned /\ lost' = lost /\ UNCHANGED markVars
    BY Zenon, <2>9 DEF BlockAccount, UnblockAccount, logVars, msgVars
  <2>10. ASSUME NEW d \in Devices, NEW c \in Conversations, RegisterMLSGroup(d, c)
         PROVE  MessagesAge /\ pruned' = pruned /\ lost' = lost /\ UNCHANGED markVars
    BY Zenon, <2>10 DEF RegisterMLSGroup, logVars, msgVars
  <2>11. ASSUME NEW d \in Devices, NEW c \in Conversations, NEW added \in AddLists,
                NEW removed \in SUBSET Devices, CreateMLSCommitBundle(d, c, added, removed)
         PROVE  MessagesAge /\ pruned' = pruned /\ lost' = lost /\ UNCHANGED markVars
    BY Zenon, <2>11 DEF CreateMLSCommitBundle, msgVars
  <2> HIDE DEF MessagesAge
  <2> QED BY Zenon, <1>2, <2>1, <2>2, <2>3, <2>4, <2>5, <2>6, <2>7, <2>8, <2>9, <2>10, <2>11, ZenonT(60) DEF Write
<1>3. ASSUME NEW d \in Readers, Read(d)
      PROVE  MessagesAge /\ pruned' = pruned /\ lost' = lost /\ UNCHANGED markVars
  BY Zenon, <1>3 DEF Read, ListSyncEventsPage, CheckPruneState, CheckPruneMarks, CheckLegacy, logVars, msgVars
<1> HIDE DEF MessagesAge
<1> QED BY Zenon, <1>1, <1>2, <1>3 DEF Next

\* A mark, once it speaks for an event, always does.
LEMMA MarkedStays ==
    ASSUME TypeInv, TypeInv', Grows, MarksRise, NEW e \in DOMAIN log, Marked(e)
    PROVE  Marked(e)'
<1>1. log'[e] = log[e]
  BY Zenon DEF Grows
<1>2. /\ e \in Nat /\ log[e].acct \in Accounts \cup {None} /\ log[e].dev \in Devices \cup {None}
      /\ log[e].conv \in Conversations \cup {None}
  BY Zenon, EventAt
<1>3. e <= prunedThrough'
  BY <1>2 DEF TypeInv, TypeOK, Marked, MarksRise
<1>4. ASSUME log[e].acct # None
      PROVE  e <= acctMark'[log[e].acct][log[e].dev]
  <2> DEFINE old == acctMark[log[e].acct][log[e].dev]
             new == acctMark'[log[e].acct][log[e].dev]
  <2>1. e <= old /\ old <= new
    BY Zenon, <1>2, <1>4 DEF Marked, MarksRise
  <2>2. old \in Nat /\ new \in Nat
    BY Zenon, <1>2, <1>4 DEF TypeInv, TypeOK
  <2> QED BY <1>2, <2>1, <2>2
<1>5. ASSUME log[e].acct = None, log[e].conv # None
      PROVE  e <= convMark'[log[e].conv][log[e].kind \in RosterFiltered]
  <2> DEFINE f == log[e].kind \in RosterFiltered
             old == convMark[log[e].conv][f]
             new == convMark'[log[e].conv][f]
  <2>1. f \in BOOLEAN
    OBVIOUS
  <2>2. e <= old
    BY Zenon, <1>5 DEF Marked
  <2> HIDE DEF f
  <2>3. old <= new /\ old \in Nat /\ new \in Nat
    BY ZenonT(60), <1>2, <1>5, <2>1 DEF MarksRise, TypeInv, TypeOK
  <2>4. e <= new
    BY <1>2, <2>2, <2>3
  <2> QED BY Zenon, <2>4 DEF f
<1> QED BY Zenon, <1>1, <1>3, <1>4, <1>5 DEF Marked

\* Retention's step marks every servable row it takes, and lowers no mark.
LEMMA PruneMarksTaken ==
    ASSUME TypeInv, TypeInv', NEW cutoff \in Surviving, PruneSyncEvents(cutoff)
    PROVE  /\ MarksRise /\ pruned \subseteq pruned' /\ log' = log
           /\ \A e \in pruned' \ pruned : Servable(e) => Marked(e)'
<1> DEFINE S == {e \in Surviving : e <= cutoff}
           T == {e \in S : EnvelopeLive(e)}
<1>1. S \in SUBSET DOMAIN log /\ T \in SUBSET S
  BY Zenon DEF Surviving
<1>2. MarksFor(S, T) /\ log' = log /\ pruned' = pruned \cup S
  BY Zenon DEF PruneSyncEvents, PruneMarks
<1> HIDE DEF S, T
<1>3. /\ MarksRise
      /\ \A e \in S : e <= prunedThrough'
      /\ \A e \in S : log[e].acct \in Accounts => e <= acctMark'[log[e].acct][log[e].dev]
      /\ \A e \in T : log[e].acct = None /\ log[e].conv \in Conversations =>
            e <= convMark'[log[e].conv][log[e].kind \in RosterFiltered]
  BY <1>1, <1>2, MarksForRaises, Zenon DEF MarksRise
<1>4. ASSUME NEW e \in S, Servable(e)
      PROVE  Marked(e)'
  <2>1. e \in DOMAIN log
    BY Zenon, <1>1
  <2>2. log[e].acct \in Accounts \cup {None} /\ log[e].conv \in Conversations \cup {None}
    BY Zenon, <2>1, EventAt
  <2>3. log[e].acct = None => e \in T
    BY Zenon, <1>4 DEF Servable, T
  <2> QED BY Zenon, <1>2, <1>3, <2>2, <2>3 DEF Marked
<1> QED BY Zenon, <1>2, <1>3, <1>4

\* The inductive form of MarksCover: account events are marked whether or not
\* an envelope would hide them.
CoverInv == \A e \in pruned : e > LegacyThrough /\ Servable(e) => Marked(e)

LEMMA NextCover == TypeInv /\ CoverInv /\ [Next]_vars => CoverInv' /\ MarksRise /\ Fades /\ pruned \subseteq pruned'
<1> SUFFICES ASSUME TypeInv, CoverInv, [Next]_vars
             PROVE  CoverInv' /\ MarksRise /\ Fades /\ pruned \subseteq pruned'
  BY Zenon
<1>1. TypeInv' /\ Grows
  BY Zenon, NextType
<1>2. MessagesAge
  BY Zenon, StepAges
<1>3. Fades
  BY Zenon, <1>1, <1>2, AgeFades
<1> DEFINE Taken == \A e \in pruned' \ pruned : e \in DOMAIN log /\ (Servable(e) => Marked(e)')
<1>4. MarksRise /\ pruned \subseteq pruned' /\ Taken
  <2>1. CASE pruned' = pruned /\ UNCHANGED markVars
    BY Zenon, <2>1, UnchangedRise
  <2>2. ASSUME NEW cutoff \in Surviving, PruneSyncEvents(cutoff)
        PROVE  MarksRise /\ pruned \subseteq pruned' /\ Taken
    <3>1. pruned' \subseteq DOMAIN log' /\ log' = log
      BY <1>1, <2>2, PruneMarksTaken, Zenon DEF TypeInv, TypeOK
    <3> QED BY Zenon, <3>1, <1>1, <2>2, PruneMarksTaken
  <2> QED BY Zenon, <2>1, <2>2, StepAges
<1>5. \A e \in pruned : e \in DOMAIN log
  BY Zenon DEF TypeInv, TypeOK
<1>6. \A e \in DOMAIN log : Servable(e)' => Servable(e)
  BY Zenon, <1>1, <1>3 DEF Servable, Fades, Grows
<1>7. CoverInv'
  <2> SUFFICES ASSUME NEW e \in pruned', e > LegacyThrough, Servable(e)'
               PROVE  Marked(e)'
    BY Zenon DEF CoverInv
  <2>1. CASE e \in pruned
    <3>1. e \in DOMAIN log /\ Marked(e)
      BY Zenon, <2>1, <1>5, <1>6 DEF CoverInv
    <3> QED BY Zenon, <3>1, <1>1, <1>4, MarkedStays
  <2>2. CASE e \notin pruned
    BY Zenon, <2>2, <1>4, <1>6
  <2> QED BY Zenon, <2>1, <2>2
<1> QED BY Zenon, <1>3, <1>4, <1>7

LEMMA InitCover == Init => CoverInv
<1>1. LegacyThrough \in Nat /\ DOMAIN LegacyLog = 1..LegacyThrough
  BY LegacyAssumption DEF LegacyThrough
<1> QED BY <1>1 DEF Init, CoverInv

LEMMA Covering == Spec => []CoverInv
<1>1. TypeInv /\ CoverInv /\ [Next]_vars => CoverInv'
  BY Zenon, NextCover
<1> QED BY <1>1, InitCover, Typing, PTL DEF Spec

\* The prune marks cover every pruned event a device could still be sent:
\* the triggers of migration 0044 miss only events that are hidden for good.
THEOREM MarksCoverPruned == Spec => []MarksCover
<1>1. CoverInv => MarksCover
  BY Zenon DEF CoverInv, MarksCover, Servable
<1> QED BY <1>1, Covering, PTL

-----------------------------------------------------------------------------
(***************************************************************************)
(* A request that is under way.                                            *)
(***************************************************************************)

\* No write touches a request.
LEMMA WriteKeepsReads ==
    ASSUME Write
    PROVE  UNCHANGED readVars
<1>1. ASSUME NEW d \in Senders, NEW k \in Keys, NEW c \in Conversations, NEW timed \in BOOLEAN,
             NEW ep \in NamedEpochs(c), SaveMessageEnvelope(d, k, c, timed, ep)
      PROVE  UNCHANGED readVars
  BY Zenon, <1>1 DEF SaveMessageEnvelope
<1>2. ASSUME NEW m \in envelopes,
             \/ \E ep \in NamedEpochs(m.conv) : UpdateMessageEnvelope(m, ep)
             \/ DeleteMessageEnvelope(m) \/ Expire(m)
      PROVE  UNCHANGED readVars
  BY Zenon, <1>2 DEF UpdateMessageEnvelope, DeleteMessageEnvelope, Expire
<1>3. ASSUME NEW S \in SUBSET envelopes, NEW backfill \in BOOLEAN, PruneExpiredContent(S, backfill)
      PROVE  UNCHANGED readVars
  BY Zenon, <1>3 DEF PruneExpiredContent
<1>4. ASSUME NEW cutoff \in Surviving, PruneSyncEvents(cutoff)
      PROVE  UNCHANGED readVars
  BY Zenon, <1>4 DEF PruneSyncEvents
<1>5. ASSUME NEW a \in Accounts, NEW c \in Conversations, NEW others \in MemberLists,
             CreateConversation(a, c, others)
      PROVE  UNCHANGED readVars
  BY Zenon, <1>5 DEF CreateConversation
<1>6. ASSUME NEW a \in Accounts, NEW b \in Accounts, NEW c \in Conversations,
             \/ \E r \in GrantRoles : ManageConversationMember(a, b, c, r)
             \/ RemoveConversationMember(a, b, c)
      PROVE  UNCHANGED readVars
  BY Zenon, <1>6 DEF ManageConversationMember, RemoveConversationMember
<1>7. ASSUME NEW a \in Accounts, NEW b \in Accounts, BlockAccount(a, b) \/ UnblockAccount(a, b)
      PROVE  UNCHANGED readVars
  BY Zenon, <1>7 DEF BlockAccount, UnblockAccount
<1>8. ASSUME NEW d \in Devices, NEW c \in Conversations,
             \/ RegisterMLSGroup(d, c)
             \/ \E added \in AddLists, removed \in SUBSET Devices :
                   CreateMLSCommitBundle(d, c, added, removed)
      PROVE  UNCHANGED readVars
  BY Zenon, <1>8 DEF RegisterMLSGroup, CreateMLSCommitBundle
<1> QED BY <1>1, <1>2, <1>3, <1>4, <1>5, <1>6, <1>7, <1>8, Zenon DEF Write

\* The pruned events a page misses lie after the cursor and, but for those
\* from before the marks, are marked; the legacy test is for older cursors.
GapInv ==
    \A d \in Readers :
        /\ \A e \in gap[d] : /\ e \in pruned /\ e > cursor[d]
                             /\ e > LegacyThrough => Marked(e)
        /\ pc[d] = "legacy" => cursor[d] < LegacyThrough

\* A request of reader r changes only what belongs to r.
LEMMA ReadIsLocal ==
    ASSUME TypeInv, NEW r \in Readers, Read(r), NEW d \in Readers \ {r}
    PROVE  gap'[d] = gap[d] /\ cursor'[d] = cursor[d] /\ pc'[d] = pc[d]
BY Zenon DEF Read, ListSyncEventsPage, CheckPruneState, CheckPruneMarks, CheckLegacy, Answer, Proceed,
       TypeInv, TypeOK

\* A statement of r's request reads the gap, keeps it, or ends the request.
LEMMA ReadGap ==
    ASSUME TypeInv, NEW r \in Readers, Read(r)
    PROVE  /\ \/ gap'[r] = {}
              \/ gap'[r] = gap[r] /\ cursor'[r] = cursor[r]
              \/ gap'[r] = {e \in pruned : e > cursor[r] /\ Visible(r, e)} /\ cursor'[r] = cursor[r]
           /\ pc'[r] = "legacy" => cursor'[r] < LegacyThrough
BY Zenon DEF Read, ListSyncEventsPage, CheckPruneState, CheckPruneMarks, CheckLegacy, Answer, Proceed,
       TypeInv, TypeOK

LEMMA NextGap == TypeInv /\ CoverInv /\ GapInv /\ [Next]_vars => GapInv'
<1> SUFFICES ASSUME TypeInv, CoverInv, GapInv, [Next]_vars
             PROVE  GapInv'
  BY Zenon
<1>1. TypeInv' /\ Grows /\ MarksRise /\ pruned \subseteq pruned'
  BY Zenon, NextType, NextCover
<1>2. \A e \in pruned : e \in DOMAIN log /\ (Marked(e) => Marked(e)')
  BY Zenon, <1>1, MarkedStays, Zenon DEF TypeInv, TypeOK
<1>3. ASSUME NEW d \in Readers, gap'[d] = gap[d], cursor'[d] = cursor[d]
      PROVE  \A e \in gap'[d] : e \in pruned' /\ e > cursor'[d] /\ (e > LegacyThrough => Marked(e)')
  BY Zenon, <1>1, <1>2, <1>3 DEF GapInv
<1>4. CASE UNCHANGED readVars
  BY Zenon, <1>3, <1>4 DEF readVars, GapInv
<1>5. ASSUME NEW r \in Readers, Read(r)
      PROVE  GapInv'
  <2> SUFFICES ASSUME NEW d \in Readers
               PROVE  /\ \A e \in gap'[d] : /\ e \in pruned' /\ e > cursor'[d]
                                            /\ e > LegacyThrough => Marked(e)'
                      /\ pc'[d] = "legacy" => cursor'[d] < LegacyThrough
    BY Zenon DEF GapInv
  <2>1. CASE d # r
    BY Zenon, <2>1, <1>3, <1>5, ReadIsLocal DEF GapInv
  <2>2. CASE d = r
    <3>1. CASE gap'[r] = {}
      BY Zenon, <3>1, <2>2, <1>5, ReadGap
    <3>2. CASE gap'[r] = gap[r] /\ cursor'[r] = cursor[r]
      BY Zenon, <3>2, <2>2, <1>3, <1>5, ReadGap
    <3>3. CASE gap'[r] = {e \in pruned : e > cursor[r] /\ Visible(r, e)} /\ cursor'[r] = cursor[r]
      <4>1. \A e \in pruned : Visible(r, e) => Servable(e)
        BY Zenon, OwnerAssumption, NoneAssumption, RolesAssumption DEF Visible, Servable, OwnEvent
      <4>2. \A e \in gap'[r] : e > LegacyThrough => Marked(e)'
        BY Zenon, <3>3, <4>1, <1>2 DEF CoverInv
      <4> QED BY Zenon, <3>3, <4>2, <2>2, <1>1, <1>5, ReadGap
    <3> QED BY Zenon, <1>5, <3>1, <3>2, <3>3, ReadGap
  <2> QED BY Zenon, <2>1, <2>2
<1>6. Write => UNCHANGED readVars
  BY Zenon, WriteKeepsReads
<1>7. CASE UNCHANGED vars
  BY Zenon, <1>4, <1>7 DEF vars
<1> QED BY Zenon, <1>4, <1>5, <1>6, <1>7 DEF Next

LEMMA InitGap == Init => GapInv
BY Zenon DEF Init, GapInv

\* The marks test finds every marked event after the cursor that is in scope.
LEMMA MarksFound ==
    ASSUME TypeInv, NEW d \in Readers, NEW e \in DOMAIN log, Marked(e), e > cursor[d], InScope(d, e)
    PROVE  MarksExpired(d, cursor[d])
<1>1. d \in Devices /\ Owner[d] \in Accounts /\ cursor[d] \in Nat /\ e \in Nat
  BY Zenon, RolesAssumption, OwnerAssumption, EventAt DEF TypeInv, TypeOK
<1>2. CASE OwnEvent(d, e)
  <2>1. log[e].acct = Owner[d] /\ log[e].acct # None /\ log[e].dev \in {None, d}
    BY Zenon, <1>1, <1>2, NoneAssumption DEF OwnEvent
  <2>2. e <= acctMark[Owner[d]][log[e].dev] /\ acctMark[Owner[d]][log[e].dev] \in Nat
    BY <1>1, <2>1 DEF Marked, TypeInv, TypeOK
  <2>3. acctMark[Owner[d]][log[e].dev] > cursor[d]
    BY <1>1, <2>2
  <2> QED BY Zenon, <2>1, <2>3, Zenon DEF MarksExpired, AccountExpired
<1>3. CASE ConversationEvent(d, e) /\ (log[e].kind \in RosterFiltered => InWindow(d, e))
  <2> DEFINE c == log[e].conv
             f == log[e].kind \in RosterFiltered
             w == roster[c][d]
  <2>1. c \in Conversations /\ log[e].acct = None /\ Member(Owner[d], c) /\ c # None
    BY Zenon, <1>3, EventAt DEF ConversationEvent
  <2>2. e <= convMark[c][f]
    BY Zenon, <2>1 DEF Marked
  <2>3. f \in BOOLEAN
    OBVIOUS
  <2> HIDE DEF c, f
  <2> DEFINE plain == convMark[c][FALSE]
             filtered == convMark[c][TRUE]
  <2>4. plain \in Nat /\ filtered \in Nat
    BY Zenon, <2>1, ZenonT(60) DEF TypeInv, TypeOK
  <2>5. CASE ~f
    <3>1. e <= plain
      BY <2>2, <2>3, <2>5, Zenon
    <3>2. plain > cursor[d]
      <4> HIDE DEF plain, filtered
      <4> QED BY <3>1, <2>4, <1>1
    <3> QED BY <3>2, <2>1, Zenon DEF MarksExpired
  <2>6. CASE f
    <3>1. e <= filtered
      BY Zenon, <2>2, <2>3, <2>6, Zenon
    <3>2. w \in Window
      BY <1>1, <2>1 DEF TypeInv, TypeOK
    <3>3. c \notin groups \/ (w.row /\ e > w.joined /\ (w.removed = 0 \/ e <= w.removed))
      BY Zenon, <1>3, <2>6 DEF InWindow, c, f
    <3>4. filtered > cursor[d] /\ (c \notin groups \/ WindowCounts(w, filtered, cursor[d]))
      <4> HIDE DEF plain, filtered, w
      <4> QED BY <3>1, <3>2, <3>3, <2>4, <1>1 DEF WindowCounts, Window
    <3> QED BY <3>4, <2>1, Zenon DEF MarksExpired
  <2> QED BY Zenon, <2>5, <2>6
<1> QED BY Zenon, <1>2, <1>3 DEF InScope

\* ListSyncEvents never answers over a hole, however its four statements
\* interleave with retention, senders, membership changes and commits.
THEOREM NeverSilentGap == Spec => NoSilentGap
<1> DEFINE Gapless == \A d \in Readers :
              Answered(d) /\ cursor[d] >= LegacyThrough => \A e \in gap[d] : ~InScope(d, e)
<1>1. TypeInv /\ CoverInv /\ GapInv /\ [Next]_vars => [Gapless]_vars
  <2> SUFFICES ASSUME TypeInv, GapInv, Next, NEW d \in Readers,
                      Answered(d), cursor[d] >= LegacyThrough, NEW e \in gap[d], InScope(d, e)
               PROVE  FALSE
    BY Zenon DEF Gapless
  <2>1. e \in DOMAIN log /\ e > cursor[d] /\ Marked(e) /\ cursor[d] \in Nat /\ LegacyThrough \in Nat
    <3>1. e \in DOMAIN log /\ e > cursor[d] /\ cursor[d] \in Nat
      BY Zenon DEF GapInv, TypeInv, TypeOK
    <3>2. LegacyThrough \in Nat
      BY LegacyAssumption DEF LegacyThrough
    <3>3. e \in Nat
      BY Zenon, <3>1, EventAt
    <3>4. e > LegacyThrough
      BY <3>1, <3>2, <3>3
    <3> QED BY Zenon, <3>1, <3>2, <3>4 DEF GapInv
  <2>2. MarksExpired(d, cursor[d])
    BY Zenon, <2>1, MarksFound
  <2>3. cursor[d] < prunedThrough
    <3>1. e \in Nat
      BY <2>1, EventAt, Zenon
    <3>2. e <= prunedThrough
      BY <2>1, Zenon DEF Marked
    <3>3. prunedThrough \in Nat
      BY Zenon DEF TypeInv, TypeOK
    <3> QED BY <3>1, <3>2, <3>3, <2>1
  <2>4. Read(d)
    <3>1. ~Write
      BY Zenon, WriteKeepsReads DEF readVars, Answered
    <3>2. PICK r \in Readers : Read(r)
      BY Zenon, <3>1 DEF Next
    <3>3. r = d
      BY Zenon, <3>2, ReadIsLocal DEF Answered
    <3> QED BY Zenon, <3>2, <3>3
  <2>5. ~ListSyncEventsPage(d)
    BY Zenon DEF ListSyncEventsPage, Answered
  <2>6. ~CheckPruneState(d)
    BY <2>1, <2>3 DEF CheckPruneState, Proceed, Answered, TypeInv, TypeOK
  <2>7. ~CheckPruneMarks(d)
    BY ZenonT(60), <2>2 DEF CheckPruneMarks, Proceed, Answered, TypeInv, TypeOK
  <2>8. ~CheckLegacy(d)
    BY <2>1 DEF CheckLegacy, GapInv
  <2> QED BY Zenon, <2>4, <2>5, <2>6, <2>7, <2>8 DEF Read
<1>2. Spec => []GapInv
  BY NextGap, InitGap, Typing, Covering, PTL DEF Spec
<1>3. [][Gapless]_vars => NoSilentGap
  BY Zenon DEF NoSilentGap
<1> QED BY <1>1, <1>2, <1>3, Typing, Covering, PTL DEF Spec

-----------------------------------------------------------------------------
(***************************************************************************)
(* Ciphertext copies.                                                      *)
(***************************************************************************)

\* Where only the log changes, by rows that are not message events.
LEMMA OtherRowsKeep ==
    ASSUME TypeInv, NoOrphanedCopy, Grows, UNCHANGED <<envelopes, deleted, redacted>>,
           pruned \subseteq pruned',
           \A e \in DOMAIN log' : e \notin DOMAIN log => log'[e].kind \notin MessageKinds
    PROVE  NoOrphanedCopy'
BY ZenonT(60) DEF NoOrphanedCopy, Surviving, Grows

LEMMA SaveKeeps ==
    ASSUME TypeInv, NoOrphanedCopy, NEW d \in Devices, NEW k \in Keys, NEW c \in Conversations,
           NEW timed \in BOOLEAN, NEW ep, SaveMessageEnvelope(d, k, c, timed, ep), Grows
    PROVE  NoOrphanedCopy'
<1> DEFINE id == Len(log) + 1
           gone == {m \in envelopes : (m.dev = d /\ m.key = k) /\ m.id \in expired}
           mine == [id |-> id, dev |-> d, key |-> k, conv |-> c, timed |-> timed]
<1>1. Len(log) \in Nat /\ DOMAIN log = 1..Len(log) /\ log \in Seq(Event)
  BY DEF TypeInv, TypeOK
<1>2. /\ log' = Append(log, EventRow("created", None, None, c, id, Owner[d], ep))
      /\ envelopes' = (envelopes \ gone) \cup {mine}
      /\ redacted' = redacted \cup Copies({m.id : m \in gone}, MessageKinds)
      /\ pruned' = pruned /\ deleted' = deleted
  BY Zenon DEF SaveMessageEnvelope
<1>3. DOMAIN log' = 1..id /\ log'[id].msg = id /\ \A e \in DOMAIN log : log'[e] = log[e]
  BY <1>1, <1>2 DEF EventRow, Grows
<1> SUFFICES ASSUME NEW e \in DOMAIN log', e \notin pruned', e \notin redacted',
                    log'[e].kind \in MessageKinds
             PROVE  /\ \E m \in envelopes' : m.id = log'[e].msg
                    /\ log'[e].msg \in deleted' => log'[e].kind = "deleted"
  BY Zenon DEF NoOrphanedCopy, Surviving
<1>4. CASE e = id
  <2>1. mine \in envelopes' /\ mine.id = id
    BY Zenon, <1>2
  <2>2. deleted \subseteq 1..Len(log)
    BY Zenon, <1>1 DEF TypeInv, TypeOK
  <2>3. id \notin deleted
    BY <1>1, <2>2
  <2> QED BY Zenon, <1>2, <1>3, <1>4, <2>1, <2>3, Zenon
<1>5. CASE e \in DOMAIN log
  <2>1. e \in Surviving \ redacted /\ log'[e] = log[e]
    BY Zenon, <1>2, <1>3, <1>5 DEF Surviving
  <2>2. log[e].msg \notin {m.id : m \in gone}
    BY Zenon, <1>2, <2>1 DEF Copies
  <2>3. PICK m \in envelopes : m.id = log[e].msg
    BY Zenon, <2>1 DEF NoOrphanedCopy
  <2>4. m \in envelopes'
    BY Zenon, <1>2, <2>2, <2>3
  <2> QED BY Zenon, <1>2, <2>1, <2>3, <2>4 DEF NoOrphanedCopy
<1> QED BY <1>1, <1>3, <1>4, <1>5

LEMMA ChangeKeeps ==
    ASSUME TypeInv, NoOrphanedCopy, NEW m \in envelopes, Grows,
           \/ \E ep \in NamedEpochs(m.conv) : UpdateMessageEnvelope(m, ep)
           \/ DeleteMessageEnvelope(m)
    PROVE  NoOrphanedCopy'
<1> DEFINE id == Len(log) + 1
<1>1. Len(log) \in Nat /\ DOMAIN log = 1..Len(log) /\ log \in Seq(Event)
  BY DEF TypeInv, TypeOK
<1>2. envelopes' = envelopes /\ pruned' = pruned
  BY Zenon DEF UpdateMessageEnvelope, DeleteMessageEnvelope, msgVars
<1> DEFINE Change ==
          /\ DOMAIN log' = 1..id /\ log'[id].msg = m.id
          /\ \A e \in DOMAIN log : log'[e] = log[e]
          /\ \/ m.id \notin deleted /\ deleted' = deleted /\ redacted' = redacted
             \/ /\ log'[id].kind = "deleted" /\ deleted' = deleted \cup {m.id}
                /\ redacted' = redacted \cup Copies({m.id}, VersionKinds)
<1>3. Change
  <2>1. ASSUME NEW ep \in NamedEpochs(m.conv), UpdateMessageEnvelope(m, ep)
        PROVE  Change
    BY <2>1, <1>1 DEF UpdateMessageEnvelope, Mutable, EventRow, Grows, msgVars
  <2>2. CASE DeleteMessageEnvelope(m)
    BY <2>2, <1>1 DEF DeleteMessageEnvelope, EventRow, Grows
  <2> QED BY <2>1, <2>2, ZenonT(60)
<1> SUFFICES ASSUME NEW e \in DOMAIN log', e \notin pruned', e \notin redacted',
                    log'[e].kind \in MessageKinds
             PROVE  /\ \E x \in envelopes' : x.id = log'[e].msg
                    /\ log'[e].msg \in deleted' => log'[e].kind = "deleted"
  BY Zenon DEF NoOrphanedCopy, Surviving
<1>4. CASE e = id
  BY Zenon, <1>2, <1>3, <1>4
<1>5. CASE e \in DOMAIN log
  <2>1. e \in Surviving \ redacted /\ log'[e] = log[e]
    BY Zenon, <1>2, <1>3, <1>5 DEF Surviving
  <2>2. log[e].msg = m.id /\ deleted' # deleted => log[e].kind \notin VersionKinds
    BY Zenon, <1>3, <2>1 DEF Copies
  <2>3. /\ \E x \in envelopes : x.id = log[e].msg
        /\ log[e].msg \in deleted => log[e].kind = "deleted"
    BY Zenon, <2>1 DEF NoOrphanedCopy
  <2>4. log[e].msg \in deleted' => log[e].msg \in deleted \/ (log[e].msg = m.id /\ deleted' # deleted)
    BY Zenon, <1>3
  <2>5. log[e].kind \notin VersionKinds => log[e].kind = "deleted"
    BY Zenon, <2>1 DEF MessageKinds, VersionKinds
  <2> QED BY Zenon, <1>2, <2>1, <2>2, <2>3, <2>4, <2>5
<1> QED BY <1>1, <1>3, <1>4, <1>5

LEMMA SweepKeeps ==
    ASSUME TypeInv, NoOrphanedCopy, NEW S \in SUBSET envelopes, NEW backfill \in BOOLEAN,
           PruneExpiredContent(S, backfill)
    PROVE  NoOrphanedCopy'
<1>1. /\ log' = log /\ pruned' = pruned /\ deleted' = deleted /\ envelopes' = envelopes \ S
      /\ redacted \cup Copies({m.id : m \in S}, MessageKinds) \subseteq redacted'
  BY Zenon DEF PruneExpiredContent
<1> SUFFICES ASSUME NEW e \in Surviving, e \notin redacted', log[e].kind \in MessageKinds
             PROVE  /\ \E m \in envelopes' : m.id = log[e].msg
                    /\ log[e].msg \in deleted => log[e].kind = "deleted"
  BY Zenon, <1>1 DEF NoOrphanedCopy, Surviving
<1>2. e \notin redacted /\ log[e].msg \notin {m.id : m \in S}
  BY Zenon, <1>1 DEF Copies
<1>3. PICK m \in envelopes : m.id = log[e].msg
  BY Zenon, <1>2 DEF NoOrphanedCopy
<1> QED BY Zenon, <1>1, <1>2, <1>3 DEF NoOrphanedCopy

\* The rows appended by a membership change or a commit are not message events.
LEMMA OtherRows ==
    ASSUME TypeInv, NEW new \in Seq(Event), log' = log \o new,
           \A i \in DOMAIN new : new[i].kind \notin MessageKinds
    PROVE  \A e \in DOMAIN log' : e \notin DOMAIN log => log'[e].kind \notin MessageKinds
<1>1. /\ log \in Seq(Event) /\ Len(log) \in Nat /\ DOMAIN log = 1..Len(log)
      /\ Len(new) \in Nat /\ DOMAIN new = 1..Len(new)
  BY DEF TypeInv, TypeOK
<1>2. DOMAIN log' = 1..(Len(log) + Len(new))
  BY <1>1
<1> SUFFICES ASSUME NEW e \in DOMAIN log', e \notin DOMAIN log
             PROVE  log'[e].kind \notin MessageKinds
  BY Zenon
<1>3. e - Len(log) \in 1..Len(new) /\ log'[e] = new[e - Len(log)]
  BY <1>1, <1>2
<1> QED BY Zenon, <1>1, <1>3

LEMMA MembershipRows ==
    ASSUME TypeInv, NEW a \in Accounts, NEW b \in Accounts,
           NEW c \in Conversations,
           \/ \E others \in MemberLists : CreateConversation(a, c, others)
           \/ \E r \in GrantRoles : ManageConversationMember(a, b, c, r)
           \/ RemoveConversationMember(a, b, c)
    PROVE  \A e \in DOMAIN log' : e \notin DOMAIN log => log'[e].kind \notin MessageKinds
<1> DEFINE Row(x, y) == EventRow("membership", x, None, y, 0, None, NoEpoch)
<1>2. \A x \in Accounts \cup {None}, y \in Conversations \cup {None} :
         Row(x, y) \in Event /\ Row(x, y).kind \notin MessageKinds
  BY Zenon DEF EventRow, Event, Kinds, MessageKinds
<1>3. \E new \in Seq(Event) :
         log' = log \o new /\ \A i \in DOMAIN new : new[i].kind \notin MessageKinds
  <2>1. ASSUME NEW others \in MemberLists, CreateConversation(a, c, others)
        PROVE  <1>3!:
    <3> DEFINE new == [i \in 1..Len(others) |-> Row(others[i], c)]
    <3>1. others \in Seq(Accounts) /\ Len(others) \in Nat
      BY ListsAssumption
    <3>2. \A i \in 1..Len(others) : Row(others[i], c) \in Event /\ Row(others[i], c).kind \notin MessageKinds
      BY <1>2, <3>1
    <3> HIDE DEF Row
    <3>3. new \in Seq(Event) /\ \A i \in DOMAIN new : new[i].kind \notin MessageKinds
      BY <3>1, <3>2
    <3>4. log' = log \o new
      BY Zenon, <2>1 DEF CreateConversation, Row
    <3> QED BY <3>3, <3>4, Zenon
  <2>2. ASSUME NEW r \in GrantRoles, ManageConversationMember(a, b, c, r)
        PROVE  <1>3!:
    <3>1. log' = Append(log, Row(None, c))
      BY Zenon, <2>2 DEF ManageConversationMember
    <3>2. Row(None, c) \in Event /\ Row(None, c).kind \notin MessageKinds
      BY Zenon, <1>2
    <3> HIDE DEF Row
    <3>3. log' = log \o <<Row(None, c)>> /\ <<Row(None, c)>> \in Seq(Event)
      BY <3>1, <3>2 DEF TypeInv, TypeOK
    <3>4. \A i \in DOMAIN <<Row(None, c)>> : <<Row(None, c)>>[i].kind \notin MessageKinds
      BY <3>2
    <3> QED BY <3>3, <3>4, Zenon
  <2>3. CASE RemoveConversationMember(a, b, c)
    <3> DEFINE new == <<Row(None, c), Row(b, None)>>
    <3>1. log' = log \o new
      BY Zenon, <2>3 DEF RemoveConversationMember
    <3>2. /\ Row(None, c) \in Event /\ Row(None, c).kind \notin MessageKinds
          /\ Row(b, None) \in Event /\ Row(b, None).kind \notin MessageKinds
      BY Zenon, <1>2
    <3> HIDE DEF Row
    <3>3. new \in Seq(Event) /\ \A i \in DOMAIN new : new[i].kind \notin MessageKinds
      BY <3>2
    <3> QED BY <3>1, <3>3, Zenon
  <2> QED BY <2>1, <2>2, <2>3, Zenon
<1> QED BY Zenon, <1>3, OtherRows

LEMMA MembershipKeeps ==
    ASSUME TypeInv, NoOrphanedCopy, Grows, NEW a \in Accounts, NEW b \in Accounts,
           NEW c \in Conversations,
           \/ \E others \in MemberLists : CreateConversation(a, c, others)
           \/ \E r \in GrantRoles : ManageConversationMember(a, b, c, r)
           \/ RemoveConversationMember(a, b, c)
    PROVE  NoOrphanedCopy'
<1>1. UNCHANGED <<envelopes, deleted, redacted, pruned>>
  BY Zenon DEF CreateConversation, ManageConversationMember, RemoveConversationMember, msgVars
<1> QED BY Zenon, <1>1, MembershipRows, OtherRowsKeep

\* A commit of conversation c.
IsCommit(row, c) == row.kind = "commit" /\ row.acct = None /\ row.conv = c

\* The Welcome of device x to conversation c.
IsWelcome(row, c, x) == row.kind = "welcome" /\ row.acct # None /\ row.dev = x /\ row.conv = c

\* A bundle appends the commit and then the Welcomes, in the order of added.
LEMMA CommitRows ==
    ASSUME TypeInv, NEW d \in Devices, NEW c \in Conversations,
           NEW added \in AddLists, NEW removed \in SUBSET Devices,
           CreateMLSCommitBundle(d, c, added, removed)
    PROVE  /\ Len(log) + 1 \in DOMAIN log' /\ IsCommit(log'[Len(log) + 1], c)
           /\ \A i \in 1..Len(added) : /\ Len(log) + 1 + i \in DOMAIN log'
                                       /\ IsWelcome(log'[Len(log) + 1 + i], c, added[i])
           /\ \A e \in DOMAIN log' : e \in DOMAIN log \/ e - (Len(log) + 1) \in 0..Len(added)
<1> DEFINE commit == EventRow("commit", None, None, c, 0, None, NoEpoch)
           welcomes == WelcomeRows(c, added)
<1>1. added \in Seq(Devices) /\ Len(added) \in Nat /\ log \in Seq(Event) /\ Len(log) \in Nat
  BY ListsAssumption DEF TypeInv, TypeOK
<1>2. commit \in Event /\ IsCommit(commit, c)
  BY Zenon DEF EventRow, Event, Kinds, IsCommit
<1>3. /\ welcomes \in Seq(Event) /\ Len(welcomes) = Len(added)
      /\ \A i \in 1..Len(added) : IsWelcome(welcomes[i], c, added[i])
  <2>1. \A i \in 1..Len(added) : added[i] \in Devices /\ Owner[added[i]] \in Accounts
    BY <1>1, OwnerAssumption
  <2>2. \A i \in 1..Len(added) : welcomes[i] \in Event /\ IsWelcome(welcomes[i], c, added[i])
    BY Zenon, <2>1, NoneAssumption DEF WelcomeRows, EventRow, Event, Kinds, IsWelcome
  <2> QED BY <1>1, <2>2 DEF WelcomeRows
<1>4. log' = Append(log, commit) \o welcomes
  BY Zenon DEF CreateMLSCommitBundle
<1> HIDE DEF commit, welcomes
<1> DEFINE head == Append(log, commit)
<1>5. Len(head) = Len(log) + 1 /\ head \in Seq(Event) /\ head[Len(log) + 1] = commit
  BY <1>1, <1>2
<1> HIDE DEF head
<1>6. log' \in Seq(Event) /\ Len(log') = Len(log) + 1 + Len(added)
  <2>1. log' = head \o welcomes
    BY Zenon, <1>4 DEF head
  <2>2. log' \in Seq(Event)
    BY <1>3, <1>5, <2>1
  <2>3. head \in Seq(Event) /\ welcomes \in Seq(Event)
    BY Zenon, <1>3, <1>5
  <2>4. Len(head \o welcomes) = Len(head) + Len(welcomes)
    BY <2>3
  <2> QED BY Zenon, <1>3, <1>5, <2>1, <2>2, <2>4
<1>7. log'[Len(log) + 1] = commit
  <2>1. log' = head \o welcomes
    BY Zenon, <1>4 DEF head
  <2> QED BY <1>1, <1>3, <1>5, <2>1
<1>8. \A i \in 1..Len(added) : log'[Len(log) + 1 + i] = welcomes[i]
  <2>1. log' = head \o welcomes
    BY Zenon, <1>4 DEF head
  <2> QED BY <1>1, <1>3, <1>5, <2>1
<1>9. \A i \in 0..Len(added) : Len(log) + 1 + i \in DOMAIN log'
  BY <1>1, <1>6
<1>10. \A e \in DOMAIN log' : e \in DOMAIN log \/ e - (Len(log) + 1) \in 0..Len(added)
  BY <1>1, <1>6
<1>11. Len(log) + 1 \in DOMAIN log' /\ \A i \in 1..Len(added) : i \in 0..Len(added)
  BY <1>1, <1>6
<1> QED BY Zenon, <1>2, <1>3, <1>7, <1>8, <1>9, <1>10, <1>11

\* None of them is a message event.
LEMMA CommitIsNoMessage ==
    ASSUME TypeInv, NEW d \in Devices, NEW c \in Conversations,
           NEW added \in AddLists, NEW removed \in SUBSET Devices,
           CreateMLSCommitBundle(d, c, added, removed)
    PROVE  \A e \in DOMAIN log' : e \notin DOMAIN log => log'[e].kind \notin MessageKinds
<1> SUFFICES ASSUME NEW e \in DOMAIN log', e \notin DOMAIN log PROVE log'[e].kind \notin MessageKinds
  BY Zenon
<1>1. e - (Len(log) + 1) \in 0..Len(added)
  BY Zenon, CommitRows
<1>2. Len(log) \in Nat /\ Len(added) \in Nat
  BY ListsAssumption DEF TypeInv, TypeOK
<1>3. e \in Nat
  <2>1. TypeInv'
    BY Zenon, CreateMLSCommitBundleType
  <2>2. log' \in Seq(Event)
    BY Zenon, <2>1 DEF TypeInv, TypeOK
  <2> QED BY <2>2
<1>4. e = Len(log) + 1 \/ \E i \in 1..Len(added) : e = Len(log) + 1 + i
  BY <1>1, <1>2, <1>3
<1>5. log'[e].kind \in {"commit", "welcome"}
  <2>1. CASE e = Len(log) + 1
    BY Zenon, <2>1, CommitRows DEF IsCommit
  <2>2. ASSUME NEW i \in 1..Len(added), e = Len(log) + 1 + i PROVE log'[e].kind = "welcome"
    <3>1. \A j \in 1..Len(added) : IsWelcome(log'[Len(log) + 1 + j], c, added[j])
      BY Zenon, CommitRows
    <3> QED BY Zenon, <2>2, <3>1 DEF IsWelcome
  <2> QED BY Zenon, <1>4, <2>1, <2>2
<1> QED BY <1>5 DEF MessageKinds

LEMMA CommitKeeps ==
    ASSUME TypeInv, NoOrphanedCopy, Grows, NEW d \in Devices, NEW c \in Conversations,
           NEW added \in AddLists, NEW removed \in SUBSET Devices,
           CreateMLSCommitBundle(d, c, added, removed)
    PROVE  NoOrphanedCopy'
<1>1. UNCHANGED <<envelopes, deleted, redacted, pruned>>
  BY Zenon DEF CreateMLSCommitBundle, msgVars
<1> QED BY Zenon, <1>1, CommitIsNoMessage, OtherRowsKeep

\* No event of the log keeps the ciphertext of a message that is gone, nor a
\* superseded one of a message that was deleted.
THEOREM CopiesRedacted == Spec => []NoOrphanedCopy
<1>1. Init => NoOrphanedCopy
  BY Zenon DEF Init, NoOrphanedCopy, Surviving
<1>2. TypeInv /\ NoOrphanedCopy /\ [Next]_vars => NoOrphanedCopy'
  <2> SUFFICES ASSUME TypeInv, NoOrphanedCopy, [Next]_vars
               PROVE  NoOrphanedCopy'
    BY Zenon
  <2>1. Grows
    BY Zenon, NextType
  <2>2. ASSUME UNCHANGED <<log, envelopes, deleted, redacted>>, pruned \subseteq pruned'
        PROVE  NoOrphanedCopy'
    BY Zenon, <2>1, <2>2, OtherRowsKeep
  <2>3. ASSUME NEW d \in Senders, NEW k \in Keys, NEW c \in Conversations, NEW timed \in BOOLEAN,
               NEW ep \in NamedEpochs(c), SaveMessageEnvelope(d, k, c, timed, ep)
        PROVE  NoOrphanedCopy'
    BY Zenon, <2>1, <2>3, RolesAssumption, SaveKeeps
  <2>4. ASSUME NEW m \in envelopes,
               (\E ep \in NamedEpochs(m.conv) : UpdateMessageEnvelope(m, ep)) \/ DeleteMessageEnvelope(m)
        PROVE  NoOrphanedCopy'
    BY Zenon, <2>1, <2>4, ChangeKeeps
  <2>5. ASSUME NEW m \in envelopes, Expire(m) PROVE NoOrphanedCopy'
    BY Zenon, <2>2, <2>5 DEF Expire, logVars
  <2>6. ASSUME NEW S \in SUBSET envelopes, NEW backfill \in BOOLEAN, PruneExpiredContent(S, backfill)
        PROVE  NoOrphanedCopy'
    BY Zenon, <2>6, SweepKeeps
  <2>7. ASSUME NEW cutoff \in Surviving, PruneSyncEvents(cutoff) PROVE NoOrphanedCopy'
    BY Zenon, <2>2, <2>7 DEF PruneSyncEvents, msgVars
  <2>8. ASSUME NEW a \in Accounts, NEW b \in Accounts, NEW c \in Conversations,
               \/ \E others \in MemberLists : CreateConversation(a, c, others)
               \/ \E r \in GrantRoles : ManageConversationMember(a, b, c, r)
               \/ RemoveConversationMember(a, b, c)
        PROVE  NoOrphanedCopy'
    BY Zenon, <2>1, <2>8, MembershipKeeps
  <2>9. ASSUME NEW a \in Accounts, NEW b \in Accounts, BlockAccount(a, b) \/ UnblockAccount(a, b)
        PROVE  NoOrphanedCopy'
    BY Zenon, <2>2, <2>9 DEF BlockAccount, UnblockAccount, logVars, msgVars
  <2>10. ASSUME NEW d \in Devices, NEW c \in Conversations, RegisterMLSGroup(d, c)
         PROVE  NoOrphanedCopy'
    BY Zenon, <2>2, <2>10 DEF RegisterMLSGroup, logVars, msgVars
  <2>11. ASSUME NEW d \in Devices, NEW c \in Conversations, NEW added \in AddLists,
                NEW removed \in SUBSET Devices, CreateMLSCommitBundle(d, c, added, removed)
         PROVE  NoOrphanedCopy'
    BY Zenon, <2>1, <2>11, CommitKeeps
  <2>12. CASE Write
    BY Zenon, <2>12, <2>3, <2>4, <2>5, <2>6, <2>7, <2>8, <2>9, <2>10, <2>11, ZenonT(60) DEF Write
  <2>13. ASSUME NEW d \in Readers, Read(d) PROVE NoOrphanedCopy'
    BY Zenon, <2>2, <2>13 DEF Read, ListSyncEventsPage, CheckPruneState, CheckPruneMarks, CheckLegacy,
                       logVars, msgVars
  <2>14. CASE UNCHANGED vars
    BY Zenon, <2>2, <2>14 DEF vars, logVars, msgVars
  <2> QED BY Zenon, <2>12, <2>13, <2>14 DEF Next
<1> QED BY <1>1, <1>2, Typing, PTL DEF Spec
-----------------------------------------------------------------------------
(***************************************************************************)
(* Joins and removals.                                                     *)
(***************************************************************************)

\* The Welcome of device x's join, at id j, to conversation k is in log l, and
\* only rows of accounts' own chains lie between the two.
Welcomed(l, k, x, j) ==
    \E w \in DOMAIN l :
        /\ j < w /\ IsWelcome(l[w], k, x)
        /\ \A f \in DOMAIN l : j < f /\ f <= w => l[f].acct # None

\* Every join was welcomed in the transaction that made it.
JoinInv ==
    \A k \in Conversations, x \in Devices :
        roster[k][x].joined # 0 => Welcomed(log, k, x, roster[k][x].joined)

\* A window starts and ends with a commit of the step.
RosterMoves ==
    \A k \in Conversations, x \in Devices :
        /\ \/ roster'[k][x].joined \in {0, roster[k][x].joined}
           \/ Welcomed(log', k, x, roster'[k][x].joined)
        /\ LET r == roster'[k][x].removed
           IN  \/ r \in {0, roster[k][x].removed}
               \/ r \in DOMAIN log' \ DOMAIN log /\ IsCommit(log'[r], k)

\* The Welcome of the i-th device of a bundle.
LEMMA BundleWelcomes ==
    ASSUME TypeInv, NEW d \in Devices, NEW c \in Conversations,
           NEW added \in AddLists, NEW removed \in SUBSET Devices,
           CreateMLSCommitBundle(d, c, added, removed), NEW i \in 1..Len(added)
    PROVE  Welcomed(log', c, added[i], Len(log) + 1)
<1> DEFINE id == Len(log) + 1
<1>1. id \in Nat /\ Len(added) \in Nat /\ i \in Nat /\ i >= 1 /\ i <= Len(added)
  BY ListsAssumption DEF TypeInv, TypeOK
<1>2. \A j \in 1..Len(added) : id + j \in DOMAIN log' /\ IsWelcome(log'[id + j], c, added[j])
  BY Zenon, CommitRows
<1>3. log' \in Seq(Event)
  <2>1. TypeInv'
    BY Zenon, CreateMLSCommitBundleType
  <2> QED BY Zenon, <2>1 DEF TypeInv, TypeOK
<1>4. ASSUME NEW f \in DOMAIN log', id < f, f <= id + i PROVE log'[f].acct # None
  <2>1. f \in Nat
    BY <1>3
  <2> HIDE DEF id
  <2>2. f - id \in 1..Len(added) /\ f = id + (f - id)
    BY <1>1, <1>4, <2>1
  <2>3. IsWelcome(log'[id + (f - id)], c, added[f - id])
    BY Zenon, <1>2, <2>2
  <2> QED BY Zenon, <2>2, <2>3 DEF IsWelcome
<1>5. id < id + i
  BY <1>1
<1> HIDE DEF id
<1>6. Welcomed(log', c, added[i], id)
  BY Zenon, <1>2, <1>4, <1>5 DEF Welcomed
<1> QED BY Zenon, <1>6 DEF id

LEMMA CommitMoves ==
    ASSUME TypeInv, NEW d \in Devices, NEW c \in Conversations,
           NEW added \in AddLists, NEW removed \in SUBSET Devices,
           CreateMLSCommitBundle(d, c, added, removed)
    PROVE  RosterMoves
<1> DEFINE id == Len(log) + 1
           new == {added[i] : i \in 1..Len(added)}
<1>0. /\ id \in DOMAIN log' \ DOMAIN log /\ IsCommit(log'[id], c)
      /\ \A x \in Devices : roster[c][x] \in Window
  <2>1. id \notin DOMAIN log
    BY DEF TypeInv, TypeOK
  <2>2. \A x \in Devices : roster[c][x] \in Window
    BY Zenon DEF TypeInv, TypeOK
  <2> QED BY Zenon, <2>1, <2>2, CommitRows
<1>1. \A x \in new : Welcomed(log', c, x, id)
  BY Zenon, BundleWelcomes
<1>2. roster' = [roster EXCEPT ![c] = [x \in Devices |->
              IF x \in new THEN JoinWindow(id, c)
              ELSE IF x \in removed THEN [roster[c][x] EXCEPT !.removed = id]
              ELSE IF c \notin groups /\ x = d THEN Creator
              ELSE roster[c][x]]]
  BY Zenon DEF CreateMLSCommitBundle
<1> HIDE DEF new, id
<1>3. ASSUME NEW k \in Conversations, NEW x \in Devices, k # c PROVE roster'[k][x] = roster[k][x]
  BY Zenon, <1>2, <1>3 DEF TypeInv, TypeOK
<1>4. ASSUME NEW x \in Devices
      PROVE  roster'[c][x] \in {JoinWindow(id, c), [roster[c][x] EXCEPT !.removed = id], Creator, roster[c][x]}
  BY Zenon, <1>2 DEF TypeInv, TypeOK
<1>5. ASSUME NEW x \in Devices, x \notin new
      PROVE  roster'[c][x] \in {[roster[c][x] EXCEPT !.removed = id], Creator, roster[c][x]}
  BY Zenon, <1>2, <1>5 DEF TypeInv, TypeOK
<1>6. /\ JoinWindow(id, c).joined = id /\ JoinWindow(id, c).removed = 0
      /\ Creator.joined = 0 /\ Creator.removed = 0
  BY DEF JoinWindow, Creator
<1>7. \A x \in Devices : /\ [roster[c][x] EXCEPT !.removed = id].joined = roster[c][x].joined
                         /\ [roster[c][x] EXCEPT !.removed = id].removed = id
  BY <1>0 DEF Window
<1>8. ASSUME NEW x \in Devices
      PROVE  roster'[c][x].removed \in {0, id, roster[c][x].removed}
  BY Zenon, <1>4, <1>6, <1>7
<1>9. ASSUME NEW x \in Devices
      PROVE  roster'[c][x].joined \in {0, roster[c][x].joined} \/ Welcomed(log', c, x, roster'[c][x].joined)
  <2>1. CASE x \notin new
    BY Zenon, <1>5, <1>6, <1>7, <2>1
  <2>2. CASE x \in new
    <3>1. roster'[c][x] = JoinWindow(id, c)
      BY Zenon, <1>2, <2>2 DEF TypeInv, TypeOK
    <3> QED BY Zenon, <1>1, <1>6, <2>2, <3>1
  <2> QED BY Zenon, <2>1, <2>2
<1>10. ASSUME NEW k \in Conversations, NEW x \in Devices
       PROVE  /\ \/ roster'[k][x].joined \in {0, roster[k][x].joined}
                 \/ Welcomed(log', k, x, roster'[k][x].joined)
              /\ \/ roster'[k][x].removed \in {0, roster[k][x].removed}
                 \/ roster'[k][x].removed \in DOMAIN log' \ DOMAIN log /\ IsCommit(log'[roster'[k][x].removed], k)
  <2>1. CASE k # c
    BY Zenon, <1>3, <2>1
  <2>2. CASE k = c
    BY Zenon, <1>0, <1>8, <1>9, <2>2
  <2> QED BY Zenon, <2>1, <2>2
<1> QED BY Zenon, <1>10 DEF RosterMoves

\* What a step appends and does to the roster.
LEMMA RowsStep ==
    ASSUME TypeInv, [Next]_vars
    PROVE  /\ RosterMoves
           /\ \A e \in DOMAIN log' : e \notin DOMAIN log /\ log'[e].acct # None => log'[e].kind \notin MessageKinds
<1> DEFINE Rows == \A e \in DOMAIN log' :
                      e \notin DOMAIN log /\ log'[e].acct # None => log'[e].kind \notin MessageKinds
<1>1. roster' = roster => RosterMoves
  BY Zenon DEF RosterMoves
<1>2. log' = log => Rows
  BY Zenon
<1>3. ASSUME NEW row \in Event, row.acct = None, log' = Append(log, row) PROVE Rows
  <2>1. log \in Seq(Event) /\ Len(log) \in Nat
    BY DEF TypeInv, TypeOK
  <2>2. \A e \in DOMAIN log' : e \in DOMAIN log \/ log'[e] = row
    BY <1>3, <2>1
  <2> QED BY Zenon, <1>3, <2>2
<1>4. ASSUME NEW kind \in Kinds, NEW c \in Conversations, NEW msg \in Nat, NEW by \in Accounts,
             NEW ep \in Nat \cup {NoEpoch}
      PROVE  /\ EventRow(kind, None, None, c, msg, by, ep) \in Event
             /\ EventRow(kind, None, None, c, msg, by, ep).acct = None
  BY Zenon DEF EventRow, Event
<1>5. \A c \in Conversations : NamedEpochs(c) \subseteq Nat \cup {NoEpoch}
  BY DEF NamedEpochs, TypeInv, TypeOK
<1>6. \A m \in envelopes : m.id \in Nat /\ m.conv \in Conversations /\ Owner[m.dev] \in Accounts
  BY Zenon, OwnerAssumption DEF TypeInv, TypeOK, Envelope
<1>7. Len(log) + 1 \in Nat /\ {"created", "edited", "deleted"} \subseteq Kinds /\ NoEpoch \in Nat \cup {NoEpoch}
  BY DEF TypeInv, TypeOK, Kinds
<1> HIDE DEF Rows
<1>8. ASSUME NEW d \in Senders, NEW k \in Keys, NEW c \in Conversations, NEW timed \in BOOLEAN,
             NEW ep \in NamedEpochs(c), SaveMessageEnvelope(d, k, c, timed, ep)
      PROVE  RosterMoves /\ Rows
  <2>1. Owner[d] \in Accounts /\ ep \in Nat \cup {NoEpoch} /\ "created" \in Kinds
    BY Zenon, <1>5, <1>7, OwnerAssumption, RolesAssumption
  <2>2. log' = Append(log, EventRow("created", None, None, c, Len(log) + 1, Owner[d], ep)) /\ roster' = roster
    BY Zenon, <1>8 DEF SaveMessageEnvelope, mlsVars
  <2> QED BY Zenon, <1>1, <1>3, <1>4, <1>7, <2>1, <2>2
<1>9. ASSUME NEW m \in envelopes, NEW ep \in NamedEpochs(m.conv), UpdateMessageEnvelope(m, ep)
      PROVE  RosterMoves /\ Rows
  <2>1. ep \in Nat \cup {NoEpoch} /\ "edited" \in Kinds
    BY Zenon, <1>5, <1>6, <1>7
  <2>2. log' = Append(log, EventRow("edited", None, None, m.conv, m.id, Owner[m.dev], ep)) /\ roster' = roster
    BY Zenon, <1>9 DEF UpdateMessageEnvelope, mlsVars
  <2> QED BY Zenon, <1>1, <1>3, <1>4, <1>6, <2>1, <2>2
<1>10. ASSUME NEW m \in envelopes, DeleteMessageEnvelope(m) PROVE RosterMoves /\ Rows
  <2>1. "deleted" \in Kinds
    BY Zenon, <1>7
  <2>2. log' = Append(log, EventRow("deleted", None, None, m.conv, m.id, Owner[m.dev], NoEpoch)) /\ roster' = roster
    BY Zenon, <1>10 DEF DeleteMessageEnvelope, mlsVars
  <2> QED BY Zenon, <1>1, <1>3, <1>4, <1>6, <1>7, <2>1, <2>2
<1>11. ASSUME NEW m \in envelopes, Expire(m) PROVE RosterMoves /\ Rows
  BY Zenon, <1>1, <1>2, <1>11 DEF Expire, logVars, mlsVars
<1>12. ASSUME NEW S, NEW backfill, PruneExpiredContent(S, backfill) PROVE RosterMoves /\ Rows
  BY Zenon, <1>1, <1>2, <1>12 DEF PruneExpiredContent, mlsVars
<1>13. ASSUME NEW cutoff, PruneSyncEvents(cutoff) PROVE RosterMoves /\ Rows
  BY Zenon, <1>1, <1>2, <1>13 DEF PruneSyncEvents, mlsVars
<1>14. ASSUME NEW a \in Accounts, NEW b \in Accounts, NEW c \in Conversations,
              \/ \E others \in MemberLists : CreateConversation(a, c, others)
              \/ \E r \in GrantRoles : ManageConversationMember(a, b, c, r)
              \/ RemoveConversationMember(a, b, c)
       PROVE  RosterMoves /\ Rows
  <2>1. roster' = roster
    BY Zenon, <1>14 DEF CreateConversation, ManageConversationMember, RemoveConversationMember, mlsVars
  <2>2. \A e \in DOMAIN log' : e \notin DOMAIN log => log'[e].kind \notin MessageKinds
    BY Zenon, <1>14, MembershipRows
  <2> QED BY Zenon, <1>1, <2>1, <2>2 DEF Rows
<1>15. ASSUME NEW a, NEW b, BlockAccount(a, b) \/ UnblockAccount(a, b) PROVE RosterMoves /\ Rows
  BY Zenon, <1>1, <1>2, <1>15 DEF BlockAccount, UnblockAccount, logVars, mlsVars
<1>16. ASSUME NEW d \in Devices, NEW c \in Conversations, RegisterMLSGroup(d, c) PROVE RosterMoves /\ Rows
  <2>1. log' = log /\ roster' = [roster EXCEPT ![c][d] = Creator]
    BY Zenon, <1>16 DEF RegisterMLSGroup, logVars
  <2>2. \A k \in Conversations, x \in Devices : roster'[k][x] \in {Creator, roster[k][x]}
    BY Zenon, <2>1 DEF TypeInv, TypeOK
  <2>3. Creator.joined = 0 /\ Creator.removed = 0
    BY DEF Creator
  <2> QED BY Zenon, <1>2, <2>1, <2>2, <2>3 DEF RosterMoves
<1>17. ASSUME NEW d \in Devices, NEW c \in Conversations, NEW added \in AddLists,
              NEW removed \in SUBSET Devices, CreateMLSCommitBundle(d, c, added, removed)
       PROVE  RosterMoves /\ Rows
  BY Zenon, <1>17, CommitMoves, CommitIsNoMessage DEF Rows
<1>18. ASSUME Write PROVE RosterMoves /\ Rows
  BY ZenonT(60), <1>18, <1>8, <1>9, <1>10, <1>11, <1>12, <1>13, <1>14, <1>15, <1>16, <1>17 DEF Write
<1>19. ASSUME NEW d \in Readers, Read(d) PROVE RosterMoves /\ Rows
  BY Zenon, <1>1, <1>2, <1>19 DEF Read, ListSyncEventsPage, CheckPruneState, CheckPruneMarks, CheckLegacy,
                                  logVars, mlsVars
<1>20. ASSUME UNCHANGED vars PROVE RosterMoves /\ Rows
  BY Zenon, <1>1, <1>2, <1>20 DEF vars, logVars, mlsVars
<1> QED BY Zenon, <1>18, <1>19, <1>20 DEF Next, Rows

\* What was welcomed stays so.
LEMMA WelcomedStays ==
    ASSUME TypeInv, Grows, NEW k, NEW x, NEW j, Welcomed(log, k, x, j)
    PROVE  Welcomed(log', k, x, j)
<1>1. PICK w \in DOMAIN log : /\ j < w /\ IsWelcome(log[w], k, x)
                              /\ \A f \in DOMAIN log : j < f /\ f <= w => log[f].acct # None
  BY Zenon DEF Welcomed
<1>2. w \in DOMAIN log' /\ log'[w] = log[w]
  BY Zenon DEF Grows
<1>3. ASSUME NEW f \in DOMAIN log', f <= w PROVE f \in DOMAIN log /\ log'[f] = log[f]
  <2>1. f \in DOMAIN log
    BY <1>3 DEF Grows, TypeInv, TypeOK
  <2> QED BY Zenon, <2>1 DEF Grows
<1> QED BY Zenon, <1>1, <1>2, <1>3 DEF Welcomed

LEMMA JoinStep == TypeInv /\ JoinInv /\ [Next]_vars => JoinInv'
<1> SUFFICES ASSUME TypeInv, JoinInv, [Next]_vars, NEW k \in Conversations, NEW x \in Devices,
                    roster'[k][x].joined # 0
             PROVE  Welcomed(log', k, x, roster'[k][x].joined)
  BY Zenon DEF JoinInv, Welcomed
<1>1. Grows /\ RosterMoves
  BY Zenon, NextType, RowsStep
<1>2. CASE roster'[k][x].joined = roster[k][x].joined
  BY Zenon, <1>1, <1>2, WelcomedStays DEF JoinInv
<1> QED BY Zenon, <1>1, <1>2 DEF RosterMoves

\* A device sees no commit, message or Welcome of a group's chain before the
\* Welcome of its own join.
THEOREM WelcomesComeFirst == Spec => []WelcomeFirst
<1>1. Init => JoinInv
  <2>1. NoWindow.joined = 0
    BY DEF NoWindow
  <2>2. Init => \A k \in Conversations, x \in Devices : roster[k][x] = NoWindow
    BY DEF Init
  <2> QED BY Zenon, <2>1, <2>2 DEF JoinInv
<1>2. TypeInv /\ JoinInv => WelcomeFirst
  <2> SUFFICES ASSUME TypeInv, JoinInv, NEW d \in Readers, NEW e \in Surviving,
                      log[e].acct = None, log[e].kind \in RosterFiltered, Visible(d, e),
                      log[e].conv \in groups, roster[log[e].conv][d].joined # 0
               PROVE  \E w \in roster[log[e].conv][d].joined .. (e - 1) :
                         log[w].kind = "welcome" /\ log[w].dev = d /\ log[w].conv = log[e].conv
    BY Zenon DEF WelcomeFirst
  <2> DEFINE c == log[e].conv
             j == roster[c][d].joined
  <2>1. d \in Devices /\ Owner[d] \in Accounts /\ c \in Conversations /\ e \in DOMAIN log
    BY Zenon, RolesAssumption, OwnerAssumption DEF TypeInv, TypeOK, Surviving
  <2>2. InWindow(d, e)
    BY Zenon, <2>1, NoneAssumption DEF Visible, OwnEvent
  <2>3. e > j
    BY Zenon, <2>2 DEF InWindow
  <2>4. j \in Nat /\ e \in Nat
    <3>1. roster[c][d] \in Window
      BY Zenon, <2>1 DEF TypeInv, TypeOK
    <3> QED BY Zenon, <2>1, <3>1, EventAt DEF Window
  <2>5. PICK w \in DOMAIN log : /\ j < w /\ IsWelcome(log[w], c, d)
                                /\ \A f \in DOMAIN log : j < f /\ f <= w => log[f].acct # None
    BY Zenon, <2>1 DEF JoinInv, Welcomed
  <2>6. w \in Nat
    BY Zenon, EventAt
  <2>7. ~(e <= w)
    <3>1. j < e
      BY <2>3, <2>4
    <3> QED BY Zenon, <2>1, <2>5, <3>1
  <2> HIDE DEF j
  <2>8. w \in j..(e - 1)
    BY <2>4, <2>5, <2>6, <2>7
  <2> QED BY Zenon, <2>5, <2>8 DEF IsWelcome, j
<1> QED BY <1>1, <1>2, JoinStep, Typing, PTL DEF Spec

-----------------------------------------------------------------------------
(***************************************************************************)
(* What a mark stands for.                                                 *)
(***************************************************************************)

\* Retention takes the oldest rows first.
PrunedFirst == \A e \in pruned, f \in DOMAIN log : f < e => f \in pruned

\* No message event is on an account's own chain.
OwnRows == \A e \in Surviving : log[e].acct # None => log[e].kind \notin MessageKinds

\* Event e is of the chain an account mark, or a conversation mark, is for.
AcctRow(e, a, x) == log[e].acct = a /\ log[e].dev = x

ConvRow(e, c, f) == log[e].acct = None /\ log[e].conv = c /\ (log[e].kind \in RosterFiltered) = f

\* A mark is the id of a row of its key that could be served when it went.
AcctEarned(a, x, e) == e # 0 => e \in lost /\ AcctRow(e, a, x)

ConvEarned(c, f, e) == e # 0 => e \in lost /\ ConvRow(e, c, f)

\* The commit that ended a device's window is there, or went as a row that
\* could be served.
EndsKept ==
    \A c \in Conversations, d \in Devices :
        LET r == roster[c][d].removed
        IN  r # 0 => r \in Surviving \cup lost /\ IsCommit(log[r], c)

EarnedInv ==
    /\ PrunedFirst /\ OwnRows /\ EndsKept
    /\ \A a \in Accounts, x \in Devices \cup {None} : AcctEarned(a, x, acctMark[a][x])
    /\ \A c \in Conversations, f \in BOOLEAN : ConvEarned(c, f, convMark[c][f])

\* A trigger's mark is the old one or the id of a row of its key.
LEMMA MarksFrom ==
    ASSUME TypeInv, NEW S \in SUBSET DOMAIN log, NEW T \in SUBSET S, MarksFor(S, T)
    PROVE  /\ \A a \in Accounts, x \in Devices \cup {None} :
                \/ acctMark'[a][x] = acctMark[a][x]
                \/ acctMark'[a][x] \in S /\ AcctRow(acctMark'[a][x], a, x)
           /\ \A c \in Conversations, f \in BOOLEAN :
                \/ convMark'[c][f] = convMark[c][f]
                \/ convMark'[c][f] \in T /\ ConvRow(convMark'[c][f], c, f)
<1> DEFINE n == Len(log)
           A(a, x) == {e \in S : log[e].acct = a /\ log[e].dev = x}
           C(c, f) == {e \in T : /\ log[e].acct = None /\ log[e].conv = c
                                 /\ (log[e].kind \in RosterFiltered) = f}
<1>1. n \in Nat /\ S \subseteq 1..n /\ T \subseteq 1..n
  BY DEF TypeInv, TypeOK
<1>2. /\ \A a \in Accounts, x \in Devices \cup {None} : acctMark[a][x] \in Nat
      /\ \A c \in Conversations, f \in BOOLEAN : convMark[c][f] \in Nat
  BY ZenonT(60) DEF TypeInv, TypeOK
<1>3. ASSUME NEW a \in Accounts, NEW x \in Devices \cup {None}
      PROVE  acctMark'[a][x] = acctMark[a][x] \/ acctMark'[a][x] \in A(a, x)
  <2>1. acctMark'[a][x] = Max({acctMark[a][x]} \cup A(a, x))
    BY Zenon DEF MarksFor
  <2>2. A(a, x) \subseteq 1..n
    BY Zenon, <1>1
  <2> HIDE DEF A, n
  <2> QED BY Zenon, <1>1, <1>2, <2>1, <2>2, MaxOfMark
<1>4. ASSUME NEW c \in Conversations, NEW f \in BOOLEAN
      PROVE  convMark'[c][f] = convMark[c][f] \/ convMark'[c][f] \in C(c, f)
  <2>1. convMark'[c][f] = Max({convMark[c][f]} \cup C(c, f))
    BY Zenon DEF MarksFor
  <2>2. C(c, f) \subseteq 1..n
    BY Zenon, <1>1
  <2> HIDE DEF C, n
  <2> QED BY Zenon, <1>1, <1>2, <2>1, <2>2, MaxOfMark
<1>5. \A a \in Accounts, x \in Devices \cup {None} : \A e \in A(a, x) : e \in S /\ AcctRow(e, a, x)
  BY Zenon DEF AcctRow
<1>6. \A c \in Conversations, f \in BOOLEAN : \A e \in C(c, f) : e \in T /\ ConvRow(e, c, f)
  BY Zenon DEF ConvRow
<1> HIDE DEF A, C
<1> QED BY Zenon, <1>3, <1>4, <1>5, <1>6

\* Retention keeps what the marks stand for.
LEMMA PruneEarned ==
    ASSUME TypeInv, EarnedInv, NEW cutoff \in Surviving, PruneSyncEvents(cutoff)
    PROVE  EarnedInv'
<1> DEFINE S == {e \in Surviving : e <= cutoff}
           T == {e \in S : EnvelopeLive(e)}
<1>1. S \in SUBSET DOMAIN log /\ T \in SUBSET S /\ S \subseteq Surviving
  BY Zenon DEF Surviving
<1>2. /\ MarksFor(S, T) /\ log' = log /\ pruned' = pruned \cup S /\ lost' = lost \cup T
      /\ roster' = roster
  BY Zenon DEF PruneSyncEvents, PruneMarks, mlsVars
<1>3. PrunedFirst'
  <2> SUFFICES ASSUME NEW e \in pruned', NEW f \in DOMAIN log, f < e PROVE f \in pruned'
    BY Zenon, <1>2 DEF PrunedFirst
  <2>1. CASE e \in pruned
    BY Zenon, <1>2, <2>1 DEF EarnedInv, PrunedFirst
  <2>2. CASE e \in S
    <3>1. e \in Nat /\ f \in Nat /\ cutoff \in Nat
      BY Zenon, <2>2, EventAt DEF Surviving
    <3>2. f <= cutoff
      BY <2>2, <3>1
    <3> QED BY Zenon, <1>2, <3>2 DEF Surviving
  <2> QED BY Zenon, <1>2, <2>1, <2>2
<1>4. \A e \in S : log[e].kind \notin MessageKinds => e \in T
  BY Zenon DEF EnvelopeLive
<1> HIDE DEF S, T
<1>5. Surviving' \subseteq Surviving /\ Surviving \subseteq Surviving' \cup S /\ lost \subseteq lost' /\ T \subseteq lost'
  BY Zenon, <1>2 DEF Surviving
<1>6. OwnRows'
  BY Zenon, <1>2, <1>5 DEF EarnedInv, OwnRows
<1>7. EndsKept'
  <2> SUFFICES ASSUME NEW c \in Conversations, NEW d \in Devices, roster[c][d].removed # 0
               PROVE  roster[c][d].removed \in Surviving' \cup lost' /\ IsCommit(log[roster[c][d].removed], c)
    BY Zenon, <1>2 DEF EndsKept
  <2> DEFINE r == roster[c][d].removed
  <2>1. r \in Surviving \cup lost /\ IsCommit(log[r], c)
    BY Zenon DEF EarnedInv, EndsKept
  <2> HIDE DEF r
  <2>2. log[r].kind \notin MessageKinds
    BY <2>1 DEF IsCommit, MessageKinds
  <2>3. r \in Surviving' \cup lost'
    BY Zenon, <1>4, <1>5, <2>1, <2>2
  <2> QED BY Zenon, <2>1, <2>3 DEF r
<1>0. /\ \A a \in Accounts, x \in Devices \cup {None} :
           \/ acctMark'[a][x] = acctMark[a][x]
           \/ acctMark'[a][x] \in S /\ AcctRow(acctMark'[a][x], a, x)
      /\ \A c \in Conversations, f \in BOOLEAN :
           \/ convMark'[c][f] = convMark[c][f]
           \/ convMark'[c][f] \in T /\ ConvRow(convMark'[c][f], c, f)
  BY Zenon, <1>1, <1>2, MarksFrom
<1>8. ASSUME NEW a \in Accounts, NEW x \in Devices \cup {None} PROVE AcctEarned(a, x, acctMark[a][x])'
  <2>1. CASE acctMark'[a][x] = acctMark[a][x]
    <3>1. AcctEarned(a, x, acctMark[a][x])
      BY Zenon DEF EarnedInv
    <3> QED BY <1>2, <1>5, <2>1, <3>1 DEF AcctEarned, AcctRow
  <2>2. CASE acctMark'[a][x] \in S /\ AcctRow(acctMark'[a][x], a, x)
    <3> DEFINE e == acctMark'[a][x]
    <3>1. e \in S /\ log[e].acct = a /\ log[e].dev = x
      BY Zenon, <2>2 DEF AcctRow
    <3> HIDE DEF e
    <3>2. log[e].kind \notin MessageKinds
      BY Zenon, <1>1, <3>1, NoneAssumption DEF EarnedInv, OwnRows
    <3>3. e \in lost'
      BY Zenon, <1>4, <1>5, <3>1, <3>2
    <3> QED BY Zenon, <1>2, <3>1, <3>3 DEF AcctEarned, AcctRow, e
  <2> QED BY Zenon, <1>0, <2>1, <2>2
<1>9. ASSUME NEW c \in Conversations, NEW f \in BOOLEAN PROVE ConvEarned(c, f, convMark[c][f])'
  <2>1. CASE convMark'[c][f] = convMark[c][f]
    <3>1. ConvEarned(c, f, convMark[c][f])
      BY Zenon DEF EarnedInv
    <3> QED BY <1>2, <1>5, <2>1, <3>1 DEF ConvEarned, ConvRow
  <2>2. CASE convMark'[c][f] \in T /\ ConvRow(convMark'[c][f], c, f)
    BY Zenon, <1>2, <1>5, <2>2 DEF ConvEarned, ConvRow
  <2> QED BY Zenon, <1>0, <2>1, <2>2
<1> QED BY Zenon, <1>3, <1>6, <1>7, <1>8, <1>9 DEF EarnedInv

LEMMA EarnedStep == TypeInv /\ EarnedInv /\ [Next]_vars => EarnedInv'
<1> SUFFICES ASSUME TypeInv, EarnedInv, [Next]_vars PROVE EarnedInv'
  BY Zenon
<1>1. ASSUME pruned' = pruned, lost' = lost, UNCHANGED markVars PROVE EarnedInv'
  <2>1. Grows /\ RosterMoves /\ UNCHANGED <<acctMark, convMark>>
    BY Zenon, <1>1, NextType, RowsStep DEF markVars
  <2>2. lost \subseteq DOMAIN log /\ pruned \subseteq DOMAIN log /\ Surviving \subseteq Surviving'
    BY Zenon, <1>1, <2>1 DEF TypeInv, TypeOK, Grows, Surviving
  <2>3. \A e \in lost \cup Surviving : log'[e] = log[e]
    BY Zenon, <2>1, <2>2 DEF Grows, Surviving
  <2>4. PrunedFirst'
    <3> SUFFICES ASSUME NEW e \in pruned, NEW f \in DOMAIN log', f < e PROVE f \in pruned
      BY Zenon, <1>1 DEF PrunedFirst
    <3>1. f \in DOMAIN log
      BY <2>1, <2>2 DEF Grows, TypeInv, TypeOK
    <3> QED BY Zenon, <3>1 DEF EarnedInv, PrunedFirst
  <2>5. OwnRows'
    <3> SUFFICES ASSUME NEW e \in DOMAIN log', e \notin pruned, log'[e].acct # None
                 PROVE  log'[e].kind \notin MessageKinds
      BY Zenon, <1>1 DEF OwnRows, Surviving
    <3>1. CASE e \in DOMAIN log
      BY Zenon, <2>1, <3>1 DEF EarnedInv, OwnRows, Surviving, Grows
    <3> QED BY Zenon, <3>1, RowsStep
  <2>6. EndsKept'
    <3> SUFFICES ASSUME NEW c \in Conversations, NEW d \in Devices, roster'[c][d].removed # 0
                 PROVE  /\ roster'[c][d].removed \in Surviving' \cup lost
                        /\ IsCommit(log'[roster'[c][d].removed], c)
      BY Zenon, <1>1 DEF EndsKept
    <3>1. CASE roster'[c][d].removed = roster[c][d].removed
      BY Zenon, <2>2, <2>3, <3>1 DEF EarnedInv, EndsKept
    <3>2. CASE /\ roster'[c][d].removed \in DOMAIN log' \ DOMAIN log
               /\ IsCommit(log'[roster'[c][d].removed], c)
      BY Zenon, <1>1, <2>2, <3>2 DEF Surviving
    <3> QED BY Zenon, <2>1, <3>1, <3>2 DEF RosterMoves
  <2>7. ASSUME NEW a \in Accounts, NEW x \in Devices \cup {None} PROVE AcctEarned(a, x, acctMark[a][x])'
    <3>1. AcctEarned(a, x, acctMark[a][x])
      BY Zenon DEF EarnedInv
    <3> QED BY <1>1, <2>1, <2>3, <3>1 DEF AcctEarned, AcctRow
  <2>8. ASSUME NEW c \in Conversations, NEW f \in BOOLEAN PROVE ConvEarned(c, f, convMark[c][f])'
    <3>1. ConvEarned(c, f, convMark[c][f])
      BY Zenon DEF EarnedInv
    <3> QED BY <1>1, <2>1, <2>3, <3>1 DEF ConvEarned, ConvRow
  <2> QED BY Zenon, <2>4, <2>5, <2>6, <2>7, <2>8 DEF EarnedInv
<1> QED BY Zenon, <1>1, PruneEarned, StepAges

\* The marks test finds nothing but what was lost to the device.
LEMMA MarksAreEarned ==
    ASSUME TypeInv, EarnedInv, NEW d \in Readers, MarksExpired(d, cursor[d])
    PROVE  \E e \in lost : e > cursor[d] /\ InScope(d, e)
<1> DEFINE after == cursor[d]
<1>1. d \in Devices /\ Owner[d] \in Accounts /\ after \in Nat
  BY Zenon, RolesAssumption, OwnerAssumption DEF TypeInv, TypeOK
<1>2. 0 \notin {e \in Nat : e > after} /\ lost \subseteq pruned /\ pruned \subseteq DOMAIN log
  BY <1>1 DEF TypeInv, TypeOK
<1> HIDE DEF after
<1>3. CASE AccountExpired(d, after)
  <2>1. PICK x \in {None, d} : acctMark[Owner[d]][x] > after
    BY Zenon, <1>3 DEF AccountExpired
  <2>2. x \in Devices \cup {None}
    BY Zenon, <1>1
  <2>3. acctMark[Owner[d]][x] \in Nat
    <3>1. acctMark[Owner[d]] \in [Devices \cup {None} -> Nat]
      BY Zenon, <1>1 DEF TypeInv, TypeOK
    <3> QED BY Zenon, <2>2, <3>1
  <2>4. acctMark[Owner[d]][x] # 0
    BY Zenon, <1>2, <2>1, <2>3
  <2>5. /\ acctMark[Owner[d]][x] \in lost /\ log[acctMark[Owner[d]][x]].acct = Owner[d]
        /\ log[acctMark[Owner[d]][x]].dev = x
    BY Zenon, <1>1, <2>2, <2>4 DEF EarnedInv, AcctEarned, AcctRow
  <2> QED BY Zenon, <2>1, <2>5 DEF InScope, OwnEvent, after
<1>4. ASSUME NEW c \in Conversations, Member(Owner[d], c), NEW f \in BOOLEAN, convMark[c][f] > after
      PROVE  /\ convMark[c][f] \in lost /\ ConversationEvent(d, convMark[c][f]) /\ convMark[c][f] \in Nat
             /\ log[convMark[c][f]].conv = c
             /\ (log[convMark[c][f]].kind \in RosterFiltered) = f
  <2>1. convMark[c][f] \in Nat
    BY Zenon DEF TypeInv, TypeOK
  <2>2. convMark[c][f] # 0
    BY Zenon, <1>2, <1>4, <2>1
  <2>3. /\ convMark[c][f] \in lost /\ log[convMark[c][f]].acct = None /\ log[convMark[c][f]].conv = c
        /\ (log[convMark[c][f]].kind \in RosterFiltered) = f
    <3>1. ConvEarned(c, f, convMark[c][f])
      BY Zenon DEF EarnedInv
    <3> QED BY Zenon, <2>2, <3>1 DEF ConvEarned, ConvRow
  <2> QED BY Zenon, <1>4, <2>1, <2>3, NoneAssumption DEF ConversationEvent
<1>5. ASSUME NEW c \in Conversations, Member(Owner[d], c), convMark[c][FALSE] > after
      PROVE  \E e \in lost : e > after /\ InScope(d, e)
  <2>1. /\ convMark[c][FALSE] \in lost /\ ConversationEvent(d, convMark[c][FALSE])
        /\ (log[convMark[c][FALSE]].kind \in RosterFiltered) = FALSE
    BY Zenon, <1>4, <1>5
  <2>2. ~(log[convMark[c][FALSE]].kind \in RosterFiltered)
    BY Zenon, <2>1
  <2> QED BY Zenon, <1>5, <2>1, <2>2 DEF InScope
<1>6. ASSUME NEW c \in Conversations, Member(Owner[d], c), convMark[c][TRUE] > after,
             c \notin groups \/ WindowCounts(roster[c][d], convMark[c][TRUE], after)
      PROVE  \E e \in lost : e > after /\ InScope(d, e)
  <2> DEFINE mark == convMark[c][TRUE]
             w == roster[c][d]
  <2>1. /\ mark \in lost /\ ConversationEvent(d, mark) /\ log[mark].conv = c /\ mark \in Nat
    BY Zenon, <1>4, <1>6
  <2>2. w \in Window /\ w.joined \in Nat /\ w.removed \in Nat
    <3>1. w \in Window
      BY ZenonT(60), <1>1 DEF TypeInv, TypeOK
    <3> HIDE DEF w
    <3> QED BY Zenon, <3>1 DEF Window
  <2>3. mark > after
    BY Zenon, <1>6
  <2>4. c \notin groups \/ WindowCounts(w, mark, after)
    BY Zenon, <1>6
  <2> HIDE DEF mark
  <2>5. CASE InWindow(d, mark)
    BY Zenon, <2>1, <2>3, <2>5 DEF InScope
  <2>6. CASE ~InWindow(d, mark)
    <3>1. c \in groups /\ ~(w.row /\ mark > w.joined /\ (w.removed = 0 \/ mark <= w.removed))
      BY Zenon, <2>1, <2>6 DEF InWindow
    <3>2. w.row /\ mark > w.joined /\ (w.removed = 0 \/ (w.removed > after /\ w.removed > w.joined))
      BY Zenon, <2>4, <3>1 DEF WindowCounts
    <3>3. w.removed # 0 /\ w.removed > after /\ w.removed > w.joined /\ ~(mark <= w.removed)
      BY Zenon, <3>1, <3>2
    <3>4. w.removed < mark /\ w.removed <= w.removed
      BY <2>1, <2>2, <3>3
    <3>5. w.removed \in Surviving \cup lost /\ IsCommit(log[w.removed], c)
      BY Zenon, <1>1, <3>3 DEF EarnedInv, EndsKept
    <3>6. w.removed \in lost
      <4>1. mark \in pruned /\ (w.removed \in Surviving => w.removed \in DOMAIN log)
        BY Zenon, <1>2, <2>1 DEF Surviving
      <4> QED BY Zenon, <3>4, <3>5, <4>1 DEF EarnedInv, PrunedFirst, Surviving
    <3>7. InWindow(d, w.removed)
      BY Zenon, <3>2, <3>3, <3>4, <3>5 DEF InWindow, IsCommit
    <3>8. ConversationEvent(d, w.removed)
      BY Zenon, <1>6, <3>5, NoneAssumption DEF ConversationEvent, IsCommit
    <3> QED BY Zenon, <3>3, <3>6, <3>7, <3>8 DEF InScope
  <2> QED BY Zenon, <2>5, <2>6
<1> QED BY Zenon, <1>3, <1>5, <1>6 DEF MarksExpired, after

\* A cursor is refused only for an event after it that the device could have
\* been served and that is in its scope.
THEOREM ExpiryEarned == Spec => ExpiryIsEarned
<1>1. Init => EarnedInv
  <2> SUFFICES ASSUME Init PROVE EarnedInv
    BY Zenon
  <2>1. PrunedFirst /\ OwnRows
    BY Zenon DEF Init, PrunedFirst, OwnRows, Surviving
  <2>2. \A c \in Conversations, d \in Devices : roster[c][d] = NoWindow
    BY DEF Init
  <2>3. NoWindow.removed = 0
    BY DEF NoWindow
  <2>4. EndsKept
    BY Zenon, <2>2, <2>3 DEF EndsKept
  <2>5. \A a \in Accounts, x \in Devices \cup {None} : acctMark[a][x] = 0
    BY DEF Init
  <2>6. \A c \in Conversations, f \in BOOLEAN : convMark[c][f] = 0
    BY DEF Init
  <2> QED BY Zenon, <2>1, <2>4, <2>5, <2>6 DEF EarnedInv, AcctEarned, ConvEarned
<1>2. ASSUME TypeInv, EarnedInv, [Next]_vars, NEW d \in Readers, pc[d] = "marks", pc'[d] = "expired"
      PROVE  \E e \in lost : e > cursor[d] /\ InScope(d, e)
  <2>1. ~UNCHANGED readVars
    BY Zenon, <1>2 DEF readVars
  <2>2. PICK r \in Readers : Read(r)
    BY Zenon, <1>2, <2>1, WriteKeepsReads DEF Next, vars
  <2>3. r = d
    BY Zenon, <1>2, <2>2, ReadIsLocal
  <2>4. CheckPruneMarks(d)
    BY Zenon, <1>2, <2>2, <2>3 DEF Read, ListSyncEventsPage, CheckPruneState, CheckLegacy
  <2>5. ~Answer(d, page[d]) /\ ~Proceed(d, "legacy")
    BY Zenon, <1>2 DEF Answer, Proceed, TypeInv, TypeOK
  <2>6. MarksExpired(d, cursor[d])
    BY Zenon, <2>4, <2>5 DEF CheckPruneMarks
  <2> QED BY Zenon, <1>2, <2>6, MarksAreEarned
<1>3. ASSUME TypeInv, EarnedInv, [Next]_vars
      PROVE  \A d \in Readers : pc[d] = "marks" /\ pc'[d] = "expired" =>
                 \E e \in lost : e > cursor[d] /\ InScope(d, e)
  BY Zenon, <1>2, <1>3
<1> QED BY <1>1, <1>3, EarnedStep, Typing, PTL DEF Spec, ExpiryIsEarned
=============================================================================
