------------------------------- MODULE SyncLog -------------------------------
(***************************************************************************)
(* The server's durable event log and the reads devices catch up with.     *)
(*                                                                         *)
(* Every change a device must learn of is a row of sync_events, with a     *)
(* global AUTOINCREMENT id.  A device asks for the rows after its cursor   *)
(* (ListSyncEvents); which rows it may see depends on memberships, blocks, *)
(* the MLS roster window of the device and whether a message's envelope is *)
(* still live.  Retention deletes old rows, and triggers leave prune       *)
(* marks, so that a device whose cursor fell behind is told so instead of  *)
(* being served a log with a hole in it.                                   *)
(*                                                                         *)
(* Every write is one transaction on the single writer connection, so it   *)
(* is one action.  A sync request is several statements on the reader      *)
(* pool, each its own snapshot, so it is several actions that interleave   *)
(* with every writer: the page, the prune state, the prune marks and the   *)
(* legacy test.                                                            *)
(***************************************************************************)
EXTENDS Roles, Sequences, FiniteSets, FiniteSetsExt

CONSTANTS
    Accounts, Devices, Conversations,
    Owner,           \* [Devices -> Accounts]
    Senders,         \* the devices that send messages
    Keys,            \* the idempotency keys they use
    Readers,         \* the devices whose sync requests are modelled
    None,            \* SQL NULL
    GrantRoles,      \* the roles ManageConversationMember is asked to set
    Restricted,      \* conversations with posting_policy = 'admins'
    MayBlock,        \* the pairs <<blocker, blocked>> that may come about
    MemberLists,     \* the other members a conversation may be created with
    AddLists,        \* the devices a commit bundle may add
    LegacyLog,       \* events pruned before migration 0044 kept marks
    LegacyRole,      \* the memberships found at that time
    PageLimit,       \* events in a page
    PruneBatch,      \* rows one retention DELETE removes at most
    SweepBatch,      \* expired messages one sweep removes at most
    MaxEvents,       \* bound on the ids issued
    MaxEpoch         \* bound on the commits of a group

Kinds == {"created", "edited", "deleted", "commit", "welcome", "membership"}

\* Event types 'message.envelope.%', and the ones a delete supersedes.
MessageKinds == {"created", "edited", "deleted"}
VersionKinds == {"created", "edited"}

\* The events sync filters by the device's roster window.
RosterFiltered == MessageKinds \cup {"commit", "welcome"}

\* A row of sync_events.  msg is the message's id, which is the id of its
\* created event: the server draws a fresh id for every stored envelope, so
\* both are used once.  mlsEpoch is the epoch the envelope names, if any.
NoEpoch == -1
Event == [kind : Kinds, acct : Accounts \cup {None}, dev : Devices \cup {None},
          conv : Conversations \cup {None}, msg : Nat,
          by : Accounts \cup {None}, mlsEpoch : Nat \cup {NoEpoch}]

\* A row of message_envelopes; timed says expires_at is not NULL.
Envelope == [id : Nat, dev : Devices, key : Keys, conv : Conversations,
             timed : BOOLEAN]

\* A row of conversation_mls_devices; removed = 0 is NULL.
Window == [row : BOOLEAN, joined : Nat, joinedEpoch : Nat, removed : Nat]
NoWindow == [row |-> FALSE, joined |-> 0, joinedEpoch |-> 0, removed |-> 0]

ASSUME OwnerAssumption == Owner \in [Devices -> Accounts]
ASSUME NoneAssumption ==
    None \notin Accounts \cup Devices \cup Conversations \cup Keys
ASSUME RolesAssumption == Readers \subseteq Devices /\ Senders \subseteq Devices
ASSUME GrantAssumption == GrantRoles \subseteq MemberRoles
ASSUME ListsAssumption ==
    /\ AddLists \subseteq Seq(Devices) /\ MemberLists \subseteq Seq(Accounts)
    /\ \A l \in AddLists \cup MemberLists : IsInjective(l)
ASSUME LegacyAssumption ==
    /\ LegacyLog \in Seq(Event)
    /\ LegacyRole \in [Conversations -> [Accounts -> Roles]]
    /\ \A e \in DOMAIN LegacyLog : LegacyLog[e].msg <= e
ASSUME BoundsAssumption ==
    /\ PageLimit \in Nat \ {0} /\ PruneBatch \in Nat /\ SweepBatch \in Nat
    /\ MaxEvents \in Nat /\ MaxEpoch \in Nat

VARIABLES
    log,            \* every row ever inserted into sync_events, by id
    pruned,         \* the ids retention has deleted
    lost,           \* history: the ids that could be served when deleted
    redacted,       \* the ids whose envelope copy was cut
    envelopes,      \* message_envelopes
    expired,        \* the message ids whose expires_at has passed
    deleted,        \* the message ids with deleted_at set
    role,           \* memberships: [conversation -> [account -> role]]
    blocks,         \* account_blocks
    groups,         \* conversations with a conversation_mls_groups row
    epoch,          \* its epoch
    roster,         \* conversation_mls_devices
    prunedThrough,  \* sync_prune_state.pruned_through
    acctMark,       \* sync_prune_account_marks; device None is ''
    convMark,       \* sync_prune_conversation_marks, by roster_filtered
    cursor,         \* [reader -> last event applied]
    pc,             \* where the reader's request is
    page,           \* the events the request's page holds
    gap             \* history: pruned events missing from that page

logVars == <<log, pruned, lost, redacted>>
msgVars == <<envelopes, expired, deleted>>
memberVars == <<role, blocks>>
mlsVars == <<groups, epoch, roster>>
markVars == <<prunedThrough, acctMark, convMark>>
readVars == <<cursor, pc, page, gap>>
vars == <<logVars, msgVars, memberVars, mlsVars, markVars, readVars>>

LegacyThrough == Len(LegacyLog)

Surviving == DOMAIN log \ pruned
Member(a, c) == role[c][a] # "none"
EventRow(kind, acct, dev, conv, msg, by, mlsEpoch) ==
    [kind |-> kind, acct |-> acct, dev |-> dev, conv |-> conv, msg |-> msg,
     by |-> by, mlsEpoch |-> mlsEpoch]

-----------------------------------------------------------------------------
(***************************************************************************)
(* What a device may be sent.                                              *)
(***************************************************************************)

\* syncEventEnvelopeLive: not a message event, or its envelope row is there,
\* unexpired, and not deleted unless the event is the deleted marker.
EnvelopeLive(e) ==
    log[e].kind \in MessageKinds =>
        /\ \E m \in envelopes : m.id = log[e].msg
        /\ log[e].msg \notin expired
        /\ log[e].msg \in deleted => log[e].kind = "deleted"

\* mlsJoinFilterEventFor, without the epoch an envelope names ...
InWindow(d, e) ==
    LET w == roster[log[e].conv][d]
    IN  \/ log[e].conv \notin groups
        \/ w.row /\ e > w.joined /\ (w.removed = 0 \/ e <= w.removed)

\* ... and that epoch: one from before the device joined is withheld.
EpochReached(d, e) ==
    \/ log[e].conv \notin groups
    \/ log[e].kind \notin MessageKinds
    \/ e \in redacted
    \/ log[e].mlsEpoch = NoEpoch
    \/ log[e].mlsEpoch >= roster[log[e].conv][d].joinedEpoch

\* syncEventBlockedFor; a message event's actor is its sender.
BlockedFor(a, e) == log[e].kind \in MessageKinds /\ <<a, log[e].by>> \in blocks

\* An event of the account's own chain: for every device of it, or for d.
OwnEvent(d, e) == log[e].acct = Owner[d] /\ log[e].dev \in {None, d}

\* An event of the chain of a conversation the account is a member of.
ConversationEvent(d, e) ==
    /\ log[e].acct = None /\ log[e].conv # None
    /\ Member(Owner[d], log[e].conv)

\* syncEventVisibleTo and the chains of listSyncEventsQuery.
Visible(d, e) ==
    \/ OwnEvent(d, e)
    \/ /\ ConversationEvent(d, e)
       /\ log[e].kind \in RosterFiltered => InWindow(d, e) /\ EpochReached(d, e)
       /\ ~BlockedFor(Owner[d], e)
       /\ EnvelopeLive(e)

\* An event the prune marks speak for: in a place the device reads from, and
\* inside its roster window.  Blocks, epochs and envelopes are not looked at.
InScope(d, e) ==
    \/ OwnEvent(d, e)
    \/ ConversationEvent(d, e) /\ (log[e].kind \in RosterFiltered => InWindow(d, e))

\* The copies of the envelopes of messages ms that events of kinds ks hold.
Copies(ms, ks) == {e \in Surviving : log[e].kind \in ks /\ log[e].msg \in ms}

\* redactOrphanedMessageEvents: copies whose envelope row is gone, or whose
\* message is deleted (all but the deleted marker).
Orphans ==
    {e \in Surviving \ redacted :
        /\ log[e].kind \in MessageKinds
        /\ ~ \E m \in envelopes : /\ m.id = log[e].msg
                                  /\ m.id \in deleted => log[e].kind = "deleted"}

-----------------------------------------------------------------------------
Init ==
    /\ log = LegacyLog /\ pruned = DOMAIN LegacyLog /\ lost = {} /\ redacted = {}
    /\ envelopes = {} /\ expired = {} /\ deleted = {}
    /\ role = LegacyRole /\ blocks = {}
    /\ groups = {} /\ epoch = [c \in Conversations |-> 0]
    /\ roster = [c \in Conversations |-> [d \in Devices |-> NoWindow]]
    /\ prunedThrough = LegacyThrough
    /\ acctMark = [a \in Accounts |-> [d \in Devices \cup {None} |-> 0]]
    /\ convMark = [c \in Conversations |-> [f \in BOOLEAN |-> 0]]
    /\ cursor \in [Readers -> 0..LegacyThrough]
    /\ pc = [d \in Readers |-> "idle"]
    /\ page = [d \in Readers |-> {}] /\ gap = [d \in Readers |-> {}]

-----------------------------------------------------------------------------
(***************************************************************************)
(* Messages.                                                               *)
(***************************************************************************)

\* The epochs a client may have encrypted a message in.
NamedEpochs(c) == IF c \in groups THEN 0..epoch[c] ELSE {NoEpoch}

\* saveMessageEnvelope: a retry of a key whose message expired replaces it,
\* redacting its copies; a retry of a live one stores nothing.
SaveMessageEnvelope(d, k, c, timed, ep) ==
    LET sent == {m \in envelopes : m.dev = d /\ m.key = k}
        gone == {m \in sent : m.id \in expired}
        id == Len(log) + 1
    IN  /\ Len(log) < MaxEvents
        /\ sent \subseteq gone
        /\ Member(Owner[d], c)
        /\ c \in Restricted => CanPostRestricted(role[c][Owner[d]])
        /\ envelopes' = (envelopes \ gone) \cup
                {[id |-> id, dev |-> d, key |-> k, conv |-> c, timed |-> timed]}
        /\ redacted' = redacted \cup Copies({m.id : m \in gone}, MessageKinds)
        /\ log' = Append(log, EventRow("created", None, None, c, id, Owner[d], ep))
        /\ UNCHANGED <<pruned, lost, expired, deleted, memberVars, mlsVars, markVars, readVars>>

\* The message may still be changed by its sender's account.
Mutable(m) == m.id \notin deleted \cup expired /\ Member(Owner[m.dev], m.conv)

UpdateMessageEnvelope(m, ep) ==
    /\ Len(log) < MaxEvents
    /\ Mutable(m)
    /\ log' = Append(log, EventRow("edited", None, None, m.conv, m.id, Owner[m.dev], ep))
    /\ UNCHANGED <<pruned, lost, redacted, msgVars, memberVars, mlsVars, markVars, readVars>>

\* deleteMessageEnvelope: the row becomes a marker, the created and edited
\* copies are redacted, and the deleted event carries the marker.
DeleteMessageEnvelope(m) ==
    /\ Len(log) < MaxEvents
    /\ Mutable(m)
    /\ deleted' = deleted \cup {m.id}
    /\ redacted' = redacted \cup Copies({m.id}, VersionKinds)
    /\ log' = Append(log, EventRow("deleted", None, None, m.conv, m.id, Owner[m.dev], NoEpoch))
    /\ UNCHANGED <<pruned, lost, envelopes, expired, memberVars, mlsVars, markVars, readVars>>

\* The clock passes a message's expires_at.
Expire(m) ==
    /\ m.timed /\ m.id \notin expired
    /\ expired' = expired \cup {m.id}
    /\ UNCHANGED <<logVars, envelopes, deleted, memberVars, mlsVars, markVars, readVars>>

-----------------------------------------------------------------------------
(***************************************************************************)
(* Retention.                                                              *)
(***************************************************************************)

\* Mutant: the sweep redacts the versions but not the deleted marker.
SweepKeepsMarker(S, backfill) ==
    /\ S # {} /\ {m.id : m \in S} \subseteq expired /\ Cardinality(S) <= SweepBatch
    /\ redacted' = redacted \cup Copies({m.id : m \in S}, VersionKinds)
    /\ envelopes' = envelopes \ S
    /\ UNCHANGED <<log, pruned, lost, expired, deleted, memberVars, mlsVars, markVars, readVars>>

\* PruneExpiredContent: a bounded set of expired envelopes goes, with the
\* copies events hold; backfill says whether this sweep's window of the
\* orphan backfill covers the log.
PruneExpiredContent(S, backfill) ==
    LET ids == {m.id : m \in S}
    IN  /\ S # {} /\ ids \subseteq expired
        /\ Cardinality(S) <= SweepBatch
        /\ redacted' = redacted \cup Copies(ids, MessageKinds)
                                \cup (IF backfill THEN Orphans ELSE {})
        /\ envelopes' = envelopes \ S
        /\ UNCHANGED <<log, pruned, lost, expired, deleted, memberVars, mlsVars, markVars, readVars>>

\* The marks left when the conversation trigger takes the rows of T.
MarksFor(S, T) ==
    /\ prunedThrough' = Max({prunedThrough} \cup S)
    /\ acctMark' = [a \in Accounts |-> [x \in Devices \cup {None} |->
          Max({acctMark[a][x]} \cup {e \in S : log[e].acct = a /\ log[e].dev = x})]]
    /\ convMark' = [c \in Conversations |-> [f \in BOOLEAN |->
          Max({convMark[c][f]} \cup
              {e \in T : /\ log[e].acct = None /\ log[e].conv = c
                         /\ (log[e].kind \in RosterFiltered) = f})]]

\* The triggers of migration 0044 over the deleted rows S.
PruneMarks(S) == MarksFor(S, {e \in S : EnvelopeLive(e)})

\* PruneSyncEvents, one DELETE: the oldest rows, up to the cutoff's.
PruneSyncEvents(cutoff) ==
    LET S == {e \in Surviving : e <= cutoff}
    IN  /\ S # {} /\ Cardinality(S) <= PruneBatch
        /\ pruned' = pruned \cup S
        /\ lost' = lost \cup {e \in S : EnvelopeLive(e)}
        /\ PruneMarks(S)
        /\ UNCHANGED <<log, redacted, msgVars, memberVars, mlsVars, readVars>>

-----------------------------------------------------------------------------
(***************************************************************************)
(* Memberships and blocks.                                                 *)
(***************************************************************************)
Exists(c) == \E a \in Accounts : role[c][a] = "owner"

BlockedEither(a, b) == <<a, b>> \in blocks \/ <<b, a>> \in blocks

\* CreateOrGetConversation of a group: each other member is told by an
\* account event that names the conversation.
CreateConversation(a, c, others) ==
    LET invited == {others[i] : i \in 1..Len(others)}
    IN  /\ ~Exists(c) /\ Len(log) + Len(others) <= MaxEvents
        /\ a \notin invited /\ \A b \in invited : ~BlockedEither(a, b)
        /\ role' = [role EXCEPT ![c] = [b \in Accounts |->
              IF b = a THEN "owner" ELSE IF b \in invited THEN "member" ELSE "none"]]
        /\ log' = log \o [i \in 1..Len(others) |->
              EventRow("membership", others[i], None, c, 0, None, NoEpoch)]
        /\ UNCHANGED <<pruned, lost, redacted, msgVars, blocks, mlsVars, markVars, readVars>>

ManageConversationMember(actor, target, c, r) ==
    /\ Len(log) < MaxEvents
    /\ CanManageMembers(role[c][actor]) /\ RoleRank[r] <= RoleRank[role[c][actor]]
    /\ ~BlockedEither(actor, target)
    /\ RoleRank[role[c][target]] < RoleRank[role[c][actor]]
    /\ role' = [role EXCEPT ![c][target] = r]
    /\ log' = Append(log, EventRow("membership", None, None, c, 0, None, NoEpoch))
    /\ UNCHANGED <<pruned, lost, redacted, msgVars, blocks, mlsVars, markVars, readVars>>

\* RemoveConversationMember: the remaining members get a conversation event,
\* the one who is gone an account event that names no conversation.
RemoveConversationMember(actor, target, c) ==
    /\ Len(log) + 2 <= MaxEvents
    /\ Member(actor, c) /\ Member(target, c)
    /\ IF actor = target
       THEN role[c][target] = "owner" => \E b \in Accounts \ {target} : role[c][b] = "owner"
       ELSE CanManageMembers(role[c][actor]) /\ RoleRank[role[c][target]] < RoleRank[role[c][actor]]
    /\ role' = [role EXCEPT ![c][target] = "none"]
    /\ log' = log \o <<EventRow("membership", None, None, c, 0, None, NoEpoch),
                       EventRow("membership", target, None, None, 0, None, NoEpoch)>>
    /\ UNCHANGED <<pruned, lost, redacted, msgVars, blocks, mlsVars, markVars, readVars>>

BlockAccount(a, b) ==
    /\ a # b /\ <<a, b>> \in MayBlock \ blocks
    /\ blocks' = blocks \cup {<<a, b>>}
    /\ UNCHANGED <<logVars, msgVars, role, mlsVars, markVars, readVars>>

UnblockAccount(a, b) ==
    /\ <<a, b>> \in blocks
    /\ blocks' = blocks \ {<<a, b>>}
    /\ UNCHANGED <<logVars, msgVars, role, mlsVars, markVars, readVars>>

-----------------------------------------------------------------------------
(***************************************************************************)
(* MLS commit bundles: what they write to the log and to the roster.  No   *)
(* device is revoked in this module (module MlsGroup has revocations).     *)
(***************************************************************************)
Active(c, d) == roster[c][d].row /\ roster[c][d].removed = 0

Creator == [row |-> TRUE, joined |-> 0, joinedEpoch |-> 0, removed |-> 0]

\* CreateMLSCommitBundle without a commit: records a new group's creator.
RegisterMLSGroup(d, c) ==
    /\ c \notin groups /\ Member(Owner[d], c) /\ MaxEpoch > 0
    /\ groups' = groups \cup {c}
    /\ roster' = [roster EXCEPT ![c][d] = Creator]
    /\ UNCHANGED <<logVars, msgVars, memberVars, epoch, markVars, readVars>>

WelcomeRows(c, added) ==
    [i \in 1..Len(added) |-> EventRow("welcome", Owner[added[i]], added[i], c, 0, None, NoEpoch)]

\* Mutant: the join cursor lets the device see the commit that added it.
JoinSeesCommit(id, c) == [row |-> TRUE, joined |-> id - 1, joinedEpoch |-> epoch[c] + 1, removed |-> 0]

\* The row of device x after the commit with event id: a join starts after
\* the commit, a removal ends with it.
JoinWindow(id, c) == [row |-> TRUE, joined |-> id, joinedEpoch |-> epoch[c] + 1, removed |-> 0]

\* CreateMLSCommitBundle with a commit.  A first bundle also makes the group,
\* unless it adds no one.  A device is added when its account is a member and
\* it is not in the group, removed when its account has left.
CreateMLSCommitBundle(d, c, added, removed) ==
    LET id == Len(log) + 1
        new == {added[i] : i \in 1..Len(added)}
        creator(x) == c \notin groups /\ x = d
    IN  /\ Len(log) + 1 + Len(added) <= MaxEvents /\ epoch[c] < MaxEpoch
        /\ Member(Owner[d], c) /\ d \notin removed
        /\ \/ c \in groups /\ Active(c, d)
           \/ c \notin groups /\ removed = {} /\ added # <<>> /\ d \notin new
        /\ (new = {} /\ removed = {}) =>
               \A x \in Devices : Active(c, x) => Member(Owner[x], c)
        /\ \A x \in new : Member(Owner[x], c) /\ ~Active(c, x)
        /\ \A x \in removed : Active(c, x) /\ ~Member(Owner[x], c)
        /\ groups' = groups \cup {c}
        /\ epoch' = [epoch EXCEPT ![c] = epoch[c] + 1]
        /\ roster' = [roster EXCEPT ![c] = [x \in Devices |->
              IF x \in new THEN JoinWindow(id, c)
              ELSE IF x \in removed THEN [roster[c][x] EXCEPT !.removed = id]
              ELSE IF creator(x) THEN Creator
              ELSE roster[c][x]]]
        /\ log' = Append(log, EventRow("commit", None, None, c, 0, None, NoEpoch))
                      \o WelcomeRows(c, added)
        /\ UNCHANGED <<pruned, lost, redacted, msgVars, memberVars, markVars, readVars>>

-----------------------------------------------------------------------------
(***************************************************************************)
(* A sync request of device d.                                             *)
(***************************************************************************)

\* Mutant: hidden events count towards the page.
PageCountsHidden(d) ==
    {e \in Surviving :
        /\ e > cursor[d] /\ Visible(d, e)
        /\ Cardinality({f \in Surviving : f > cursor[d] /\ f <= e}) <= PageLimit}

\* listSyncEventsPage: the first PageLimit visible events after the cursor;
\* hidden ones do not count.
PageOf(d) ==
    LET visible == {e \in Surviving : e > cursor[d] /\ Visible(d, e)}
    IN  {e \in visible : Cardinality({f \in visible : f <= e}) <= PageLimit}

\* The page reaches the device, which moves its cursor to the last event.
Answer(d, events) ==
    /\ cursor' = [cursor EXCEPT ![d] = IF events = {} THEN @ ELSE Max(events)]
    /\ pc' = [pc EXCEPT ![d] = "idle"]
    /\ page' = [page EXCEPT ![d] = {}]
    /\ gap' = [gap EXCEPT ![d] = {}]

\* The request goes on to its next statement.
Proceed(d, at) == pc' = [pc EXCEPT ![d] = at] /\ UNCHANGED <<cursor, page, gap>>

\* The first statement.  A request from the start is answered at once.
ListSyncEventsPage(d) ==
    /\ pc[d] = "idle"
    /\ \/ cursor[d] = 0 /\ Answer(d, PageOf(d))
       \/ /\ cursor[d] > 0
          /\ page' = [page EXCEPT ![d] = PageOf(d)]
          /\ gap' = [gap EXCEPT ![d] = {e \in pruned : e > cursor[d] /\ Visible(d, e)}]
          /\ pc' = [pc EXCEPT ![d] = "state"]
          /\ UNCHANGED cursor
    /\ UNCHANGED <<logVars, msgVars, memberVars, mlsVars, markVars>>

\* The second: a cursor at or past the highest id ever pruned lost nothing.
CheckPruneState(d) ==
    /\ pc[d] = "state"
    /\ \/ cursor[d] >= prunedThrough /\ Answer(d, page[d])
       \/ cursor[d] < prunedThrough /\ Proceed(d, "marks")
    /\ UNCHANGED <<logVars, msgVars, memberVars, mlsVars, markVars>>

AnyDeviceMark(d, after) == \E x \in Devices \cup {None} : acctMark[Owner[d]][x] > after

\* The account's marks: its events for every device, and those for d.
AccountExpired(d, after) ==
    acctMark[Owner[d]][None] > after \/ acctMark[Owner[d]][d] > after

\* Mutants: a window that ended before the newest pruned event never counts;
\* a window that started after it does.
EndedNeverCounts(w, mark, after) == w.row /\ mark > w.joined /\ (w.removed = 0 \/ mark <= w.removed)
\* Roster row w may have shown a pruned event after the cursor, the newest
\* of them mark: when the device was removed before mark, an older one inside
\* its window counts if the window reaches past the cursor.
WindowCounts(w, mark, after) ==
    /\ w.row /\ mark > w.joined
    /\ w.removed = 0 \/ (w.removed > after /\ w.removed > w.joined)

\* syncPruneMarksExpiredQuery.
MarksExpired(d, after) ==
    \/ AccountExpired(d, after)
    \/ \E c \in Conversations :
        /\ Member(Owner[d], c)
        /\ \/ convMark[c][FALSE] > after
           \/ /\ convMark[c][TRUE] > after
              /\ c \notin groups \/ WindowCounts(roster[c][d], convMark[c][TRUE], after)

\* The third.  An expired cursor is final for the device: it must recover.
CheckPruneMarks(d) ==
    /\ pc[d] = "marks"
    /\ \/ MarksExpired(d, cursor[d]) /\ Proceed(d, "expired")
       \/ /\ ~MarksExpired(d, cursor[d])
          /\ \/ cursor[d] >= LegacyThrough /\ Answer(d, page[d])
             \/ cursor[d] < LegacyThrough /\ Proceed(d, "legacy")
    /\ UNCHANGED <<logVars, msgVars, memberVars, mlsVars, markVars>>

\* The events syncOldestExpr takes the least of: roster windows and envelopes
\* are not looked at, and own events are taken for every device.
LegacySeen(d) ==
    {e \in Surviving : \/ log[e].acct = Owner[d]
                       \/ ConversationEvent(d, e) /\ ~BlockedFor(Owner[d], e)}

\* legacySyncCursorExpiredQuery.
LegacyExpired(d, after) ==
    /\ after \notin LegacySeen(d)
    /\ LegacySeen(d) # {} /\ after < Min(LegacySeen(d)) - 1

\* The fourth, for a cursor into ids pruned before there were marks.
CheckLegacy(d) ==
    /\ pc[d] = "legacy"
    /\ \/ LegacyExpired(d, cursor[d]) /\ Proceed(d, "expired")
       \/ ~LegacyExpired(d, cursor[d]) /\ Answer(d, page[d])
    /\ UNCHANGED <<logVars, msgVars, memberVars, mlsVars, markVars>>

-----------------------------------------------------------------------------
Write ==
    \/ \E d \in Senders, k \in Keys, c \in Conversations, timed \in BOOLEAN :
          \E ep \in NamedEpochs(c) : SaveMessageEnvelope(d, k, c, timed, ep)
    \/ \E m \in envelopes : \/ \E ep \in NamedEpochs(m.conv) : UpdateMessageEnvelope(m, ep)
                            \/ DeleteMessageEnvelope(m)
                            \/ Expire(m)
    \/ \E S \in SUBSET envelopes, backfill \in BOOLEAN : PruneExpiredContent(S, backfill)
    \/ \E cutoff \in Surviving : PruneSyncEvents(cutoff)
    \/ \E a \in Accounts, c \in Conversations, others \in MemberLists :
          CreateConversation(a, c, others)
    \/ \E a, b \in Accounts, c \in Conversations :
          \/ \E r \in GrantRoles : ManageConversationMember(a, b, c, r)
          \/ RemoveConversationMember(a, b, c)
    \/ \E a, b \in Accounts : BlockAccount(a, b) \/ UnblockAccount(a, b)
    \/ \E d \in Devices, c \in Conversations :
          \/ RegisterMLSGroup(d, c)
          \/ \E added \in AddLists, removed \in SUBSET Devices :
                CreateMLSCommitBundle(d, c, added, removed)

Read(d) ==
    \/ ListSyncEventsPage(d) \/ CheckPruneState(d) \/ CheckPruneMarks(d) \/ CheckLegacy(d)

Next == Write \/ \E d \in Readers : Read(d)

Spec == Init /\ [][Next]_vars

\* A connected device keeps asking, and the server keeps answering.
FairSpec == Spec /\ \A d \in Readers : WF_vars(Read(d))

-----------------------------------------------------------------------------
(***************************************************************************)
(* Properties.                                                             *)
(***************************************************************************)

\* Every variable has its type.
TypeOK ==
    /\ log \in Seq(Event)
    /\ pruned \subseteq DOMAIN log /\ lost \subseteq pruned /\ redacted \subseteq DOMAIN log
    /\ envelopes \subseteq Envelope
    /\ expired \subseteq DOMAIN log /\ deleted \subseteq DOMAIN log
    /\ role \in [Conversations -> [Accounts -> Roles]]
    /\ blocks \subseteq Accounts \X Accounts
    /\ groups \subseteq Conversations /\ epoch \in [Conversations -> Nat]
    /\ roster \in [Conversations -> [Devices -> Window]]
    /\ prunedThrough \in Nat
    /\ acctMark \in [Accounts -> [Devices \cup {None} -> Nat]]
    /\ convMark \in [Conversations -> [BOOLEAN -> Nat]]
    /\ cursor \in [Readers -> Nat]
    /\ pc \in [Readers -> {"idle", "state", "marks", "legacy", "expired"}]
    /\ page \in [Readers -> SUBSET DOMAIN log]
    /\ gap \in [Readers -> SUBSET DOMAIN log]

\* A request of d is answered with its page.
Answered(d) == pc[d] \in {"state", "marks", "legacy"} /\ pc'[d] = "idle"

\* ListSyncEvents never answers over a hole: when a request from a cursor the
\* marks cover is answered, no event that was pruned, was visible to the
\* device when the page was read, and is still in its scope, lies after the
\* cursor, whatever retention, senders, members and commits did in between.
NoSilentGap ==
    [][\A d \in Readers :
          Answered(d) /\ cursor[d] >= LegacyThrough => \A e \in gap[d] : ~InScope(d, e)]_vars

\* syncCursorExpired refuses a cursor only for an event after it that could
\* be served when retention took it and is in the device's scope: blocks,
\* the epoch a late message names and plain events from before the account
\* was added are the only ways it errs towards expired.
ExpiryIsEarned ==
    [][\A d \in Readers :
          pc[d] = "marks" /\ pc'[d] = "expired" =>
              \E e \in lost : e > cursor[d] /\ InScope(d, e)]_vars

\* The prune marks speak for event e: for everyone, and for its own chain.
Marked(e) ==
    /\ e <= prunedThrough
    /\ log[e].acct # None => e <= acctMark[log[e].acct][log[e].dev]
    /\ log[e].acct = None /\ log[e].conv # None =>
           e <= convMark[log[e].conv][log[e].kind \in RosterFiltered]

\* What retention took and a device could still be sent, the marks cover: a
\* pruned event without a mark is hidden from every cursor for good, because
\* its envelope expired, went or was deleted before (migration 0044).
MarksCover ==
    \A e \in pruned : e > LegacyThrough /\ EnvelopeLive(e) => Marked(e)

\* No event keeps a message's ciphertext once its envelope row is gone, nor a
\* superseded one once the message is deleted (redactMessageSyncEventsSQL in
\* every path that removes or deletes an envelope).
NoOrphanedCopy ==
    \A e \in Surviving \ redacted :
        log[e].kind \in MessageKinds =>
            /\ \E m \in envelopes : m.id = log[e].msg
            /\ log[e].msg \in deleted => log[e].kind = "deleted"

\* What a group member is sent, it can decrypt: a roster-filtered event that
\* a device other than the group's creator may see comes after the Welcome of
\* the device's current join (CreateMLSCommitBundle writes the commit, the
\* join cursor and the Welcome in one transaction, in this order).
WelcomeFirst ==
    \A d \in Readers, e \in Surviving :
        LET c == log[e].conv
        IN  /\ log[e].acct = None /\ log[e].kind \in RosterFiltered
            /\ Visible(d, e) /\ c \in groups /\ roster[c][d].joined # 0
            => \E w \in roster[c][d].joined .. (e - 1) :
                  log[w].kind = "welcome" /\ log[w].dev = d /\ log[w].conv = c

\* A device that keeps asking is told it must recover or sees everything it
\* may see: again and again there is nothing visible past its cursor.
CaughtUp ==
    \A d \in Readers :
        []<>(pc[d] = "expired" \/ ~ \E e \in Surviving : e > cursor[d] /\ Visible(d, e))

\* legacySyncCursorExpiredQuery "never passes one that missed something"
\* (its comment): a cursor from before the marks is answered only when no
\* pruned event after it was visible to the device.
LegacyNeverPassesAGap ==
    [][\A d \in Readers :
          pc[d] = "legacy" /\ pc'[d] = "idle" => \A e \in gap[d] : ~InScope(d, e)]_vars
=============================================================================
