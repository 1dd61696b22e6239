---------------------------- MODULE Communities ----------------------------
(***************************************************************************)
(* Who belongs to a community, its channels, groups and direct             *)
(* conversations, and the limits on members and conversations.  Every      *)
(* operation is one transaction; what is at stake is what any sequence of  *)
(* them by accounts of any role adds up to.                                *)
(*                                                                         *)
(* One community is enough: two meet only in the conversation limit of an  *)
(* account, which direct and group conversations load as well.             *)
(***************************************************************************)
EXTENDS Integers, Sequences, FiniteSets, Roles

CONSTANTS
    Users,         \* accounts
    GrantedRoles,  \* bound: roles handed out
    MemberLimit,   \* limits.ConversationMembers
    RoomLimit,     \* limits.ConversationsPerAccount
    Elsewhere,     \* conversations an account has that no operation here touches
    MaxRooms,      \* bound: conversations created
    MaxSettings    \* bound: blocks and settings that differ from the default at one time

\* limits.go:86: from 2 to 1000 members.
ASSUME CommunitiesAssumption ==
    /\ IsFiniteSet(Users) /\ GrantedRoles \subseteq MemberRoles
    /\ MemberLimit \in Nat \ {0}

VARIABLES
    community, \* memberships of the community: account -> role
    rooms,     \* conversations, in the order of creation: kind, memberships, settings
    blocks,    \* account_blocks: <<blocker, blocked>>
    present    \* accounts not deleted

communityVars == <<community, rooms, blocks, present>>

NoRoles == [u \in Users |-> "none"]
MembersOf(roles) == {u \in Users : roles[u] # "none"}
RoomIds == DOMAIN rooms
Channels == {c \in RoomIds : rooms[c].kind = "community_channel"}
RoomsOf(u) == {c \in RoomIds : rooms[c].roles[u] # "none"}
Blocked(u, v) == <<u, v>> \in blocks \/ <<v, u>> \in blocks

CommunitiesInit ==
    /\ community = NoRoles /\ rooms = <<>>
    /\ blocks = {} /\ present = Users

-----------------------------------------------------------------------------
(* Limits.                                                                 *)

\* checkOwnConversations, checkOtherConversations
checkConversations(u, adding) == Elsewhere[u] + Cardinality(RoomsOf(u)) + adding <= RoomLimit

checkMembers(current, adding) == current + adding <= MemberLimit

checkNewConversationMember(c, u) ==
    /\ checkMembers(Cardinality(MembersOf(rooms[c].roles)), 1)
    /\ checkConversations(u, 1)

\* Room in the community and in its largest channel, and for every channel.
checkNewCommunityMember(u) ==
    /\ checkMembers(Cardinality(MembersOf(community)), 1)
    /\ \A c \in Channels : checkMembers(Cardinality(MembersOf(rooms[c].roles)), 1)
    /\ checkConversations(u, Cardinality(Channels))

-----------------------------------------------------------------------------
(* Communities and channels.                                               *)

CreateCommunity(a) ==
    /\ a \in present /\ MembersOf(community) = {}
    /\ \A c \in RoomIds : rooms[c].kind # "community_channel"
    /\ community' = [NoRoles EXCEPT ![a] = "owner"]
    /\ UNCHANGED <<rooms, blocks, present>>

NewRoom(kind, roles) ==
    rooms' = Append(rooms, [kind |-> kind, roles |-> roles, settings |-> {}])

\* Every member of the community joins, or the channel is refused.
CreateChannelWithConversation(a) ==
    /\ Len(rooms) < MaxRooms
    /\ CanManageMembers(community[a])
    /\ checkMembers(0, Cardinality(MembersOf(community)))
    /\ \A u \in MembersOf(community) : checkConversations(u, 1)
    /\ NewRoom("community_channel", community)
    /\ UNCHANGED <<community, blocks, present>>

\* What the actor's role lets it do to the target's, which may be "none".
MayGrant(roles, a, t, role) ==
    /\ CanManageMembers(roles[a]) /\ RoleRank[role] <= RoleRank[roles[a]]
    /\ t \in present /\ ~Blocked(a, t)
    /\ roles[t] # "none" => RoleRank[roles[t]] < RoleRank[roles[a]]

\* The role holds in the community and in all its channels, which the target
\* joins where it is missing.
ManageCommunityMember(a, t, role) ==
    /\ MayGrant(community, a, t, role)
    /\ community[t] = "none" => checkNewCommunityMember(t)
    /\ community' = [community EXCEPT ![t] = role]
    /\ rooms' = [c \in RoomIds |-> IF c \in Channels THEN [rooms[c] EXCEPT !.roles[t] = role] ELSE rooms[c]]
    /\ UNCHANGED <<blocks, present>>

-----------------------------------------------------------------------------
(* Conversations.                                                          *)

\* A pair that has a direct conversation is given that one; a further
\* conversation of a channel takes members of its community.
CreateOrGetConversation(a, kind, others) ==
    /\ a \in present /\ a \notin others /\ Len(rooms) < MaxRooms
    /\ \A u \in others : u \in present /\ ~Blocked(a, u)
    /\ \/ /\ kind = "dm" /\ Cardinality(others) = 1
          /\ \A c \in RoomIds : rooms[c].kind = "dm" => MembersOf(rooms[c].roles) # others \cup {a}
       \/ kind = "group"
       \/ kind = "community_channel" /\ Channels # {} /\ others \cup {a} \subseteq MembersOf(community)
    /\ checkMembers(0, 1 + Cardinality(others))
    /\ \A u \in others \cup {a} : checkConversations(u, 1)
    /\ NewRoom(kind, [u \in Users |-> IF u = a THEN "owner" ELSE IF u \in others THEN "member" ELSE "none"])
    /\ UNCHANGED <<community, blocks, present>>

\* Anyone present may be added to a channel.
ManageAnyMember(a, t, role, c) ==
    /\ rooms[c].kind # "dm" /\ MayGrant(rooms[c].roles, a, t, role)
    /\ rooms[c].roles[t] = "none" => checkNewConversationMember(c, t)
    /\ rooms' = [rooms EXCEPT ![c].roles[t] = role]
    /\ UNCHANGED <<community, blocks, present>>

ManageConversationMember(a, t, role, c) ==
    /\ rooms[c].kind # "dm" /\ MayGrant(rooms[c].roles, a, t, role)
    /\ rooms[c].roles[t] = "none" =>
          /\ rooms[c].kind = "community_channel" => community[t] # "none"
          /\ checkNewConversationMember(c, t)
    /\ rooms' = [rooms EXCEPT ![c].roles[t] = role]
    /\ UNCHANGED <<community, blocks, present>>

\* Groups only; the last owner does not leave.
RemoveConversationMember(a, t, c) ==
    LET roles == rooms[c].roles IN
    /\ rooms[c].kind = "group" /\ roles[a] # "none" /\ roles[t] # "none"
    /\ IF a = t THEN roles[t] = "owner" => \E u \in Users \ {t} : roles[u] = "owner"
       ELSE CanManageMembers(roles[a]) /\ RoleRank[roles[t]] < RoleRank[roles[a]]
    /\ rooms' = [rooms EXCEPT ![c].roles[t] = "none"]
    /\ UNCHANGED <<community, blocks, present>>

\* What MaxSettings bounds.
Changed ==
    Cardinality(blocks)
    + Cardinality({x \in RoomIds \X {"admins", "retention"} : x[2] \in rooms[x[1]].settings})

ChangeSetting(c, setting) ==
    /\ rooms' = [rooms EXCEPT ![c].settings = IF setting \in @ THEN @ \ {setting} ELSE @ \cup {setting}]
    /\ blocks' = blocks
    /\ Changed' <= MaxSettings

\* posting_policy 'everyone' or 'admins'
SetConversationPostingPolicy(a, c) ==
    /\ CanPostRestricted(rooms[c].roles[a]) /\ rooms[c].kind = "group"
    /\ ChangeSetting(c, "admins")
    /\ UNCHANGED <<community, present>>

\* retention_seconds and its disappearing_policies row, set or cleared
UpdateConversationRetention(a, c) ==
    /\ CanManageMembers(rooms[c].roles[a])
    /\ ChangeSetting(c, "retention")
    /\ UNCHANGED <<community, present>>

-----------------------------------------------------------------------------
(* Accounts.                                                               *)

SetBlock(u, v) ==
    /\ u # v /\ v \in present
    /\ blocks' = IF <<u, v>> \in blocks THEN blocks \ {<<u, v>>} ELSE blocks \cup {<<u, v>>}
    /\ UNCHANGED <<community, rooms, present>>
    /\ Changed' <= MaxSettings

\* DeleteAccountData drops the account's memberships; the last account, the
\* instance's owner, stays.
DeleteAccount(u) ==
    /\ u \in present /\ present # {u}
    /\ present' = present \ {u}
    /\ community' = [community EXCEPT ![u] = "none"]
    /\ rooms' = [c \in RoomIds |-> [rooms[c] EXCEPT !.roles[u] = "none"]]
    /\ UNCHANGED blocks

CommunitiesNext ==
    \/ \E a \in Users : CreateCommunity(a) \/ CreateChannelWithConversation(a) \/ DeleteAccount(a)
    \/ \E a \in Users, kind \in {"dm", "group", "community_channel"}, others \in SUBSET Users :
          CreateOrGetConversation(a, kind, others)
    \/ \E a, t \in Users : \/ SetBlock(a, t)
                           \/ \E role \in GrantedRoles : ManageCommunityMember(a, t, role)
                           \/ \E c \in RoomIds : RemoveConversationMember(a, t, c)
                           \/ \E role \in GrantedRoles, c \in RoomIds : ManageConversationMember(a, t, role, c)
    \/ \E a \in Users, c \in RoomIds : SetConversationPostingPolicy(a, c) \/ UpdateConversationRetention(a, c)

-----------------------------------------------------------------------------
(* Properties.                                                             *)

\* A channel holds members of its community only, and neither it nor any other
\* conversation outgrows the member limit, which sizes every fan-out: although
\* a role change joins an existing community member to every channel without
\* looking at the channels' sizes (ManageCommunityMember), and channels gain
\* members one by one as well (ManageConversationMember).
ChannelsWithinCommunity ==
    /\ \A c \in Channels : MembersOf(rooms[c].roles) \subseteq MembersOf(community)
    /\ Cardinality(MembersOf(community)) <= MemberLimit
    /\ \A c \in RoomIds : Cardinality(MembersOf(rooms[c].roles)) <= MemberLimit

=============================================================================
