------------------------- MODULE Operations_proofs --------------------------
(***************************************************************************)
(* What is proved of the running server's communities and of its blob      *)
(* store.                                                                  *)
(***************************************************************************)
EXTENDS Communities, Blobs, FiniteSetTheorems, TLAPS

-----------------------------------------------------------------------------
(***************************************************************************)
(* Communities: the members of a channel are members of its community, for *)
(* any accounts, roles and limits, and however joins, removals, grants and *)
(* bans interleave.                                                        *)
(***************************************************************************)

CommunitiesSpec == CommunitiesInit /\ [][CommunitiesNext]_communityVars

Room == [kind : {"dm", "group", "community_channel"}, roles : [Users -> Roles],
         settings : SUBSET {"admins", "retention"}]

CommunitiesInv ==
    /\ community \in [Users -> Roles]
    /\ rooms \in Seq(Room)
    /\ ChannelsWithinCommunity

\* The members that roles name can be counted.
LEMMA MembersCount ==
    ASSUME NEW roles
    PROVE  IsFiniteSet(MembersOf(roles)) /\ Cardinality(MembersOf(roles)) \in Nat
<1>1. MembersOf(roles) \subseteq Users
  BY Zenon DEF MembersOf
<1>2. QED
  BY Zenon, <1>1, CommunitiesAssumption, FS_Subset, FS_CardinalityType

\* Roles that name no further member name no more members.
LEMMA NoMoreMembers ==
    ASSUME NEW old, NEW new, MembersOf(new) \subseteq MembersOf(old)
    PROVE  Cardinality(MembersOf(new)) <= Cardinality(MembersOf(old))
BY Zenon, MembersCount, FS_Subset

\* A role given to one account adds one member at most, and none if the
\* account had a role.
LEMMA RoleGiven ==
    ASSUME NEW roles \in [Users -> Roles], NEW t \in Users, NEW role \in MemberRoles,
           Cardinality(MembersOf(roles)) <= MemberLimit,
           roles[t] = "none" => checkMembers(Cardinality(MembersOf(roles)), 1)
    PROVE  /\ [roles EXCEPT ![t] = role] \in [Users -> Roles]
           /\ MembersOf([roles EXCEPT ![t] = role]) = MembersOf(roles) \cup {t}
           /\ Cardinality(MembersOf([roles EXCEPT ![t] = role])) <= MemberLimit
<1>1. [roles EXCEPT ![t] = role] \in [Users -> Roles]
  BY Zenon DEF Roles
<1>2. MembersOf([roles EXCEPT ![t] = role]) = MembersOf(roles) \cup {t}
  BY Zenon DEF MembersOf, MemberRoles
<1>3. CASE t \in MembersOf(roles)
  <2>1. MembersOf(roles) \cup {t} = MembersOf(roles)
    BY Zenon, <1>3
  <2>2. QED
    BY Zenon, <1>1, <1>2, <2>1
<1>4. CASE t \notin MembersOf(roles)
  <2>1. Cardinality(MembersOf(roles) \cup {t}) = Cardinality(MembersOf(roles)) + 1
    BY Zenon, <1>4, MembersCount, FS_AddElement
  <2>2. Cardinality(MembersOf(roles)) + 1 <= MemberLimit
    BY Zenon, <1>4 DEF MembersOf, checkMembers
  <2>3. QED
    BY Zenon, <1>1, <1>2, <2>1, <2>2
<1>5. QED
  BY Zenon, <1>3, <1>4

\* A role taken away removes that member.
LEMMA RoleTaken ==
    ASSUME NEW roles \in [Users -> Roles], NEW t \in Users
    PROVE  /\ [roles EXCEPT ![t] = "none"] \in [Users -> Roles]
           /\ MembersOf([roles EXCEPT ![t] = "none"]) = MembersOf(roles) \ {t}
           /\ Cardinality(MembersOf([roles EXCEPT ![t] = "none"])) <= Cardinality(MembersOf(roles))
<1>1. [roles EXCEPT ![t] = "none"] \in [Users -> Roles]
  BY Zenon DEF Roles
<1>2. MembersOf([roles EXCEPT ![t] = "none"]) = MembersOf(roles) \ {t}
  BY Zenon DEF MembersOf
<1>3. QED
  BY Zenon, <1>1, <1>2, NoMoreMembers

\* Conversations changed in place are still a sequence of them.
LEMMA RoomsInPlace ==
    ASSUME rooms \in Seq(Room), NEW new, new = [c \in RoomIds |-> new[c]], \A c \in RoomIds : new[c] \in Room
    PROVE  new \in Seq(Room) /\ DOMAIN new = RoomIds
<1>1. RoomIds = 1..Len(rooms) /\ Len(rooms) \in Nat
  BY DEF RoomIds
<1>2. new \in [1..Len(rooms) -> Room] /\ DOMAIN new = RoomIds
  BY Zenon, <1>1
<1>3. QED
  BY <1>1, <1>2, SMT

\* A step that leaves the community and every conversation's kind as they are
\* and adds no member beyond the limit or from outside the community.
LEMMA RoomsWithin ==
    ASSUME CommunitiesInv, UNCHANGED community,
           rooms' = [c \in RoomIds |-> rooms'[c]],
           \A c \in RoomIds :
               /\ rooms'[c] \in Room /\ rooms'[c].kind = rooms[c].kind
               /\ rooms[c].kind = "community_channel" => MembersOf(rooms'[c].roles) \subseteq MembersOf(community)
               /\ Cardinality(MembersOf(rooms'[c].roles)) <= MemberLimit
    PROVE  CommunitiesInv'
<1>1. rooms' \in Seq(Room) /\ RoomIds' = RoomIds
  BY Zenon, RoomsInPlace DEF CommunitiesInv, RoomIds
<1>2. Channels' = Channels
  BY Zenon, <1>1 DEF Channels
<1>3. MembersOf(community)' = MembersOf(community)
  BY Zenon
<1>4. \A c \in Channels' : MembersOf(rooms'[c].roles) \subseteq MembersOf(community')
  BY Zenon, <1>2 DEF Channels
<1>5. QED
  BY Zenon, <1>1, <1>4 DEF CommunitiesInv, ChannelsWithinCommunity

\* A conversation's roles are changed in one place.
LEMMA OneRoomWithin ==
    ASSUME CommunitiesInv, UNCHANGED community, NEW c \in RoomIds, NEW room \in Room,
           rooms' = [rooms EXCEPT ![c] = room], room.kind = rooms[c].kind,
           room.kind = "community_channel" => MembersOf(room.roles) \subseteq MembersOf(community),
           Cardinality(MembersOf(room.roles)) <= MemberLimit
    PROVE  CommunitiesInv'
<1>1. rooms' = [d \in RoomIds |-> rooms'[d]] /\ \A d \in RoomIds : rooms'[d] = IF d = c THEN room ELSE rooms[d]
  BY Zenon DEF CommunitiesInv, RoomIds
<1>2. \A d \in RoomIds : /\ rooms[d] \in Room
                         /\ rooms[d].kind = "community_channel" => MembersOf(rooms[d].roles) \subseteq MembersOf(community)
                         /\ Cardinality(MembersOf(rooms[d].roles)) <= MemberLimit
  BY DEF CommunitiesInv, RoomIds, ChannelsWithinCommunity, Channels
<1>3. QED
  BY Zenon, <1>1, <1>2, RoomsWithin

\* A new conversation.
LEMMA RoomAdded ==
    ASSUME CommunitiesInv, UNCHANGED community, NEW kind \in {"dm", "group", "community_channel"},
           NEW roles \in [Users -> Roles], NewRoom(kind, roles),
           kind = "community_channel" => MembersOf(roles) \subseteq MembersOf(community),
           Cardinality(MembersOf(roles)) <= MemberLimit
    PROVE  CommunitiesInv'
<1> DEFINE room == [kind |-> kind, roles |-> roles, settings |-> {}]
<1>1. room \in Room /\ room.kind = kind /\ room.roles = roles
  BY Zenon DEF Room
<1>2. rooms' = Append(rooms, room) /\ rooms \in Seq(Room)
  BY Zenon DEF NewRoom, CommunitiesInv
<1> HIDE DEF room
<1>3. /\ rooms' \in Seq(Room) /\ RoomIds' = 1..(Len(rooms) + 1) /\ RoomIds = 1..Len(rooms) /\ Len(rooms) \in Nat
      /\ rooms'[Len(rooms) + 1] = room
      /\ \A c \in RoomIds : rooms'[c] = rooms[c]
  BY <1>1, <1>2 DEF RoomIds
<1>4. \A c \in RoomIds' : c \in RoomIds \/ rooms'[c] = room
  BY <1>3
<1>5. \A c \in Channels' : MembersOf(rooms'[c].roles) \subseteq MembersOf(community)
  BY Zenon, <1>1, <1>3, <1>4 DEF CommunitiesInv, ChannelsWithinCommunity, Channels
<1>6. \A c \in RoomIds' : Cardinality(MembersOf(rooms'[c].roles)) <= MemberLimit
  BY Zenon, <1>1, <1>3, <1>4 DEF CommunitiesInv, ChannelsWithinCommunity
<1>7. QED
  BY Zenon, <1>3, <1>5, <1>6 DEF CommunitiesInv, ChannelsWithinCommunity

\* Creating a community and its channels.
LEMMA CreateCommunityInv ==
    ASSUME CommunitiesInv, NEW a \in Users, CreateCommunity(a) \/ CreateChannelWithConversation(a)
    PROVE  CommunitiesInv'
<1>1. CASE CreateCommunity(a)
  <2>1. NoRoles \in [Users -> Roles] /\ MembersOf(NoRoles) = {}
    BY Zenon DEF NoRoles, Roles, MembersOf
  <2>2. Cardinality(MembersOf(NoRoles)) = 0
    BY Zenon, <2>1, FS_EmptySet
  <2>3. /\ community' \in [Users -> Roles] /\ Cardinality(MembersOf(community')) <= MemberLimit
        /\ UNCHANGED rooms
    <3>1. "owner" \in MemberRoles
      BY Zenon DEF MemberRoles
    <3>2. Cardinality(MembersOf(NoRoles)) <= MemberLimit /\ checkMembers(Cardinality(MembersOf(NoRoles)), 1)
      BY <2>2, CommunitiesAssumption DEF checkMembers
    <3>3. /\ [NoRoles EXCEPT ![a] = "owner"] \in [Users -> Roles]
          /\ Cardinality(MembersOf([NoRoles EXCEPT ![a] = "owner"])) <= MemberLimit
      BY Zenon, <2>1, <3>1, <3>2, RoleGiven
    <3>4. QED
      BY Zenon, <1>1, <3>3 DEF CreateCommunity
  <2>4. Channels' = {}
    BY Zenon, <1>1, <2>3 DEF CreateCommunity, Channels, RoomIds
  <2>5. QED
    BY Zenon, <2>3, <2>4 DEF CommunitiesInv, ChannelsWithinCommunity, RoomIds
<1>2. CASE CreateChannelWithConversation(a)
  <2>1. NewRoom("community_channel", community) /\ UNCHANGED community
    BY Zenon, <1>2 DEF CreateChannelWithConversation
  <2>2. QED
    BY Zenon, <2>1, RoomAdded DEF CommunitiesInv, ChannelsWithinCommunity
<1>3. QED
  BY Zenon, <1>1, <1>2

\* A community member's role, in the community and in its channels.
LEMMA ManageCommunityMemberInv ==
    ASSUME CommunitiesInv, NEW a \in Users, NEW t \in Users, NEW role \in GrantedRoles,
           ManageCommunityMember(a, t, role)
    PROVE  CommunitiesInv'
<1>1. role \in MemberRoles
  BY Zenon, CommunitiesAssumption
<1>2. /\ community' = [community EXCEPT ![t] = role]
      /\ rooms' = [c \in RoomIds |-> IF c \in Channels THEN [rooms[c] EXCEPT !.roles[t] = role] ELSE rooms[c]]
      /\ community[t] = "none" => checkMembers(Cardinality(MembersOf(community)), 1)
  BY Zenon DEF ManageCommunityMember, checkNewCommunityMember
<1>3. /\ community' \in [Users -> Roles] /\ MembersOf(community') = MembersOf(community) \cup {t}
      /\ Cardinality(MembersOf(community')) <= MemberLimit
  BY Zenon, <1>1, <1>2, RoleGiven DEF CommunitiesInv, ChannelsWithinCommunity
<1>4. \A c \in RoomIds : rooms[c] \in Room
  BY DEF CommunitiesInv, RoomIds
<1>5. ASSUME NEW c \in Channels
      PROVE  /\ rooms'[c] \in Room /\ rooms'[c].kind = rooms[c].kind
             /\ MembersOf(rooms'[c].roles) \subseteq MembersOf(community')
             /\ Cardinality(MembersOf(rooms'[c].roles)) <= MemberLimit
  <2>1. c \in RoomIds /\ rooms[c] \in Room
    BY Zenon, <1>4 DEF Channels
  <2>2. rooms'[c] = [rooms[c] EXCEPT !.roles = [@ EXCEPT ![t] = role]]
    BY Zenon, <1>2, <2>1
  <2>3. /\ rooms[c].roles \in [Users -> Roles] /\ rooms'[c].kind = rooms[c].kind
        /\ rooms'[c].roles = [rooms[c].roles EXCEPT ![t] = role]
    BY Zenon, <2>1, <2>2 DEF Room
  <2>4. rooms'[c].roles \in [Users -> Roles] /\ MembersOf(rooms'[c].roles) = MembersOf(rooms[c].roles) \cup {t}
    BY Zenon, <1>1, <2>3 DEF Roles, MembersOf, MemberRoles
  <2>5. rooms'[c] \in Room
    BY <2>1, <2>2, <2>3, <2>4, Zenon DEF Room
  <2>6. MembersOf(rooms'[c].roles) \subseteq MembersOf(community')
    BY Zenon, <1>3, <2>4 DEF CommunitiesInv, ChannelsWithinCommunity
  <2>7. Cardinality(MembersOf(rooms'[c].roles)) <= Cardinality(MembersOf(community'))
    BY Zenon, <2>6, NoMoreMembers
  <2>8. Cardinality(MembersOf(rooms'[c].roles)) \in Nat /\ Cardinality(MembersOf(community')) \in Nat
    BY Zenon, MembersCount
  <2>9. QED
    BY <1>3, <2>3, <2>5, <2>6, <2>7, <2>8, CommunitiesAssumption
<1>6. \A c \in RoomIds \ Channels : rooms'[c] = rooms[c]
  BY Zenon, <1>2
<1>7. \A c \in RoomIds : rooms'[c] \in Room /\ rooms'[c].kind = rooms[c].kind
  BY Zenon, <1>4, <1>5, <1>6
<1>8. rooms' \in Seq(Room) /\ RoomIds' = RoomIds
  <2>1. rooms' = [c \in RoomIds |-> rooms'[c]]
    BY Zenon, <1>2
  <2>2. QED
    BY Zenon, <1>7, <2>1, RoomsInPlace DEF CommunitiesInv, RoomIds
<1>9. Channels' = Channels
  BY Zenon, <1>7, <1>8 DEF Channels
<1>10. \A c \in RoomIds : Cardinality(MembersOf(rooms'[c].roles)) <= MemberLimit
  BY Zenon, <1>5, <1>6 DEF CommunitiesInv, ChannelsWithinCommunity
<1>11. QED
  BY Zenon, <1>3, <1>5, <1>8, <1>9, <1>10 DEF CommunitiesInv, ChannelsWithinCommunity

\* A new direct conversation, group or further conversation of a channel.
LEMMA CreateConversationInv ==
    ASSUME CommunitiesInv, NEW a \in Users, NEW kind \in {"dm", "group", "community_channel"},
           NEW others \in SUBSET Users, CreateOrGetConversation(a, kind, others)
    PROVE  CommunitiesInv'
<1> DEFINE roles == [u \in Users |-> IF u = a THEN "owner" ELSE IF u \in others THEN "member" ELSE "none"]
<1>1. roles \in [Users -> Roles] /\ MembersOf(roles) = others \cup {a}
  BY Zenon DEF Roles, MemberRoles, MembersOf
<1>2. IsFiniteSet(others) /\ Cardinality(others) \in Nat
  BY Zenon, CommunitiesAssumption, FS_Subset, FS_CardinalityType
<1>3. a \notin others /\ checkMembers(0, 1 + Cardinality(others)) /\ NewRoom(kind, roles) /\ UNCHANGED community
  BY Zenon DEF CreateOrGetConversation
<1>4. Cardinality(others \cup {a}) = Cardinality(others) + 1
  BY Zenon, <1>2, <1>3, FS_AddElement
<1>5. Cardinality(MembersOf(roles)) <= MemberLimit
  BY <1>1, <1>2, <1>3, <1>4 DEF checkMembers
<1>6. kind = "community_channel" => MembersOf(roles) \subseteq MembersOf(community)
  BY Zenon, <1>1 DEF CreateOrGetConversation
<1> HIDE DEF roles
<1>7. QED
  BY Zenon, <1>1, <1>3, <1>5, <1>6, RoomAdded

\* Members and settings of one conversation.
LEMMA OneRoomInv ==
    ASSUME CommunitiesInv, NEW a \in Users, NEW t \in Users, NEW c \in RoomIds,
           \/ \E role \in GrantedRoles : ManageConversationMember(a, t, role, c)
           \/ RemoveConversationMember(a, t, c)
           \/ SetConversationPostingPolicy(a, c) \/ UpdateConversationRetention(a, c)
    PROVE  CommunitiesInv'
<1>1. /\ rooms[c] \in Room /\ rooms[c].roles \in [Users -> Roles]
      /\ Cardinality(MembersOf(rooms[c].roles)) <= MemberLimit
      /\ rooms[c].kind = "community_channel" => MembersOf(rooms[c].roles) \subseteq MembersOf(community)
      /\ c \in DOMAIN rooms
  <2>1. c \in DOMAIN rooms /\ rooms[c] \in Room
    BY DEF CommunitiesInv, RoomIds
  <2>2. rooms[c].roles \in [Users -> Roles]
    BY Zenon, <2>1 DEF Room
  <2>3. QED
    BY Zenon, <2>1, <2>2 DEF CommunitiesInv, ChannelsWithinCommunity, Channels
<1>2. ASSUME NEW role \in GrantedRoles, ManageConversationMember(a, t, role, c) PROVE CommunitiesInv'
  <2> DEFINE roles == [rooms[c].roles EXCEPT ![t] = role]
             room == [rooms[c] EXCEPT !.roles = roles]
  <2>1. role \in MemberRoles
    BY Zenon, CommunitiesAssumption
  <2>2. rooms[c].roles[t] = "none" =>
            /\ checkMembers(Cardinality(MembersOf(rooms[c].roles)), 1)
            /\ rooms[c].kind = "community_channel" => t \in MembersOf(community)
    BY Zenon, <1>2 DEF ManageConversationMember, checkNewConversationMember, MembersOf
  <2>3. /\ roles \in [Users -> Roles] /\ MembersOf(roles) = MembersOf(rooms[c].roles) \cup {t}
        /\ Cardinality(MembersOf(roles)) <= MemberLimit
    BY Zenon, <1>1, <2>1, <2>2, RoleGiven
  <2>4. rooms' = [rooms EXCEPT ![c] = room] /\ UNCHANGED community
    BY Zenon, <1>1, <1>2 DEF ManageConversationMember
  <2>5. t \notin MembersOf(rooms[c].roles) => rooms[c].roles[t] = "none"
    BY Zenon DEF MembersOf
  <2>6. rooms[c].kind = "community_channel" => MembersOf(roles) \subseteq MembersOf(community)
    BY Zenon, <1>1, <2>2, <2>3, <2>5
  <2> HIDE DEF roles
  <2>7. room \in Room /\ room.kind = rooms[c].kind /\ room.roles = roles
    BY Zenon, <1>1, <2>3 DEF Room
  <2> HIDE DEF room
  <2>8. QED
    BY Zenon, <2>3, <2>4, <2>6, <2>7, OneRoomWithin
<1>3. CASE RemoveConversationMember(a, t, c)
  <2> DEFINE roles == [rooms[c].roles EXCEPT ![t] = "none"]
             room == [rooms[c] EXCEPT !.roles = roles]
  <2>1. /\ roles \in [Users -> Roles] /\ MembersOf(roles) \subseteq MembersOf(rooms[c].roles)
        /\ Cardinality(MembersOf(roles)) <= Cardinality(MembersOf(rooms[c].roles))
    BY ZenonT(60), <1>1, RoleTaken
  <2>2. rooms' = [rooms EXCEPT ![c] = room] /\ UNCHANGED community
    BY Zenon, <1>1, <1>3 DEF RemoveConversationMember
  <2>3. Cardinality(MembersOf(roles)) <= MemberLimit
    BY <1>1, <2>1, MembersCount, CommunitiesAssumption
  <2> HIDE DEF roles
  <2>4. room \in Room /\ room.kind = rooms[c].kind /\ room.roles = roles
    BY Zenon, <1>1, <2>1 DEF Room
  <2> HIDE DEF room
  <2>5. QED
    BY Zenon, <1>1, <2>1, <2>2, <2>3, <2>4, OneRoomWithin
<1>4. ASSUME NEW setting \in {"admins", "retention"}, ChangeSetting(c, setting), UNCHANGED community
      PROVE  CommunitiesInv'
  <2> DEFINE settings == IF setting \in rooms[c].settings THEN rooms[c].settings \ {setting}
                         ELSE rooms[c].settings \cup {setting}
             room == [rooms[c] EXCEPT !.settings = settings]
  <2>1. settings \in SUBSET {"admins", "retention"}
    BY Zenon, <1>1 DEF Room
  <2>2. rooms' = [rooms EXCEPT ![c] = room]
    BY Zenon, <1>1, <1>4 DEF ChangeSetting, Room
  <2> HIDE DEF settings
  <2>3. room \in Room /\ room.kind = rooms[c].kind /\ room.roles = rooms[c].roles
    BY Zenon, <1>1, <2>1 DEF Room
  <2> HIDE DEF room
  <2>4. QED
    BY Zenon, <1>1, <1>4, <2>2, <2>3, OneRoomWithin
<1>5. QED
  BY Zenon, <1>2, <1>3, <1>4 DEF SetConversationPostingPolicy, UpdateConversationRetention

\* An account that goes leaves the community and every conversation.
LEMMA DeleteAccountInv == ASSUME CommunitiesInv, NEW u \in Users, DeleteAccount(u) PROVE CommunitiesInv'
<1>1. /\ community' = [community EXCEPT ![u] = "none"]
      /\ rooms' = [c \in RoomIds |-> [rooms[c] EXCEPT !.roles[u] = "none"]]
  BY Zenon DEF DeleteAccount
<1>2. /\ community' \in [Users -> Roles] /\ MembersOf(community') = MembersOf(community) \ {u}
      /\ Cardinality(MembersOf(community')) <= Cardinality(MembersOf(community))
  BY Zenon, <1>1, RoleTaken DEF CommunitiesInv
<1>3. ASSUME NEW c \in RoomIds
      PROVE  /\ rooms'[c] \in Room /\ rooms'[c].kind = rooms[c].kind
             /\ MembersOf(rooms'[c].roles) = MembersOf(rooms[c].roles) \ {u}
             /\ Cardinality(MembersOf(rooms'[c].roles)) <= MemberLimit
  <2>1. rooms[c] \in Room /\ Cardinality(MembersOf(rooms[c].roles)) <= MemberLimit
    BY DEF CommunitiesInv, RoomIds, ChannelsWithinCommunity
  <2>2. rooms'[c] = [rooms[c] EXCEPT !.roles = [@ EXCEPT ![u] = "none"]]
    BY Zenon, <1>1
  <2>3. /\ rooms[c].roles \in [Users -> Roles] /\ rooms'[c].kind = rooms[c].kind
        /\ rooms'[c].roles = [rooms[c].roles EXCEPT ![u] = "none"]
    BY Zenon, <2>1, <2>2 DEF Room
  <2>4. /\ rooms'[c].roles \in [Users -> Roles] /\ MembersOf(rooms'[c].roles) = MembersOf(rooms[c].roles) \ {u}
        /\ Cardinality(MembersOf(rooms'[c].roles)) <= Cardinality(MembersOf(rooms[c].roles))
    BY <2>3, RoleTaken
  <2>5. rooms'[c] \in Room
    BY <2>1, <2>2, <2>3, <2>4, Zenon DEF Room
  <2>6. QED
    BY <2>1, <2>3, <2>4, <2>5, MembersCount, CommunitiesAssumption
<1>4. rooms' \in Seq(Room) /\ RoomIds' = RoomIds
  <2>1. rooms' = [c \in RoomIds |-> rooms'[c]]
    BY Zenon, <1>1
  <2>2. QED
    BY Zenon, <1>3, <2>1, RoomsInPlace DEF CommunitiesInv, RoomIds
<1>5. Channels' = Channels
  BY Zenon, <1>3, <1>4 DEF Channels
<1>6. Cardinality(MembersOf(community')) <= MemberLimit
  <2>1. Cardinality(MembersOf(community')) \in Nat /\ Cardinality(MembersOf(community)) \in Nat
    BY Zenon, MembersCount
  <2>2. QED
    BY <1>2, <2>1, CommunitiesAssumption DEF CommunitiesInv, ChannelsWithinCommunity
<1>7. \A c \in Channels : c \in RoomIds /\ MembersOf(rooms[c].roles) \subseteq MembersOf(community)
  BY Zenon DEF CommunitiesInv, ChannelsWithinCommunity, Channels
<1>8. QED
  BY Zenon, <1>2, <1>3, <1>4, <1>5, <1>6, <1>7 DEF CommunitiesInv, ChannelsWithinCommunity

\* The initial state satisfies the invariant.
LEMMA CommunitiesInitInv == CommunitiesInit => CommunitiesInv
<1> SUFFICES ASSUME CommunitiesInit PROVE CommunitiesInv
  BY Zenon
<1>1. community \in [Users -> Roles] /\ MembersOf(community) = {}
  BY Zenon DEF CommunitiesInit, NoRoles, Roles, MembersOf
<1>2. Cardinality(MembersOf(community)) = 0
  BY Zenon, <1>1, FS_EmptySet
<1>3. rooms \in Seq(Room) /\ RoomIds = {}
  BY DEF CommunitiesInit, RoomIds
<1>4. QED
  BY <1>1, <1>2, <1>3, CommunitiesAssumption DEF CommunitiesInv, ChannelsWithinCommunity, Channels

\* Every step preserves it.
LEMMA CommunitiesStepInv == CommunitiesInv /\ [CommunitiesNext]_communityVars => CommunitiesInv'
<1> SUFFICES ASSUME CommunitiesInv, [CommunitiesNext]_communityVars PROVE CommunitiesInv'
  BY Zenon
<1>1. CASE UNCHANGED <<community, rooms>>
  BY Zenon, <1>1 DEF CommunitiesInv, ChannelsWithinCommunity, Channels, RoomIds
<1>2. ASSUME NEW a \in Users, NEW t \in Users, SetBlock(a, t) PROVE CommunitiesInv'
  BY Zenon, <1>1, <1>2 DEF SetBlock
<1>3. CASE UNCHANGED communityVars
  BY Zenon, <1>1, <1>3 DEF communityVars
<1>4. QED
  BY Zenon, <1>2, <1>3, CreateCommunityInv, ManageCommunityMemberInv, CreateConversationInv, OneRoomInv, DeleteAccountInv
  DEF CommunitiesNext

\* Whatever operations accounts of any role perform, in any order and number, a
\* channel's members belong to its community and no conversation outgrows the
\* member limit (ManageCommunityMember, ManageConversationMember,
\* CreateChannelWithConversation, CreateOrGetConversation).
THEOREM MembersStayWithin == CommunitiesSpec => []ChannelsWithinCommunity
<1>1. CommunitiesInv => ChannelsWithinCommunity
  BY Zenon DEF CommunitiesInv
<1>2. QED
  BY CommunitiesInitInv, CommunitiesStepInv, <1>1, PTL DEF CommunitiesSpec

-----------------------------------------------------------------------------
(***************************************************************************)
(* Blobs: what is recorded is stored, no file is forgotten and the quota   *)
(* holds, for any uploads, limits, faults and crashes.  The invariant is   *)
(* per key: a step moves the key it is about, and leaves the others at     *)
(* most better flushed (Quiet) or retired and queued (Retired).            *)
(***************************************************************************)

\* The keys a row of the account refers to.
Rows == {k \in Keys : row[k] # "none"}

BlobsType ==
    /\ phase \in [Keys -> Phase] /\ row \in [Keys -> Row]
    /\ file \subseteq Keys /\ disk \subseteq Keys /\ queue \subseteq Keys
    /\ jobs \subseteq Job /\ lapsed \subseteq Intents

Deleting(k) == \E j \in jobs : j.key = k

\* What is known of a key, however far its upload and its deletion have come.
KeyInv(k) ==
    /\ phase[k] \in {"new", "putting"} => k \notin file \cup disk
    /\ phase[k] = "renamed" => k \in file
    /\ phase[k] \in {"stored", "member"} => k \in file \cap disk
    /\ k \in Direct => phase[k] # "abort" /\ (phase[k] # "done" => row[k] = "none")
    /\ k \in Histories => /\ phase[k] \notin {"member", "cleanup", "requeue"}
                          /\ InFlight(k) => row[k] # "none" \/ k \in queue
    /\ phase[k] = "new" => row[k] = "none"
    /\ row[k] \notin {"none", "intent"} => phase[k] = "done" /\ k \in file \cap disk
    /\ k \in queue \/ Deleting(k) =>
          row[k] = "none" /\ phase[k] # "new" /\ (k \in Direct => phase[k] = "done")
    /\ \A j \in jobs : j.key = k /\ j.at = "complete" => phase[k] = "done" /\ k \notin file \cup disk
    /\ k \in file \cup disk =>
          row[k] # "none" \/ k \in queue \/ (k \in Direct /\ (InFlight(k) \/ k \in untraced))

QuotaInv == IsFiniteSet(Rows) /\ Cardinality(Rows) <= AccountBlobs

BlobsInv == BlobsType /\ (\A k \in Keys : KeyInv(k)) /\ QuotaInv

\* A step that is about other keys: at most it flushes the directory.
Quiet(k) ==
    /\ phase'[k] = phase[k] /\ row'[k] = row[k]
    /\ k \in queue' <=> k \in queue
    /\ k \in file' <=> k \in file
    /\ k \in disk' => k \in file \cup disk
    /\ k \in file \cap disk => k \in disk'
    /\ \A j \in jobs' : j.key = k => j \in jobs
    /\ k \in untraced => k \in untraced'

LEMMA QuietKey ==
    ASSUME NEW k, KeyInv(k), Quiet(k)
    PROVE  KeyInv(k)'
<1>1. /\ phase'[k] = phase[k] /\ row'[k] = row[k]
      /\ k \in queue' <=> k \in queue
      /\ k \in file' <=> k \in file
      /\ k \in disk' => k \in file \cup disk
      /\ k \in file \cap disk => k \in disk'
      /\ \A j \in jobs' : j.key = k => j \in jobs
      /\ k \in untraced => k \in untraced'
  BY Zenon DEF Quiet
<1>2. /\ InFlight(k)' <=> InFlight(k)
      /\ Deleting(k)' => Deleting(k)
      /\ k \in file' \cup disk' => k \in file \cup disk
      /\ k \in file \cap disk => k \in file' \cap disk'
  BY Zenon, <1>1 DEF InFlight, Deleting
<1>3. /\ phase'[k] \in {"new", "putting"} => k \notin file' \cup disk'
      /\ phase'[k] = "renamed" => k \in file'
      /\ phase'[k] \in {"stored", "member"} => k \in file' \cap disk'
  BY Zenon, <1>1, <1>2 DEF KeyInv
<1>4. /\ k \in Direct => phase'[k] # "abort" /\ (phase'[k] # "done" => row'[k] = "none")
      /\ k \in Histories => /\ phase'[k] \notin {"member", "cleanup", "requeue"}
                            /\ InFlight(k)' => row'[k] # "none" \/ k \in queue'
  BY Zenon, <1>1, <1>2 DEF KeyInv
<1>5. /\ phase'[k] = "new" => row'[k] = "none"
      /\ row'[k] \notin {"none", "intent"} => phase'[k] = "done" /\ k \in file' \cap disk'
      /\ k \in queue' \/ Deleting(k)' =>
            row'[k] = "none" /\ phase'[k] # "new" /\ (k \in Direct => phase'[k] = "done")
  BY Zenon, <1>1, <1>2 DEF KeyInv
<1>6. /\ \A j \in jobs' : j.key = k /\ j.at = "complete" => phase'[k] = "done" /\ k \notin file' \cup disk'
      /\ k \in file' \cup disk' =>
            row'[k] # "none" \/ k \in queue' \/ (k \in Direct /\ (InFlight(k)' \/ k \in untraced'))
  BY Zenon, <1>1, <1>2 DEF KeyInv
<1>7. QED
  BY Zenon, <1>3, <1>4, <1>5, <1>6 DEF KeyInv

\* The row of a key goes, and the key is queued.
Retired(k) ==
    /\ row[k] # "none" /\ row'[k] = "none" /\ k \in queue'
    /\ phase'[k] = phase[k] /\ file' = file /\ disk' = disk /\ untraced' = untraced
    /\ \A j \in jobs' : j.key = k => j \in jobs \/ j.at = "delete"

LEMMA RetiredKey ==
    ASSUME NEW k, KeyInv(k), Retired(k)
    PROVE  KeyInv(k)'
<1>1. /\ row[k] # "none" /\ row'[k] = "none" /\ k \in queue'
      /\ phase'[k] = phase[k] /\ file' = file /\ disk' = disk /\ untraced' = untraced
      /\ \A j \in jobs' : j.key = k => j \in jobs \/ j.at = "delete"
  BY Zenon DEF Retired
<1>2. /\ ~Deleting(k) /\ phase[k] # "new" /\ (k \in Direct => phase[k] = "done")
  BY Zenon, <1>1 DEF KeyInv
<1>3. \A j \in jobs' : j.key = k /\ j.at = "complete" => phase'[k] = "done" /\ k \notin file' \cup disk'
  BY Zenon, <1>1, <1>2 DEF Deleting
<1>4. /\ phase'[k] \in {"new", "putting"} => k \notin file' \cup disk'
      /\ phase'[k] = "renamed" => k \in file'
      /\ phase'[k] \in {"stored", "member"} => k \in file' \cap disk'
      /\ k \in Direct => phase'[k] # "abort" /\ phase'[k] = "done"
      /\ k \in Histories => phase'[k] \notin {"member", "cleanup", "requeue"}
  BY Zenon, <1>1, <1>2 DEF KeyInv
<1>5. QED
  BY Zenon, <1>1, <1>2, <1>3, <1>4 DEF KeyInv

\* Fewer rows are within the quota too.
LEMMA FewerRows ==
    ASSUME BlobsInv, \A k \in Keys : row'[k] # "none" => row[k] # "none"
    PROVE  QuotaInv'
<1>1. Rows' \subseteq Rows /\ IsFiniteSet(Rows) /\ Cardinality(Rows) <= AccountBlobs
  BY Zenon DEF BlobsInv, QuotaInv, Rows
<1>2. IsFiniteSet(Rows') /\ Cardinality(Rows') <= Cardinality(Rows)
  BY Zenon, <1>1, FS_Subset
<1>3. Cardinality(Rows') \in Nat /\ Cardinality(Rows) \in Nat /\ AccountBlobs \in Nat
  BY Zenon, <1>1, <1>2, FS_CardinalityType, BlobsConstants
<1>4. Cardinality(Rows') <= AccountBlobs
  BY <1>1, <1>2, <1>3
<1>5. QED
  BY Zenon, <1>2, <1>4 DEF QuotaInv

\* A step about one key that adds no row.
LEMMA OneKey ==
    ASSUME BlobsInv, NEW k \in Keys, BlobsType', KeyInv(k)',
           \A i \in Keys : i # k => Quiet(i),
           row'[k] # "none" => row[k] # "none"
    PROVE  BlobsInv'
<1>1. \A i \in Keys : KeyInv(i)'
  BY Zenon, QuietKey DEF BlobsInv
<1>2. QuotaInv'
  BY Zenon, FewerRows DEF Quiet
<1>3. QED
  BY Zenon, <1>1, <1>2 DEF BlobsInv

-----------------------------------------------------------------------------

\* At the start there is nothing.
LEMMA BlobsInitInv == Init => BlobsInv
<1> SUFFICES ASSUME Init PROVE BlobsInv
  OBVIOUS
<1>1. BlobsType
  BY Zenon DEF Init, BlobsType, Phase, Row, Intents
<1>2. \A k \in Keys : KeyInv(k)
  BY Zenon DEF Init, KeyInv, InFlight, Deleting
<1>3. Rows = {}
  BY Zenon DEF Init, Rows
<1>4. IsFiniteSet({}) /\ Cardinality({}) = 0
  BY Zenon, FS_EmptySet
<1>5. 0 <= AccountBlobs
  BY BlobsConstants
<1>6. QuotaInv
  BY Zenon, <1>3, <1>4, <1>5 DEF QuotaInv
<1>7. QED
  BY Zenon, <1>1, <1>2, <1>6 DEF BlobsInv

\* What a step of the upload of k changes: k's phase, and perhaps the files.
Uploads(k, p) ==
    /\ phase' = [phase EXCEPT ![k] = p] /\ p \in Phase
    /\ jobs' = jobs /\ lapsed' = lapsed /\ untraced \subseteq untraced'

LEMMA UploadsType ==
    ASSUME BlobsInv, NEW k \in Keys, NEW p, Uploads(k, p), row' = row, queue' = queue,
           file' \subseteq Keys, disk' \subseteq Keys
    PROVE  /\ BlobsType' /\ phase'[k] = p
           /\ \A i \in Keys : i # k => phase'[i] = phase[i]
<1>1. /\ phase' = [phase EXCEPT ![k] = p] /\ p \in Phase
      /\ jobs' = jobs /\ lapsed' = lapsed /\ untraced \subseteq untraced'
  BY Zenon DEF Uploads
<1>2. phase \in [Keys -> Phase]
  BY Zenon DEF BlobsInv, BlobsType
<1>3. phase' \in [Keys -> Phase] /\ phase'[k] = p /\ \A i \in Keys : i # k => phase'[i] = phase[i]
  BY Zenon, <1>1, <1>2
<1>4. QED
  BY Zenon, <1>1, <1>3 DEF BlobsInv, BlobsType, Intents

\* Steps that leave the tables and the directory alone.
LEMMA PhaseStepInv ==
    ASSUME BlobsInv, NEW k \in Keys,
           \/ PutEncryptedBlob(k) \/ PutFails(k) \/ IsConversationMember(k) \/ BodyMismatch(k)
    PROVE  BlobsInv'
<1>1. UNCHANGED <<file, disk, row, lapsed, queue, jobs, untraced>>
  BY Zenon DEF PutEncryptedBlob, PutFails, IsConversationMember, BodyMismatch, files, tables
<1>2. PICK p \in Phase :
        /\ phase' = [phase EXCEPT ![k] = p]
        /\ \/ k \in Direct /\ phase[k] = "new" /\ p = "putting"
           \/ phase[k] = "putting" /\ p = IF k \in Histories THEN "abort" ELSE "done"
           \/ k \in Direct /\ phase[k] = "stored" /\ p \in {"cleanup", "member"}
           \/ k \in Histories /\ phase[k] = "stored" /\ p = "abort"
  <2>1. CASE PutEncryptedBlob(k)
    BY Zenon, <2>1 DEF PutEncryptedBlob, Goto, Phase
  <2>2. CASE PutFails(k)
    BY Zenon, <2>2 DEF PutFails, Goto, Phase, AfterPutError
  <2>3. CASE IsConversationMember(k)
    BY Zenon, <2>3 DEF IsConversationMember, Goto, Phase
  <2>4. CASE BodyMismatch(k)
    BY Zenon, <2>4 DEF BodyMismatch, Goto, Phase
  <2>5. QED
    BY Zenon, <2>1, <2>2, <2>3, <2>4
<1>3. Uploads(k, p) /\ file' \subseteq Keys /\ disk' \subseteq Keys
  BY Zenon, <1>1, <1>2 DEF Uploads, BlobsInv, BlobsType
<1>4. BlobsType' /\ phase'[k] = p /\ \A i \in Keys : i # k => phase'[i] = phase[i]
  BY Zenon, <1>1, <1>3, UploadsType
<1>5. \A i \in Keys : i # k => Quiet(i)
  BY Zenon, <1>1, <1>4 DEF Quiet
<1>6. KeyInv(k)'
  <2>0. KeyInv(k) /\ (k \in Direct \/ k \in Histories) /\ ~(k \in Direct /\ k \in Histories)
    BY Zenon, BlobsConstants DEF BlobsInv, Keys
  <2>1. CASE k \in Direct /\ phase[k] = "new" /\ p = "putting"
    BY Zenon, <1>1, <1>4, <2>0, <2>1 DEF KeyInv, InFlight, Deleting
  <2>2. CASE k \in Direct /\ phase[k] = "putting" /\ p = "done"
    BY Zenon, <1>1, <1>4, <2>0, <2>2 DEF KeyInv, InFlight, Deleting
  <2>3. CASE k \in Histories /\ phase[k] \in {"putting", "stored"} /\ p = "abort"
    BY Zenon, <1>1, <1>4, <2>0, <2>3 DEF KeyInv, InFlight, Deleting
  <2>4. CASE k \in Direct /\ phase[k] = "stored" /\ p \in {"cleanup", "member"}
    BY Zenon, <1>1, <1>4, <2>0, <2>4 DEF KeyInv, InFlight, Deleting
  <2>5. QED
    BY Zenon, <1>2, <2>0, <2>1, <2>2, <2>3, <2>4
<1>7. QED
  BY Zenon, <1>1, <1>4, <1>5, <1>6, OneKey

\* The rename, the flush and its failure.
LEMMA StoreStepInv ==
    ASSUME BlobsInv, NEW k \in Keys, Rename(k) \/ SyncDirectory(k) \/ SyncFails(k)
    PROVE  BlobsInv'
<1>1. /\ UNCHANGED <<row, lapsed, queue, jobs>> /\ untraced \subseteq untraced'
  BY Zenon DEF Rename, SyncDirectory, SyncFails, tables
<1>2. PICK p \in Phase :
        /\ phase' = [phase EXCEPT ![k] = p]
        /\ \/ phase[k] = "putting" /\ p = "renamed" /\ file' = file \cup {k} /\ disk' = disk
           \/ phase[k] = "renamed" /\ p = "stored" /\ file' = file /\ disk' = file
           \/ /\ phase[k] = "renamed" /\ p = (IF k \in Histories THEN "abort" ELSE "done")
              /\ file' \in {file, file \ {k}} /\ disk' \in {disk, file, file'}
              /\ untraced' = untraced \cup ({k} \cap Direct \cap (file' \cup disk'))
  <2>1. CASE Rename(k)
    BY Zenon, <2>1 DEF Rename, Goto, Phase
  <2>2. CASE SyncDirectory(k)
    BY Zenon, <2>2 DEF SyncDirectory, Goto, Phase
  <2>3. CASE SyncFails(k)
    BY Zenon, <2>3 DEF SyncFails, Goto, Phase, AfterPutError
  <2>4. QED
    BY Zenon, <2>1, <2>2, <2>3
<1>3. Uploads(k, p) /\ file' \subseteq Keys /\ disk' \subseteq Keys
  BY Zenon, <1>1, <1>2 DEF Uploads, BlobsInv, BlobsType
<1>4. BlobsType' /\ phase'[k] = p /\ \A i \in Keys : i # k => phase'[i] = phase[i]
  BY Zenon, <1>1, <1>3, UploadsType
<1>5. ASSUME NEW i \in Keys, i # k
      PROVE  Quiet(i)
  BY Zenon, <1>1, <1>2, <1>4, <1>5 DEF Quiet
<1>6. KeyInv(k)'
  <2>0. KeyInv(k) /\ (k \in Direct \/ k \in Histories) /\ ~(k \in Direct /\ k \in Histories)
    BY Zenon, BlobsConstants DEF BlobsInv, Keys
  <2>1. CASE phase[k] = "putting" /\ p = "renamed" /\ file' = file \cup {k} /\ disk' = disk
    BY Zenon, <1>1, <1>4, <2>0, <2>1 DEF KeyInv, InFlight, Deleting
  <2>2. CASE phase[k] = "renamed" /\ p = "stored" /\ file' = file /\ disk' = file
    BY Zenon, <1>1, <1>4, <2>0, <2>2 DEF KeyInv, InFlight, Deleting
  <2>3. CASE k \in Histories /\ phase[k] = "renamed" /\ p = "abort"
    BY Zenon, <1>1, <1>4, <2>0, <2>3 DEF KeyInv, InFlight, Deleting
  <2>4. CASE /\ k \in Direct /\ phase[k] = "renamed" /\ p = "done"
             /\ untraced' = untraced \cup ({k} \cap Direct \cap (file' \cup disk'))
    BY Zenon, <1>1, <1>4, <2>0, <2>4 DEF KeyInv, InFlight, Deleting
  <2>5. QED
    BY Zenon, <1>2, <2>0, <2>1, <2>2, <2>3, <2>4
<1>7. QED
  BY Zenon, <1>1, <1>4, <1>5, <1>6, OneKey

\* A count of the rows and one more.
LEMMA OneMoreRow ==
    ASSUME BlobsInv, NEW T, IsFiniteSet(T), Cardinality(T) + 1 <= AccountBlobs, NEW k,
           Rows' = T \cup {k}
    PROVE  QuotaInv'
<1>1. IsFiniteSet(T \cup {k}) /\ Cardinality(T \cup {k}) = IF k \in T THEN Cardinality(T) ELSE Cardinality(T) + 1
  BY Zenon, FS_AddElement
<1>2. Cardinality(T) \in Nat /\ AccountBlobs \in Nat
  BY Zenon, FS_CardinalityType, BlobsConstants
<1>3. Cardinality(T \cup {k}) <= AccountBlobs
  BY <1>1, <1>2
<1>4. QED
  BY Zenon, <1>1, <1>3 DEF QuotaInv

\* The row of an attachment or a backup is inserted under the count.
LEMMA CreateEnvelopeInv ==
    ASSUME BlobsInv, NEW k \in Keys, CreateAttachmentEnvelope(k) \/ CreateBackupBlob(k)
    PROVE  BlobsInv'
<1>1. PICK kind \in {"upload", "backup"} :
        /\ k \in Direct /\ phase[k] \in {"stored", "member"}
        /\ \/ /\ WithinQuotaFor(1) /\ row' = [row EXCEPT ![k] = kind]
              /\ phase' = [phase EXCEPT ![k] = "done"]
           \/ row' = row /\ phase' = [phase EXCEPT ![k] = "cleanup"]
        /\ UNCHANGED <<file, disk, lapsed, queue, jobs, untraced>>
  BY Zenon DEF CreateAttachmentEnvelope, CreateBackupBlob, CreateEnvelope, Goto, files
<1>2. /\ KeyInv(k) /\ k \notin Histories /\ phase \in [Keys -> Phase] /\ row \in [Keys -> Row]
      /\ "done" \in Phase /\ "cleanup" \in Phase /\ kind \in Row
  BY Zenon, <1>1, BlobsConstants DEF BlobsInv, BlobsType, Phase, Row
<1>3. row[k] = "none" /\ k \in file \cap disk /\ k \notin queue /\ ~Deleting(k)
  BY Zenon, <1>1, <1>2 DEF KeyInv
<1>4. CASE row' = row /\ phase' = [phase EXCEPT ![k] = "cleanup"]
  <2>1. Uploads(k, "cleanup") /\ file' \subseteq Keys /\ disk' \subseteq Keys
    BY Zenon, <1>1, <1>2, <1>4 DEF Uploads, BlobsInv, BlobsType
  <2>2. BlobsType' /\ phase'[k] = "cleanup" /\ \A i \in Keys : i # k => phase'[i] = phase[i]
    BY Zenon, <1>1, <1>4, <2>1, UploadsType
  <2>3. \A i \in Keys : i # k => Quiet(i)
    BY Zenon, <1>1, <1>4, <2>2 DEF Quiet
  <2>4. KeyInv(k)'
    BY Zenon, <1>1, <1>2, <1>3, <1>4, <2>2 DEF KeyInv, InFlight, Deleting
  <2>5. QED
    BY Zenon, <1>4, <2>2, <2>3, <2>4, OneKey
<1>5. CASE /\ WithinQuotaFor(1) /\ row' = [row EXCEPT ![k] = kind]
           /\ phase' = [phase EXCEPT ![k] = "done"]
  <2>1. /\ phase' \in [Keys -> Phase] /\ row' \in [Keys -> Row]
        /\ phase'[k] = "done" /\ row'[k] = kind
        /\ \A i \in Keys : i # k => phase'[i] = phase[i] /\ row'[i] = row[i]
    BY Zenon, <1>2, <1>5
  <2>2. BlobsType'
    <3>1. k \notin Intents /\ lapsed \subseteq Intents
      BY Zenon, <1>3 DEF Intents, BlobsInv, BlobsType
    <3>2. lapsed' \subseteq Intents'
      BY Zenon, <1>1, <2>1, <3>1 DEF Intents
    <3>3. QED
      BY Zenon, <1>1, <2>1, <3>2 DEF BlobsInv, BlobsType
  <2>3. \A i \in Keys : i # k => Quiet(i)
    BY Zenon, <1>1, <2>1 DEF Quiet
  <2>4. KeyInv(k)'
    BY Zenon, <1>1, <1>2, <1>3, <2>1 DEF KeyInv, InFlight, Deleting
  <2>5. \A i \in Keys : KeyInv(i)'
    BY Zenon, <2>3, <2>4, QuietKey DEF BlobsInv
  <2>6. QuotaInv'
    <3>1. Rows' = Rows \cup {k}
      BY Zenon, <2>1 DEF Rows
    <3>2. IsFiniteSet(Rows) /\ Cardinality(Rows) + 1 <= AccountBlobs
      BY Zenon, <1>5 DEF BlobsInv, QuotaInv, WithinQuotaFor, BlobCount, Rows
    <3>3. QED
      BY Zenon, <3>1, <3>2, OneMoreRow
  <2>7. QED
    BY Zenon, <2>2, <2>5, <2>6 DEF BlobsInv
<1>6. QED
  BY Zenon, <1>1, <1>4, <1>5

\* An intent is registered under a count that leaves out the lapsed intents
\* it replaces; those are queued.
LEMMA RegisterInv ==
    ASSUME BlobsInv, NEW k \in Keys, RegisterHistoryUpload(k)
    PROVE  BlobsInv'
<1>1. /\ k \in Histories /\ phase[k] = "new" /\ WithinQuotaFor(1 - Cardinality(Intents))
      /\ row' = [j \in Keys |-> IF j = k THEN "intent" ELSE IF j \in Intents THEN "none" ELSE row[j]]
      /\ lapsed' = {} /\ queue' = queue \cup Intents /\ phase' = [phase EXCEPT ![k] = "putting"]
      /\ UNCHANGED <<file, disk, jobs, untraced>>
  BY Zenon DEF RegisterHistoryUpload, Enqueue, Goto
<1>2. /\ KeyInv(k) /\ k \notin Direct /\ phase \in [Keys -> Phase] /\ row \in [Keys -> Row]
      /\ "putting" \in Phase /\ "intent" \in Row /\ "none" \in Row
  BY Zenon, <1>1, BlobsConstants DEF BlobsInv, BlobsType, Phase, Row
<1>3. row[k] = "none" /\ k \notin file \cup disk /\ k \notin queue /\ ~Deleting(k) /\ k \notin Intents
  BY Zenon, <1>1, <1>2 DEF KeyInv, Intents
<1>4. /\ phase' \in [Keys -> Phase] /\ phase'[k] = "putting"
      /\ \A i \in Keys : i # k => phase'[i] = phase[i]
  BY Zenon, <1>1, <1>2
<1>5. /\ row' \in [Keys -> Row] /\ row'[k] = "intent"
      /\ \A i \in Keys : i # k => row'[i] = IF i \in Intents THEN "none" ELSE row[i]
  BY Zenon, <1>1, <1>2
<1>6. BlobsType'
  BY Zenon, <1>1, <1>4, <1>5 DEF BlobsInv, BlobsType, Intents
<1>7. ASSUME NEW i \in Keys
      PROVE  KeyInv(i)'
  <2>1. CASE i = k
    BY Zenon, <1>1, <1>2, <1>3, <1>4, <1>5, <2>1 DEF KeyInv, InFlight, Deleting
  <2>2. CASE i # k /\ i \in Intents
    <3>1. Retired(i)
      BY Zenon, <1>1, <1>4, <1>5, <2>2 DEF Retired, Intents
    <3>2. QED
      BY Zenon, <3>1, RetiredKey DEF BlobsInv
  <2>3. CASE i # k /\ i \notin Intents
    <3>1. Quiet(i)
      BY Zenon, <1>1, <1>4, <1>5, <2>3 DEF Quiet
    <3>2. QED
      BY Zenon, <3>1, QuietKey DEF BlobsInv
  <2>4. QED
    BY Zenon, <2>1, <2>2, <2>3
<1>8. QuotaInv'
  <2>1. Intents \subseteq Rows /\ Rows' = (Rows \ Intents) \cup {k}
    BY Zenon, <1>5 DEF Rows, Intents
  <2>2. IsFiniteSet(Rows) /\ Cardinality(Rows) + (1 - Cardinality(Intents)) <= AccountBlobs
    BY Zenon, <1>1 DEF BlobsInv, QuotaInv, WithinQuotaFor, BlobCount, Rows
  <2>3. IsFiniteSet(Intents)
    BY Zenon, <2>1, <2>2, FS_Subset
  <2>4. /\ IsFiniteSet(Rows \ Intents)
        /\ Cardinality(Rows \ Intents) = Cardinality(Rows) - Cardinality(Rows \cap Intents)
    BY Zenon, <2>2, FS_Difference
  <2>5. Rows \cap Intents = Intents
    BY Zenon, <2>1
  <2>6. Cardinality(Rows) \in Nat /\ Cardinality(Intents) \in Nat
    BY Zenon, <2>2, <2>3, FS_CardinalityType
  <2>7. Cardinality(Rows \ Intents) = Cardinality(Rows) - Cardinality(Intents)
    BY Zenon, <2>4, <2>5
  <2>8. Cardinality(Rows \ Intents) + 1 <= AccountBlobs
    BY <2>2, <2>6, <2>7, BlobsConstants
  <2>9. QED
    BY Zenon, <2>1, <2>4, <2>8, OneMoreRow
<1>9. QED
  BY Zenon, <1>6, <1>7, <1>8 DEF BlobsInv

\* An intent becomes a transfer, or the upload ends without.
LEMMA FinalizeInv ==
    ASSUME BlobsInv, NEW k \in Keys, FinalizeHistoryUpload(k)
    PROVE  BlobsInv'
<1>1. /\ k \in Histories /\ phase[k] = "stored" /\ phase' = [phase EXCEPT ![k] = "done"]
      /\ \/ row[k] = "intent" /\ k \notin lapsed /\ row' = [row EXCEPT ![k] = "transfer"]
         \/ row' = row
      /\ UNCHANGED <<file, disk, lapsed, queue, jobs, untraced>>
  BY Zenon DEF FinalizeHistoryUpload, Goto, files
<1>2. /\ KeyInv(k) /\ k \notin Direct /\ phase \in [Keys -> Phase] /\ row \in [Keys -> Row]
      /\ "done" \in Phase /\ "transfer" \in Row
  BY Zenon, <1>1, BlobsConstants DEF BlobsInv, BlobsType, Phase, Row
<1>3. /\ phase' \in [Keys -> Phase] /\ phase'[k] = "done"
      /\ \A i \in Keys : i # k => phase'[i] = phase[i]
  BY Zenon, <1>1, <1>2
<1>4. /\ row' \in [Keys -> Row] /\ \A i \in Keys : i # k => row'[i] = row[i]
      /\ row'[k] = row[k] \/ (row[k] = "intent" /\ k \notin lapsed /\ row'[k] = "transfer")
  BY Zenon, <1>1, <1>2
<1>5. BlobsType'
  <2>1. lapsed' \subseteq Intents'
    BY Zenon, <1>1, <1>4 DEF BlobsInv, BlobsType, Intents
  <2>2. QED
    BY Zenon, <1>1, <1>3, <1>4, <2>1 DEF BlobsInv, BlobsType
<1>6. \A i \in Keys : i # k => Quiet(i)
  BY Zenon, <1>1, <1>3, <1>4 DEF Quiet
<1>7. KeyInv(k)'
  <2>1. k \in file \cap disk /\ row[k] \in {"none", "intent"} /\ (row[k] # "none" \/ k \in queue)
    BY Zenon, <1>1, <1>2 DEF KeyInv, InFlight
  <2>2. QED
    BY Zenon, <1>1, <1>2, <1>3, <1>4, <2>1 DEF KeyInv, InFlight, Deleting
<1>8. row'[k] # "none" => row[k] # "none"
  BY Zenon, <1>4
<1>9. QED
  BY Zenon, <1>5, <1>6, <1>7, <1>8, OneKey

\* A deletion starts with Delete.
LEMMA NewJob ==
    ASSUME NEW S, NEW b \in {"sweep", "request"}, NEW J, J = {[key |-> i, by |-> b, at |-> "delete"] : i \in S}
    PROVE  /\ \A j \in J : j.at = "delete" /\ j.key \in S
           /\ S \subseteq Keys => J \subseteq Job
<1>1. ASSUME NEW i
      PROVE  /\ [key |-> i, by |-> b, at |-> "delete"].at = "delete"
             /\ [key |-> i, by |-> b, at |-> "delete"].key = i
             /\ i \in Keys => [key |-> i, by |-> b, at |-> "delete"] \in Job
  BY DEF Job
<1>2. ASSUME NEW j \in J
      PROVE  j.at = "delete" /\ j.key \in S /\ (S \subseteq Keys => j \in Job)
  <2>1. PICK i \in S : j = [key |-> i, by |-> b, at |-> "delete"]
    BY Zenon
  <2>2. QED
    BY Zenon, <1>1, <2>1
<1>3. QED
  BY Zenon, <1>2

\* Rows that go are queued, and the files stay as they are.
LEMMA RetireInv ==
    ASSUME BlobsInv, NEW S, S \subseteq Rows, Retire(S), NEW R, R \subseteq S,
           jobs' = jobs \cup {[key |-> i, by |-> "request", at |-> "delete"] : i \in R},
           UNCHANGED <<phase, file, disk, untraced>>
    PROVE  BlobsInv'
<1>1. /\ row' = [k \in Keys |-> IF k \in S THEN "none" ELSE row[k]]
      /\ lapsed' = lapsed \ S /\ queue' = queue \cup S
  BY Zenon DEF Retire, Enqueue
<1>2. S \subseteq Keys /\ row \in [Keys -> Row] /\ \A k \in S : row[k] # "none"
  BY Zenon DEF Rows, BlobsInv, BlobsType
<1>3. /\ \A j \in jobs' : j \in jobs \/ (j.at = "delete" /\ j.key \in S)
      /\ jobs' \subseteq jobs \cup Job
  <2>1. PICK J : J = {[key |-> i, by |-> "request", at |-> "delete"] : i \in R}
    BY Zenon
  <2>2. jobs' = jobs \cup J /\ R \subseteq Keys
    BY Zenon, <1>2, <2>1
  <2>3. (\A j \in J : j.at = "delete" /\ j.key \in R) /\ J \subseteq Job
    BY ZenonT(60), <2>1, <2>2, NewJob
  <2>4. QED
    BY Zenon, <2>2, <2>3
<1>4. BlobsType'
  <2>1. row' \in [Keys -> Row]
    BY Zenon, <1>1, <1>2 DEF Row
  <2>2. lapsed' \subseteq Intents'
    BY Zenon, <1>1 DEF BlobsInv, BlobsType, Intents
  <2>3. jobs' \subseteq Job
    BY Zenon, <1>3 DEF BlobsInv, BlobsType
  <2>4. QED
    BY Zenon, <1>1, <1>2, <2>1, <2>2, <2>3 DEF BlobsInv, BlobsType
<1>5. ASSUME NEW k \in Keys
      PROVE  KeyInv(k)'
  <2>1. CASE k \in S
    <3>1. Retired(k)
      BY Zenon, <1>1, <1>2, <1>3, <2>1 DEF Retired
    <3>2. QED
      BY Zenon, <3>1, RetiredKey DEF BlobsInv
  <2>2. CASE k \notin S
    <3>1. Quiet(k)
      BY Zenon, <1>1, <1>3, <2>2 DEF Quiet
    <3>2. QED
      BY Zenon, <3>1, QuietKey DEF BlobsInv
  <2>3. QED
    BY Zenon, <2>1, <2>2
<1>6. QuotaInv'
  BY Zenon, <1>1, FewerRows
<1>7. QED
  BY Zenon, <1>4, <1>5, <1>6 DEF BlobsInv

\* Expiry, a message's end, deletions on request, and the links' ends.
LEMMA RetiringInv ==
    ASSUME BlobsInv,
           \/ PruneOperationalRows \/ DeleteAccountData \/ CancelHistoryTransfer \/ RetireDeviceLinks
           \/ \E S \in SUBSET Direct : PruneExpiredContent(S)
           \/ \E k \in Keys : ReleaseMessageAttachments(k) \/ DeleteEnvelope(k) \/ AcknowledgeHistoryTransfer(k)
    PROVE  BlobsInv'
<1>1. PICK S, R : /\ S \subseteq Rows /\ R \subseteq S /\ Retire(S)
                  /\ jobs' = jobs \cup {[key |-> i, by |-> "request", at |-> "delete"] : i \in R}
                  /\ UNCHANGED <<phase, file, disk, untraced>>
  <2>0. jobs = jobs \cup {[key |-> i, by |-> "request", at |-> "delete"] : i \in {}}
    BY Zenon
  <2>1. CASE PruneOperationalRows
    <3> DEFINE over == lapsed \cup {k \in Keys : link = "over" /\ row[k] = "transfer"}
    <3>1. over \subseteq Rows
      BY Zenon DEF BlobsInv, BlobsType, Intents, Rows
    <3>2. Retire(over) /\ UNCHANGED <<phase, file, disk, untraced, jobs>>
      BY Zenon, <2>1 DEF PruneOperationalRows, files
    <3> HIDE DEF over
    <3>3. QED
      BY ZenonT(60), <2>0, <3>1, <3>2
  <2>2. CASE DeleteAccountData
    <3>1. Retire(Rows) /\ Request(Rows \cap Direct) /\ UNCHANGED <<phase, file, disk, untraced>>
      BY Zenon, <2>2 DEF DeleteAccountData, files, Rows
    <3>2. QED
      BY Zenon, <3>1 DEF Request
  <2>3. CASE CancelHistoryTransfer \/ RetireDeviceLinks
    <3>1. HistoryRows \subseteq Rows
      BY Zenon DEF HistoryRows, Rows
    <3>2. Retire(HistoryRows) /\ UNCHANGED <<phase, file, disk, untraced, jobs>>
      BY Zenon, <2>3 DEF CancelHistoryTransfer, RetireDeviceLinks, files
    <3>3. QED
      BY ZenonT(60), <2>0, <3>1, <3>2
  <2>4. ASSUME NEW S \in SUBSET Direct, PruneExpiredContent(S)
        PROVE  S \subseteq Rows /\ Retire(S) /\ UNCHANGED <<phase, file, disk, untraced, jobs>>
    BY Zenon, <2>4 DEF PruneExpiredContent, files, Rows, Keys
  <2>5. ASSUME NEW k \in Keys, ReleaseMessageAttachments(k) \/ AcknowledgeHistoryTransfer(k)
        PROVE  {k} \subseteq Rows /\ Retire({k}) /\ UNCHANGED <<phase, file, disk, untraced, jobs>>
    BY Zenon, <2>5 DEF ReleaseMessageAttachments, AcknowledgeHistoryTransfer, files, Rows
  <2>6. ASSUME NEW k \in Keys, DeleteEnvelope(k)
        PROVE  {k} \subseteq Rows /\ Retire({k}) /\ Request({k}) /\ UNCHANGED <<phase, file, disk, untraced>>
    BY Zenon, <2>6 DEF DeleteEnvelope, files, Rows
  <2>7. CASE \E T \in SUBSET Direct : PruneExpiredContent(T)
    BY ZenonT(60), <2>0, <2>4, <2>7
  <2>8. CASE \E k \in Keys : ReleaseMessageAttachments(k) \/ AcknowledgeHistoryTransfer(k)
    <3>1. PICK k \in Keys : ReleaseMessageAttachments(k) \/ AcknowledgeHistoryTransfer(k)
      BY Zenon, <2>8
    <3>2. PICK T : T \subseteq Rows /\ Retire(T) /\ UNCHANGED <<phase, file, disk, untraced, jobs>>
      BY Zenon, <2>5, <3>1
    <3>3. QED
      BY Zenon, <2>0, <3>2
  <2>9. CASE \E k \in Keys : DeleteEnvelope(k)
    BY Zenon, <2>6, <2>9 DEF Request
  <2>10. QED
    BY Zenon, <2>1, <2>2, <2>3, <2>7, <2>8, <2>9
<1>2. QED
  BY Zenon, <1>1, RetireInv

\* A history upload that fails gives its intent up, if it still has one.
LEMMA AbortInv ==
    ASSUME BlobsInv, NEW k \in Keys, AbortHistoryUpload(k)
    PROVE  BlobsInv'
<1>1. /\ phase[k] = "abort" /\ phase' = [phase EXCEPT ![k] = "done"]
      /\ UNCHANGED <<file, disk, jobs, untraced>>
      /\ Retire({k} \cap Intents) \/ UNCHANGED <<row, lapsed, queue>>
  BY Zenon DEF AbortHistoryUpload, Goto, files
<1>2. KeyInv(k) /\ k \in Histories /\ k \notin Direct /\ "done" \in Phase /\ phase \in [Keys -> Phase]
  BY Zenon, <1>1, BlobsConstants DEF BlobsInv, BlobsType, KeyInv, Keys, Phase
<1>3. /\ phase' \in [Keys -> Phase] /\ phase'[k] = "done"
      /\ \A i \in Keys : i # k => phase'[i] = phase[i]
  BY Zenon, <1>1, <1>2
<1>4. CASE UNCHANGED <<row, lapsed, queue>>
  <2>1. BlobsType'
    BY Zenon, <1>1, <1>3, <1>4 DEF BlobsInv, BlobsType, Intents
  <2>2. \A i \in Keys : i # k => Quiet(i)
    BY Zenon, <1>1, <1>3, <1>4 DEF Quiet
  <2>3. KeyInv(k)'
    BY ZenonT(60), <1>1, <1>2, <1>3, <1>4 DEF KeyInv, InFlight, Deleting
  <2>4. QED
    BY Zenon, <1>4, <2>1, <2>2, <2>3, OneKey
<1>5. CASE Retire({k} \cap Intents)
  <2>1. /\ row' = [i \in Keys |-> IF i \in {k} \cap Intents THEN "none" ELSE row[i]]
        /\ lapsed' = lapsed \ ({k} \cap Intents) /\ queue' = queue \cup ({k} \cap Intents)
    BY Zenon, <1>5 DEF Retire, Enqueue
  <2>2. /\ row' \in [Keys -> Row] /\ \A i \in Keys : i # k => row'[i] = row[i]
        /\ row'[k] = IF row[k] = "intent" THEN "none" ELSE row[k]
        /\ k \in queue' <=> (k \in queue \/ row[k] = "intent")
        /\ \A i \in Keys : i # k => (i \in queue' <=> i \in queue)
    BY Zenon, <2>1 DEF Intents, BlobsInv, BlobsType, Row
  <2>3. BlobsType'
    <3>1. lapsed' \subseteq Intents'
      BY Zenon, <2>1, <2>2 DEF BlobsInv, BlobsType, Intents
    <3>2. queue' \subseteq Keys
      BY Zenon, <2>1 DEF BlobsInv, BlobsType
    <3>3. QED
      BY Zenon, <1>1, <1>3, <2>2, <3>1, <3>2 DEF BlobsInv, BlobsType
  <2>4. \A i \in Keys : i # k => Quiet(i)
    BY Zenon, <1>1, <1>3, <2>2 DEF Quiet
  <2>5. KeyInv(k)'
    BY Zenon, <1>1, <1>2, <1>3, <2>2 DEF KeyInv, InFlight, Deleting
  <2>6. row'[k] # "none" => row[k] # "none"
    BY Zenon, <2>2
  <2>7. QED
    BY Zenon, <2>3, <2>4, <2>5, <2>6, OneKey
<1>6. QED
  BY Zenon, <1>1, <1>4, <1>5

\* What Delete does to the directory: the file of k is gone for certain, or
\* perhaps; an upload it protects is left alone.
Deletes(k) ==
    \/ ~Busy(k) /\ file' = file \ {k} /\ disk' = file \ {k}
    \/ file' = file /\ disk' = disk
    \/ ~Busy(k) /\ file' = file \ {k} /\ disk' \in {disk, file'}

LEMMA DeleteEffect ==
    ASSUME BlobsInv, NEW k, DeleteSucceeds(k) \/ DeleteFails(k)
    PROVE  /\ Deletes(k) /\ file' \subseteq Keys /\ disk' \subseteq Keys
           /\ \A i \in Keys : i # k => /\ i \in file' <=> i \in file
                                       /\ i \in disk' => i \in file \cup disk
                                       /\ i \in file \cap disk => i \in disk'
           /\ k \in file' \cup disk' => k \in file \cup disk
<1>1. Deletes(k)
  BY Zenon DEF DeleteSucceeds, DeleteFails, UnlinkAndFlush, Deletes, files
<1>2. file' \subseteq Keys /\ disk' \subseteq Keys
  BY Zenon, <1>1 DEF Deletes, BlobsInv, BlobsType
<1>3. QED
  BY Zenon, <1>1, <1>2 DEF Deletes

\* An upload that was not recorded is deleted, or else queued.
LEMMA CleanupInv ==
    ASSUME BlobsInv, NEW k \in Keys, CleanupUncommittedBlob(k)
    PROVE  BlobsInv'
<1>1. /\ phase[k] = "cleanup" /\ UNCHANGED <<row, lapsed, queue, jobs, untraced>>
      /\ \/ DeleteSucceeds(k) /\ phase' = [phase EXCEPT ![k] = "done"]
         \/ DeleteFails(k) /\ phase' = [phase EXCEPT ![k] = "requeue"]
  BY Zenon DEF CleanupUncommittedBlob, Goto, tables
<1>2. KeyInv(k) /\ k \in Direct /\ k \notin Histories
  BY Zenon, <1>1, BlobsConstants DEF BlobsInv, KeyInv, Keys
<1>3. /\ file' \subseteq Keys /\ disk' \subseteq Keys
      /\ \A i \in Keys : i # k => /\ i \in file' <=> i \in file
                                  /\ i \in disk' => i \in file \cup disk
                                  /\ i \in file \cap disk => i \in disk'
      /\ k \in file' \cup disk' => k \in file \cup disk
  BY Zenon, <1>1, DeleteEffect
<1>4. PICK p \in {"done", "requeue"} :
        phase' = [phase EXCEPT ![k] = p] /\ (p = "done" => k \notin file' \cup disk')
  BY Zenon, <1>1 DEF DeleteSucceeds, UnlinkAndFlush
<1>5. Uploads(k, p)
  BY Zenon, <1>1, <1>4 DEF Uploads, Phase
<1>6. BlobsType' /\ phase'[k] = p /\ \A i \in Keys : i # k => phase'[i] = phase[i]
  BY Zenon, <1>1, <1>3, <1>5, UploadsType
<1>7. \A i \in Keys : i # k => Quiet(i)
  BY Zenon, <1>1, <1>3, <1>6 DEF Quiet
<1>8. KeyInv(k)'
  BY Zenon, <1>1, <1>2, <1>3, <1>4, <1>6 DEF KeyInv, InFlight, Deleting
<1>9. QED
  BY Zenon, <1>1, <1>6, <1>7, <1>8, OneKey

LEMMA QueueBlobDeletionInv ==
    ASSUME BlobsInv, NEW k \in Keys, QueueBlobDeletion(k)
    PROVE  BlobsInv'
<1>1. /\ phase[k] = "requeue" /\ phase' = [phase EXCEPT ![k] = "done"]
      /\ UNCHANGED <<file, disk, row, lapsed, jobs>>
      /\ \/ queue' = queue \cup {k} /\ untraced' = untraced
         \/ queue' = queue /\ untraced' = untraced \cup {k}
  BY Zenon DEF QueueBlobDeletion, Goto, Enqueue, files
<1>2. /\ KeyInv(k) /\ k \in Direct /\ k \notin Histories /\ "done" \in Phase
      /\ phase \in [Keys -> Phase] /\ row[k] = "none"
  BY Zenon, <1>1, BlobsConstants DEF BlobsInv, BlobsType, KeyInv, Keys, Phase
<1>3. /\ phase' \in [Keys -> Phase] /\ phase'[k] = "done"
      /\ \A i \in Keys : i # k => phase'[i] = phase[i]
  BY Zenon, <1>1, <1>2
<1>4. BlobsType'
  <2>1. queue' \subseteq Keys
    BY Zenon, <1>1 DEF BlobsInv, BlobsType
  <2>2. QED
    BY Zenon, <1>1, <1>3, <2>1 DEF BlobsInv, BlobsType, Intents
<1>5. \A i \in Keys : i # k => Quiet(i)
  <2>1. \A i \in Keys : i # k => /\ i \in queue' <=> i \in queue
                                 /\ i \in untraced => i \in untraced'
    BY Zenon, <1>1
  <2>2. QED
    BY Zenon, <1>1, <1>3, <2>1 DEF Quiet
<1>6. KeyInv(k)'
  <2>1. ~Deleting(k) /\ (k \in queue' \/ k \in untraced')
    BY Zenon, <1>1, <1>2 DEF KeyInv
  <2>2. QED
    BY Zenon, <1>1, <1>2, <1>3, <2>1 DEF KeyInv, InFlight, Deleting
<1>7. QED
  BY Zenon, <1>1, <1>4, <1>5, <1>6, OneKey

\* The end of a deletion is what Delete said, and leaves the key alone.
LEMMA DeleteBlobInv ==
    ASSUME BlobsInv, NEW j \in jobs, DeleteBlob(j)
    PROVE  BlobsInv'
<1>1. /\ UNCHANGED <<phase, row, lapsed, queue, untraced>>
      /\ \/ DeleteSucceeds(j.key) /\ jobs' = (jobs \ {j}) \cup {[j EXCEPT !.at = "complete"]}
         \/ DeleteFails(j.key) /\ jobs' = (jobs \ {j}) \cup {[j EXCEPT !.at = "record"]}
  BY Zenon DEF DeleteBlob, tables
<1>2. j \in Job /\ j.key \in Keys /\ KeyInv(j.key)
  BY Zenon DEF BlobsInv, BlobsType, Job
<1> DEFINE k == j.key
<1>3. PICK i \in Job : /\ i.key = k /\ i.at \in {"complete", "record"} /\ jobs' = (jobs \ {j}) \cup {i}
                       /\ i.at = "complete" => DeleteSucceeds(k)
  <2>1. /\ [j EXCEPT !.at = "complete"] \in Job /\ [j EXCEPT !.at = "complete"].key = k
        /\ [j EXCEPT !.at = "complete"].at = "complete"
    BY <1>2 DEF Job
  <2>2. /\ [j EXCEPT !.at = "record"] \in Job /\ [j EXCEPT !.at = "record"].key = k
        /\ [j EXCEPT !.at = "record"].at = "record"
    BY <1>2 DEF Job
  <2>3. QED
    BY Zenon, <1>1, <2>1, <2>2
<1>4. /\ Deletes(k) /\ file' \subseteq Keys /\ disk' \subseteq Keys
      /\ \A x \in Keys : x # k => /\ x \in file' <=> x \in file
                                  /\ x \in disk' => x \in file \cup disk
                                  /\ x \in file \cap disk => x \in disk'
      /\ k \in file' \cup disk' => k \in file \cup disk
  BY Zenon, <1>1, DeleteEffect
<1>5. BlobsType'
  BY Zenon, <1>1, <1>3, <1>4 DEF BlobsInv, BlobsType, Intents
<1>6. \A x \in Keys : x # k => Quiet(x)
  BY Zenon, <1>1, <1>3, <1>4 DEF Quiet
<1>7. KeyInv(k)'
  <2>1. Deleting(k) /\ row[k] = "none" /\ phase[k] # "new" /\ (k \in Direct => phase[k] = "done")
    BY Zenon, <1>2 DEF KeyInv, Deleting
  <2>2. k \in Direct \/ k \in Histories
    BY Zenon, <1>2 DEF Keys
  <2>3. DeleteSucceeds(k) => phase[k] = "done" /\ k \notin file' \cup disk'
    BY Zenon, <2>1, <2>2 DEF DeleteSucceeds, UnlinkAndFlush, Busy, InFlight
  <2>4. /\ phase[k] = "renamed" => k \in file'
        /\ phase[k] \in {"stored", "member"} => k \in file' \cap disk'
    BY Zenon, <1>2, <1>4, <2>1, <2>2 DEF KeyInv, Deletes, Busy, InFlight
  <2>5. \A x \in jobs' : x.key = k /\ x.at = "complete" => phase[k] = "done" /\ k \notin file' \cup disk'
    BY Zenon, <1>2, <1>3, <1>4, <2>3 DEF KeyInv
  <2>6. /\ phase[k] \in {"new", "putting"} => k \notin file' \cup disk'
        /\ k \in file' \cup disk' =>
              row[k] # "none" \/ k \in queue \/ (k \in Direct /\ (InFlight(k) \/ k \in untraced))
    BY Zenon, <1>2, <1>4 DEF KeyInv
  <2>7. /\ k \in Direct => phase[k] # "abort"
        /\ k \in Histories => /\ phase[k] \notin {"member", "cleanup", "requeue"}
                              /\ InFlight(k) => row[k] # "none" \/ k \in queue
    BY Zenon, <1>2 DEF KeyInv
  <2>8. QED
    BY ZenonT(60), <1>1, <2>1, <2>4, <2>5, <2>6, <2>7 DEF KeyInv, InFlight
<1>8. QED
  BY Zenon, <1>1, <1>2, <1>5, <1>6, <1>7, OneKey

\* A key leaves the queue when its file is gone for certain.
LEMMA CompleteInv ==
    ASSUME BlobsInv, NEW j \in jobs, CompleteBlobDeletion(j)
    PROVE  BlobsInv'
<1>1. /\ j.at = "complete" /\ jobs' = jobs \ {j} /\ UNCHANGED <<phase, file, disk, row, lapsed, untraced>>
      /\ queue' = queue \ {j.key} \/ queue' = queue
  BY Zenon DEF CompleteBlobDeletion, files
<1>2. j.key \in Keys /\ KeyInv(j.key)
  BY Zenon DEF BlobsInv, BlobsType, Job
<1> DEFINE k == j.key
<1>3. BlobsType'
  BY Zenon, <1>1 DEF BlobsInv, BlobsType, Intents
<1>4. \A x \in Keys : x # k => Quiet(x)
  BY Zenon, <1>1 DEF Quiet
<1>5. KeyInv(k)'
  <2>1. phase[k] = "done" /\ k \notin file \cup disk /\ row[k] = "none"
    BY Zenon, <1>1, <1>2 DEF KeyInv, Deleting
  <2>2. QED
    BY Zenon, <1>1, <2>1 DEF KeyInv, InFlight
<1>6. QED
  BY Zenon, <1>1, <1>2, <1>3, <1>4, <1>5, OneKey

\* Steps that leave every key alone: a failure is counted, the sweeper picks
\* its batch or gives up, a .tmp file goes, an intent lapses, a link ends.
LEMMA QuietStepInv ==
    ASSUME BlobsInv,
           \/ \E j \in jobs : RecordBlobDeletionFailure(j)
           \/ BudgetSpent \/ LinkExpires \/ UNCHANGED vars
           \/ \E k \in Keys : CleanupTemporaryFiles(k) \/ IntentLapses(k)
    PROVE  BlobsInv'
<1>1. /\ UNCHANGED <<phase, file, disk, row, queue, untraced>> /\ jobs' \subseteq jobs
      /\ lapsed' \subseteq lapsed \cup Intents
  BY Zenon DEF RecordBlobDeletionFailure, BudgetSpent, LinkExpires, vars, CleanupTemporaryFiles, IntentLapses,
     files, tables
<1>2. BlobsType'
  BY Zenon, <1>1 DEF BlobsInv, BlobsType, Intents
<1>3. \A k \in Keys : Quiet(k)
  BY Zenon, <1>1 DEF Quiet
<1>4. \A k \in Keys : KeyInv(k)'
  BY Zenon, <1>3, QuietKey DEF BlobsInv
<1>5. QuotaInv'
  BY Zenon, <1>1, FewerRows
<1>6. QED
  BY Zenon, <1>2, <1>4, <1>5 DEF BlobsInv

\* The sweeper takes queued keys only.
LEMMA PendingInv ==
    ASSUME BlobsInv, NEW B \in SUBSET queue, PendingBlobDeletions(B)
    PROVE  BlobsInv'
<1>1. /\ UNCHANGED <<phase, file, disk, row, lapsed, queue, untraced>>
      /\ jobs' = jobs \cup {[key |-> k, by |-> "sweep", at |-> "delete"] : k \in B}
  BY Zenon DEF PendingBlobDeletions, files, tables
<1>2. /\ \A j \in jobs' : j \in jobs \/ (j.at = "delete" /\ j.key \in queue)
      /\ jobs' \subseteq jobs \cup Job
  <2>1. PICK J : J = {[key |-> k, by |-> "sweep", at |-> "delete"] : k \in B}
    BY Zenon
  <2>2. jobs' = jobs \cup J /\ B \subseteq Keys
    BY Zenon, <1>1, <2>1 DEF BlobsInv, BlobsType
  <2>3. (\A j \in J : j.at = "delete" /\ j.key \in B) /\ J \subseteq Job
    BY Zenon, <2>1, <2>2, NewJob
  <2>4. QED
    BY Zenon, <2>2, <2>3
<1>3. BlobsType'
  <2>1. jobs' \subseteq Job
    BY Zenon, <1>2 DEF BlobsInv, BlobsType
  <2>2. QED
    BY Zenon, <1>1, <2>1 DEF BlobsInv, BlobsType, Intents
<1>4. ASSUME NEW k \in Keys
      PROVE  KeyInv(k)'
  <2>1. KeyInv(k)
    BY Zenon DEF BlobsInv
  <2>2. k \in queue' \/ Deleting(k)' => k \in queue \/ Deleting(k)
    BY Zenon, <1>1, <1>2 DEF Deleting
  <2>3. \A j \in jobs' : j.key = k /\ j.at = "complete" => j \in jobs
    BY Zenon, <1>2
  <2>4. QED
    BY Zenon, <1>1, <2>1, <2>2, <2>3 DEF KeyInv, InFlight
<1>5. QuotaInv'
  BY Zenon, <1>1, FewerRows
<1>6. QED
  BY Zenon, <1>3, <1>4, <1>5 DEF BlobsInv

\* A message takes an attachment.
LEMMA SaveInv ==
    ASSUME BlobsInv, NEW k \in Keys, SaveMessageEnvelope(k)
    PROVE  BlobsInv'
<1>1. /\ row[k] = "upload" /\ row' = [row EXCEPT ![k] = "linked"]
      /\ UNCHANGED <<phase, file, disk, lapsed, queue, jobs, untraced>>
  BY Zenon DEF SaveMessageEnvelope, files
<1>2. KeyInv(k) /\ row \in [Keys -> Row] /\ "linked" \in Row
  BY Zenon DEF BlobsInv, BlobsType, Row
<1>3. row' \in [Keys -> Row] /\ row'[k] = "linked" /\ \A i \in Keys : i # k => row'[i] = row[i]
  BY Zenon, <1>1, <1>2
<1>4. BlobsType'
  <2>1. lapsed' \subseteq Intents'
    BY Zenon, <1>1, <1>3 DEF BlobsInv, BlobsType, Intents
  <2>2. QED
    BY Zenon, <1>1, <1>3, <2>1 DEF BlobsInv, BlobsType
<1>5. \A i \in Keys : i # k => Quiet(i)
  BY Zenon, <1>1, <1>3 DEF Quiet
<1>6. KeyInv(k)'
  BY Zenon, <1>1, <1>2, <1>3 DEF KeyInv, InFlight, Deleting
<1>7. row[k] # "none"
  BY Zenon, <1>1
<1>8. QED
  BY Zenon, <1>4, <1>5, <1>6, <1>7, OneKey

\* A crash ends every upload, and may undo what was not flushed.
LEMMA CrashInv ==
    ASSUME BlobsInv, Crash
    PROVE  BlobsInv'
<1>1. PICK F \in SUBSET (file \cup disk) : file \cap disk \subseteq F /\ file' = F /\ disk' = F
  BY Zenon DEF Crash
<1>2. /\ phase' = [k \in Keys |-> IF InFlight(k) THEN "done" ELSE phase[k]]
      /\ jobs' = {} /\ untraced' = untraced \cup {k \in Direct : InFlight(k)}
      /\ UNCHANGED <<row, lapsed, queue>>
  BY Zenon DEF Crash, tables
<1>3. BlobsType'
  <2>1. phase' \in [Keys -> Phase]
    BY Zenon, <1>2 DEF BlobsInv, BlobsType, Phase
  <2>2. file' \subseteq Keys /\ disk' \subseteq Keys
    BY Zenon, <1>1 DEF BlobsInv, BlobsType
  <2>3. QED
    BY Zenon, <1>2, <2>1, <2>2 DEF BlobsInv, BlobsType, Intents
<1>4. ASSUME NEW k \in Keys
      PROVE  KeyInv(k)'
  <2>1. KeyInv(k) /\ phase'[k] = IF InFlight(k) THEN "done" ELSE phase[k]
    BY Zenon, <1>2 DEF BlobsInv
  <2>2. phase'[k] = "done" \/ (phase'[k] = "new" /\ phase[k] = "new")
    BY Zenon, <2>1 DEF InFlight
  <2>3. /\ k \in file' \cup disk' => k \in file \cup disk
        /\ k \in file \cap disk => k \in file' \cap disk'
        /\ ~Deleting(k)' /\ \A j \in jobs' : FALSE
    BY Zenon, <1>1, <1>2 DEF Deleting
  <2>4. k \in Direct /\ InFlight(k) => k \in untraced'
    BY Zenon, <1>2
  <2>5. /\ k \in Direct \/ k \in Histories
        /\ phase[k] \notin {"new", "done"} <=> InFlight(k)
    BY Zenon DEF Keys, InFlight
  <2>6. k \in file' \cup disk' =>
          row[k] # "none" \/ k \in queue \/ (k \in Direct /\ k \in untraced')
    BY Zenon, <1>2, <2>1, <2>3, <2>4 DEF KeyInv
  <2>7. QED
    BY Zenon, <1>2, <2>1, <2>2, <2>3, <2>6 DEF KeyInv, InFlight
<1>5. QuotaInv'
  BY Zenon, <1>2, FewerRows
<1>6. QED
  BY Zenon, <1>3, <1>4, <1>5 DEF BlobsInv

\* Every step.
LEMMA BlobsStepInv == BlobsInv /\ [Next]_vars => BlobsInv'
<1> SUFFICES ASSUME BlobsInv, [Next]_vars PROVE BlobsInv'
  OBVIOUS
<1>1. ASSUME NEW k \in Keys, PutEncryptedBlob(k) \/ RegisterHistoryUpload(k) \/ Upload(k)
      PROVE  BlobsInv'
  BY Zenon, <1>1, PhaseStepInv, StoreStepInv, CreateEnvelopeInv, RegisterInv, FinalizeInv, AbortInv, CleanupInv,
     QueueBlobDeletionInv
     DEF Upload, StoreBlob, uploadAttachment, uploadBackup, uploadHistoryTransfer
<1>2. ASSUME NEW j \in jobs, Handler(j) \/ SweeperStep(j)
      PROVE  BlobsInv'
  BY Zenon, <1>2, DeleteBlobInv, CompleteInv, QuietStepInv DEF Handler, SweeperStep
<1>3. ASSUME NEW k \in Keys, SaveMessageEnvelope(k) \/ CleanupTemporaryFiles(k) \/ IntentLapses(k)
      PROVE  BlobsInv'
  BY Zenon, <1>3, SaveInv, QuietStepInv
<1>4. QED
  BY Zenon, <1>1, <1>2, <1>3, RetiringInv, PendingInv, QuietStepInv, CrashInv DEF Next

\* Whatever the database offers for download is in the store and survives a
\* crash, for any uploads, histories, batch sizes, faults and crashes
\* (putEncryptedBlob, CreateAttachmentEnvelope, FinalizeHistoryUpload, Delete).
THEOREM RecordedAreStored == Spec => []RecordedIsStored
<1>1. BlobsInv => RecordedIsStored
  BY Zenon DEF BlobsInv, KeyInv, RecordedIsStored
<1>2. QED
  BY BlobsInitInv, BlobsStepInv, <1>1, PTL DEF Spec

\* No file of the store, and no name a crash may bring back, is forgotten
\* except by an attachment or backup upload that a crash or a second failure
\* cut short: never one of a history upload (cleanupUncommittedBlob,
\* enqueueBlobDeletion, CompleteBlobDeletion).
THEOREM FilesAreTraced == Spec => []NoForgottenFile
<1>1. BlobsInv => NoForgottenFile
  BY Zenon DEF BlobsInv, BlobsType, KeyInv, NoForgottenFile
<1>2. QED
  BY BlobsInitInv, BlobsStepInv, <1>1, PTL DEF Spec

\* The account's rows and intents never exceed its quota, however many uploads
\* and registrations overlap (CreateAttachmentEnvelope, CreateBackupBlob,
\* RegisterHistoryUpload count and insert in one transaction).
THEOREM QuotaHolds == Spec => []WithinQuota
<1>1. BlobsInv => WithinQuota
  BY Zenon DEF BlobsInv, QuotaInv, Rows, BlobCount, WithinQuota
<1>2. QED
  BY BlobsInitInv, BlobsStepInv, <1>1, PTL DEF Spec

=============================================================================
