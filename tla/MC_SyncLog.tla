----------------------------- MODULE MC_SyncLog -----------------------------
(***************************************************************************)
(* Instances of SyncLog: two accounts, up to two devices, one chat.       *)
(***************************************************************************)
EXTENDS SyncLog, TLC

CONSTANTS alice, bob, a1, b1, b2, chat

MCOwner == [d \in Devices |-> IF d = a1 THEN alice ELSE bob]
NoMemberships == [x \in {chat} |-> [a \in {alice, bob} |-> "none"]]
Empty == <<>>
LegacyMemberships == [x \in {chat} |-> (alice :> "owner" @@ bob :> "member")]
\* Three shared events, all pruned before migration 0044.
LegacyEvents == [i \in 1..3 |-> EventRow("membership", None, None, chat, 0, None, NoEpoch)]
BobInvited == {<<bob>>}
AddNone == {<<>>}
AddBob == {<<>>, <<b1>>}
AddBobs == {<<>>, <<b1>>, <<b2, b1>>}
NoPairs == {}
BobBlocksAlice == {<<bob, alice>>}
=============================================================================
