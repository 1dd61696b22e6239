-------------------------------- MODULE Roles --------------------------------
(***************************************************************************)
(* Conversation roles and what each of them may do                         *)
(* (server/internal/domain/types.go).  "none" stands for the absence of a  *)
(* memberships row.                                                        *)
(***************************************************************************)
EXTENDS Naturals

MemberRoles == {"member", "moderator", "admin", "owner"}

Roles == MemberRoles \cup {"none"}

RoleRank == [none |-> 0, member |-> 1, moderator |-> 2, admin |-> 3, owner |-> 4]

CanManageMembers(r) == r \in {"owner", "admin", "moderator"}

CanPostRestricted(r) == r \in {"owner", "admin"}
=============================================================================
