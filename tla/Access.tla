------------------------------- MODULE Access -------------------------------
(***************************************************************************)
(* Who may read and who may write the repositories of an owner namespace:  *)
(* the decisions of OrganizationRepository.canReadOwner / canWriteOwner,   *)
(* which every repository, issue, wiki, release and registry handler uses. *)
(* An owner is a username or an organization slug.  `members' is the       *)
(* organization_members table, as a set of <<slug, user, role>>.           *)
(***************************************************************************)
CONSTANTS
  Users,          \* registered usernames
  Admins,         \* the users whose role is "admin" (fixed at registration)
  Organizations,  \* organization slugs
  Anonymous       \* the actor of a request without credentials (null)

ASSUME AccessAssumption ==
  /\ Admins \subseteq Users
  /\ Anonymous \notin Users

Roles == {"owner", "member"}

Owners == Users \cup Organizations

Actors == Users \cup {Anonymous}

Memberships == Organizations \X Users \X Roles

(* findMembership(slug, userId) # null *)
IsMember(members, owner, actor) ==
  \E role \in Roles : <<owner, actor, role>> \in members

CanReadOwner(members, owner, actor) ==
  /\ actor # Anonymous
  /\ \/ actor \in Admins
     \/ actor = owner
     \/ IsMember(members, owner, actor)

CanWriteOwner(members, owner, actor) ==
  \/ actor \in Admins
  \/ actor = owner
  \/ <<owner, actor, "owner">> \in members

(* addMember and createWithOwner: UNIQUE(organization_id, user_id).        *)
MayInsertMember(members, slug, user) == ~IsMember(members, slug, user)
=============================================================================
