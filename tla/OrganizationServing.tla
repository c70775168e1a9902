------------------------ MODULE OrganizationServing ------------------------
(***************************************************************************)
(* The gate in front of what belongs to an organization.  Organizations    *)
(* gain members while requests run and never lose one.                     *)
(***************************************************************************)
EXTENDS Serving

CONSTANT Founders   \* the organization_members rows at the start

ASSUME OrganizationServingAssumption == Founders \subseteq Memberships

VARIABLE members    \* the organization_members table

MayReadOrganization(u, slug) ==
  /\ slug \in Organizations
  /\ u \in Admins \/ IsMember(members, slug, u)

MayWriteOrganization(u, slug) ==
  /\ slug \in Organizations
  /\ u \in Admins \/ <<slug, u, "owner">> \in members

(* OrganizationService.addMember in another request: Accounts.tla          *)
AddMember ==
  /\ \E row \in Memberships :
        /\ MayInsertMember(members, row[1], row[2])
        /\ members' = members \cup {row}
  /\ UNCHANGED <<req, started, audit>>

(* requireReadableOrganization                                             *)
ReadableOrganization(p, slug, next) ==
  /\ At(p, "readable")
  /\ IF MayReadOrganization(req[p].actor, slug) THEN GoTo(p, next)
                                                ELSE Answer(p)  \* 404, 403
  /\ Quietly /\ UNCHANGED members

(* requireWritableOrganization, after requireReadableOrganization          *)
WritableOrganization(p, slug, next) ==
  /\ At(p, "writable")
  /\ IF MayWriteOrganization(req[p].actor, slug) THEN GoTo(p, next)
                                                 ELSE Answer(p) \* 403
  /\ Quietly /\ UNCHANGED members
=============================================================================
