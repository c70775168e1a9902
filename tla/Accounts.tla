------------------------------ MODULE Accounts ------------------------------
(***************************************************************************)
(* Who exists and who belongs where: registration of users, creation of    *)
(* organizations, and organization membership.  Usernames and organization *)
(* slugs are one namespace, the owners of repositories, kept in two tables *)
(* with no constraint between them; each side looks into the other's table *)
(* before it inserts into its own.  Users, organizations and memberships   *)
(* are never removed, and a user's role never changes.                     *)
(***************************************************************************)
EXTENDS Naturals, FiniteSets

CONSTANTS
  Requests,    \* slots for requests being served at the same time
  Names,       \* valid usernames, which are the valid slugs as well
  Anonymous,   \* the actor of a request without credentials
  MaxRequests  \* bound: requests that ever arrive

ASSUME AccountsAssumption ==
  /\ Anonymous \notin Names
  /\ MaxRequests \in Nat

VARIABLES
  role,         \* the users table: the role under each name, "none" for no row
  orgs,         \* the organizations table: the slugs
  created_by,   \* its created_by under each slug, Anonymous for no row
  members,      \* organization_members: <<slug, user, role>>
  audit,        \* audit_logs: <<action, name>>
  req,          \* the request in each slot
  started,      \* how many requests arrived
  bootstraps,   \* history: admins registered without an admin's credentials
  rushed,       \* history: such a registration overlapped another one
  raced,        \* history: names whose two kinds of creation overlapped
  interrupted   \* history: slugs whose creation stopped between two INSERTs

vars == <<role, orgs, created_by, members, audit, req, started, bootstraps,
          rushed, raced, interrupted>>

UserRoles == {"admin", "developer"}
MemberRoles == {"owner", "member"}

Operations == {"register", "create_org", "add_member", "read_org"}

Steps == {"idle",
          "org_exists", "any_user", "insert_user",
          "find_user", "insert_org", "insert_owner",
          "readable", "writable", "find_member", "insert_member",
          "read", "audit"}

(* name is the username or slug of the path or body; user and as are the   *)
(* member to add and its role; as is the user's role when registering.     *)
Request ==
  [step : Steps, op : Operations, actor : Names \cup {Anonymous},
   name : Names, user : Names, as : UserRoles \cup MemberRoles]

Registered(n) == role[n] # "none"
IsAdmin(u) == u # Anonymous /\ role[u] = "admin"
MemberAs(slug, u, r) == <<slug, u, r>> \in members
IsMember(slug, u) == \E r \in MemberRoles : MemberAs(slug, u, r)
-----------------------------------------------------------------------------
At(p, step) == req[p].step = step

(* Registration of n and creation of an organization n have both looked    *)
(* into the other table and inserted into neither.                         *)
NamesOverlap(rq, n) ==
  \E p, q \in Requests : /\ rq[p].name = n /\ rq[q].name = n
                         /\ rq[p].step \in {"any_user", "insert_user"}
                         /\ rq[q].step = "insert_org"

(* Two registrations, one of an admin, have both found no user to forbid   *)
(* them and have not inserted.                                             *)
Rush(rq) ==
  \E p, q \in Requests : /\ p # q
                         /\ rq[p].step = "insert_user"
                         /\ rq[q].step = "insert_user"
                         /\ "admin" \in {rq[p].as, rq[q].as}

Becomes(p, record) ==
  /\ req' = [req EXCEPT ![p] = record]
  /\ raced' = raced \cup {n \in Names : NamesOverlap(req', n)}
  /\ rushed' = (rushed \/ Rush(req'))

GoTo(p, step) == Becomes(p, [req[p] EXCEPT !.step = step])

Ended(q) == [q EXCEPT !.step = "idle", !.op = "read_org", !.actor = Anonymous,
                      !.as = "member"]

Answer(p) == Becomes(p, Ended(req[p]))

TablesUnchanged == UNCHANGED <<role, orgs, created_by, members, audit>>
HistoryUnchanged == UNCHANGED <<started, bootstraps, interrupted>>
OnlyRequests == TablesUnchanged /\ HistoryUnchanged
-----------------------------------------------------------------------------
Init ==
  /\ role = [n \in Names |-> "none"]
  /\ orgs = {}
  /\ created_by = [n \in Names |-> Anonymous]
  /\ members = {}
  /\ audit = {}
  /\ req \in [Requests -> {[step |-> "idle", op |-> "read_org",
                            actor |-> Anonymous, name |-> n, user |-> n,
                            as |-> "member"] : n \in Names}]
  /\ started = 0
  /\ bootstraps = {}
  /\ rushed = FALSE
  /\ raced = {}
  /\ interrupted = {}

(* A request arrives; anyone may register, the rest needs credentials.     *)
FirstStep(op) == CASE op = "register" -> "org_exists"
                   [] op = "create_org" -> "find_user"
                   [] OTHER -> "readable"

Start(p, op, u, n, m, as) ==
  /\ At(p, "idle")
  /\ u = Anonymous => op = "register"
  /\ u # Anonymous => Registered(u)
  /\ op # "add_member" => m = n
  /\ CASE op = "register" -> as \in UserRoles
       [] op = "add_member" -> as \in MemberRoles
       [] OTHER -> as = "member"
  /\ started < MaxRequests
  /\ started' = started + 1
  /\ Becomes(p, [step |-> FirstStep(op), op |-> op, actor |-> u, name |-> n,
                 user |-> m, as |-> as])
  /\ TablesUnchanged /\ UNCHANGED <<bootstraps, interrupted>>
-----------------------------------------------------------------------------
(* Mutant: the rule for admins is not applied.                             *)
OrganizationExistsOnly(p) ==
  /\ At(p, "org_exists")
  /\ IF req[p].name \in orgs THEN Answer(p) ELSE GoTo(p, "insert_user")
  /\ OnlyRequests

(* POST /api/users: no organization of that name, then AuthService.register*)
OrganizationExists(p) ==
  /\ At(p, "org_exists")
  /\ IF req[p].name \in orgs
       THEN Answer(p)                                           \* 409
       ELSE GoTo(p, IF req[p].as = "admin" THEN "any_user" ELSE "insert_user")
  /\ OnlyRequests

(* An admin is registered by an admin, or before there is any user.        *)
AnyUser(p) ==
  /\ At(p, "any_user")
  /\ IF (\E n \in Names : Registered(n)) /\ ~IsAdmin(req[p].actor)
       THEN Answer(p)                                           \* 403
       ELSE GoTo(p, "insert_user")
  /\ OnlyRequests

(* INSERT INTO users; usernames are unique.                                *)
InsertUser(p) ==
  LET n == req[p].name IN
  /\ At(p, "insert_user")
  /\ IF Registered(n)
       THEN Answer(p) /\ UNCHANGED <<role, bootstraps>>         \* 409
       ELSE /\ role' = [role EXCEPT ![n] = req[p].as]
            /\ bootstraps' = IF req[p].as = "admin" /\ ~IsAdmin(req[p].actor)
                               THEN bootstraps \cup {n} ELSE bootstraps
            /\ GoTo(p, "audit")
  /\ UNCHANGED <<orgs, created_by, members, audit, started, interrupted>>
-----------------------------------------------------------------------------
(* Mutant: the other table is not consulted.                               *)
FindUserSkipped(p) ==
  /\ At(p, "find_user")
  /\ GoTo(p, "insert_org")
  /\ OnlyRequests

(* OrganizationService.createOrganization: no user of that name ...        *)
FindUser(p) ==
  /\ At(p, "find_user")
  /\ IF Registered(req[p].name) THEN Answer(p)                  \* 409
                                ELSE GoTo(p, "insert_org")
  /\ OnlyRequests

(* ... then createWithOwner, two INSERTs with no transaction around them.  *)
InsertOrganization(p) ==
  LET n == req[p].name IN
  /\ At(p, "insert_org")
  /\ IF n \in orgs
       THEN Answer(p) /\ UNCHANGED <<orgs, created_by>>         \* 409
       ELSE /\ orgs' = orgs \cup {n}
            /\ created_by' = [created_by EXCEPT ![n] = req[p].actor]
            /\ GoTo(p, "insert_owner")
  /\ UNCHANGED <<role, members, audit>> /\ HistoryUnchanged

(* Mutant: INSERT OR IGNORE, a row that is there already is no error.      *)
InsertOwnerOrIgnore(p) ==
  LET n == req[p].name u == req[p].actor IN
  /\ At(p, "insert_owner")
  /\ members' = IF IsMember(n, u) THEN members
                                  ELSE members \cup {<<n, u, "owner">>}
  /\ GoTo(p, "audit")
  /\ UNCHANGED <<role, orgs, created_by, audit>> /\ HistoryUnchanged

(* The second INSERT: one row per organization and user.  An admin may     *)
(* have added the creator since the first one; the organization stays.     *)
InsertOwner(p) ==
  LET n == req[p].name u == req[p].actor IN
  /\ At(p, "insert_owner")
  /\ IF IsMember(n, u)
       THEN Answer(p) /\ UNCHANGED members                      \* 409
       ELSE members' = members \cup {<<n, u, "owner">>} /\ GoTo(p, "audit")
  /\ UNCHANGED <<role, orgs, created_by, audit>> /\ HistoryUnchanged
-----------------------------------------------------------------------------
(* Mutant: adding a member asks only whether the organization exists.      *)
ReadableByAnyone(p) ==
  LET n == req[p].name u == req[p].actor IN
  /\ At(p, "readable")
  /\ IF /\ n \in orgs
        /\ req[p].op = "read_org" => IsAdmin(u) \/ IsMember(n, u)
       THEN GoTo(p, IF req[p].op = "read_org" THEN "read" ELSE "find_member")
       ELSE Answer(p)
  /\ OnlyRequests

(* requireReadableOrganization                                             *)
Readable(p) ==
  LET n == req[p].name u == req[p].actor IN
  /\ At(p, "readable")
  /\ IF n \in orgs /\ (IsAdmin(u) \/ IsMember(n, u))
       THEN GoTo(p, IF req[p].op = "read_org" THEN "read" ELSE "writable")
       ELSE Answer(p)                                           \* 404, 403
  /\ OnlyRequests

(* getOrganization's listMembers                                           *)
Read(p) ==
  /\ At(p, "read")
  /\ Answer(p)
  /\ OnlyRequests

(* addMember: requireWritableOrganization, the user, the INSERT (one row   *)
(* per organization and user).                                             *)
Writable(p) ==
  LET n == req[p].name u == req[p].actor IN
  /\ At(p, "writable")
  /\ IF IsAdmin(u) \/ MemberAs(n, u, "owner") THEN GoTo(p, "find_member")
                                              ELSE Answer(p)    \* 403
  /\ OnlyRequests

FindMember(p) ==
  /\ At(p, "find_member")
  /\ IF Registered(req[p].user) THEN GoTo(p, "insert_member")
                                ELSE Answer(p)                  \* 404
  /\ OnlyRequests

InsertMember(p) ==
  LET n == req[p].name m == req[p].user IN
  /\ At(p, "insert_member")
  /\ IF IsMember(n, m)
       THEN Answer(p) /\ UNCHANGED members                      \* 409
       ELSE members' = members \cup {<<n, m, req[p].as>>} /\ GoTo(p, "audit")
  /\ UNCHANGED <<role, orgs, created_by, audit>> /\ HistoryUnchanged
-----------------------------------------------------------------------------
Action(op) == CASE op = "register" -> "user.register"
                [] op = "create_org" -> "organization.create"
                [] OTHER -> "organization.member.add"

(* Mutant: action and target swapped.                                      *)
AuditSwapped(p) ==
  /\ At(p, "audit")
  /\ audit' = audit \cup {<<req[p].name, Action(req[p].op)>>}
  /\ Answer(p)
  /\ UNCHANGED <<role, orgs, created_by, members>> /\ HistoryUnchanged

Audit(p) ==
  /\ At(p, "audit")
  /\ audit' = audit \cup {<<Action(req[p].op), req[p].name>>}
  /\ Answer(p)
  /\ UNCHANGED <<role, orgs, created_by, members>> /\ HistoryUnchanged

(* The awaited call throws, a field fails its validation, or the process   *)
(* stops.                                                                  *)
Fail(p) ==
  /\ ~At(p, "idle")
  /\ interrupted' = IF At(p, "insert_owner")
                      THEN interrupted \cup {req[p].name} ELSE interrupted
  /\ Answer(p)
  /\ TablesUnchanged /\ UNCHANGED <<started, bootstraps>>

Register(p) == OrganizationExists(p) \/ AnyUser(p) \/ InsertUser(p)
CreateOrganization(p) == FindUser(p) \/ InsertOrganization(p) \/ InsertOwner(p)
AddMember(p) == Writable(p) \/ FindMember(p) \/ InsertMember(p)

Serve(p) == \/ Register(p) \/ CreateOrganization(p) \/ Readable(p) \/ Read(p)
            \/ AddMember(p) \/ Audit(p)

Next ==
  \/ \E p \in Requests, op \in Operations, u \in Names \cup {Anonymous},
        n, m \in Names, as \in UserRoles \cup MemberRoles :
        Start(p, op, u, n, m, as)
  \/ \E p \in Requests : Serve(p) \/ Fail(p)

Spec == Init /\ [][Next]_vars
-----------------------------------------------------------------------------
TypeOK ==
  /\ role \in [Names -> UserRoles \cup {"none"}]
  /\ orgs \subseteq Names
  /\ created_by \in [Names -> Names \cup {Anonymous}]
  /\ members \subseteq Names \X Names \X MemberRoles
  /\ audit \subseteq {Action(op) : op \in Operations} \X Names
  /\ req \in [Requests -> Request]
  /\ started \in Nat
  /\ bootstraps \subseteq Names
  /\ rushed \in BOOLEAN
  /\ raced \subseteq Names
  /\ interrupted \subseteq Names

(* A name is a user or an organization, never both, unless its             *)
(* registration and its creation passed each other between check and       *)
(* INSERT (server.ts POST /api/users, createOrganization).                 *)
NamesDisjoint == \A n \in Names \ raced : ~(Registered(n) /\ n \in orgs)

(* What the tests and the error texts say, without the proviso.            *)
NamesAlwaysDisjoint == \A n \in Names : ~(Registered(n) /\ n \in orgs)

(* Only one admin ever registers without an admin's credentials, unless    *)
(* two registrations passed each other between hasAnyUser and INSERT.      *)
OneBootstrap == ~rushed => Cardinality(bootstraps) <= 1

(* The same without the proviso.                                           *)
AlwaysOneBootstrap == Cardinality(bootstraps) <= 1

(* Whoever created an organization is its owner.  Where that is not so,    *)
(* the audit log does not report the creation, and its request is about to *)
(* insert the owner's row, or stopped before it, or was refused it because *)
(* an admin had added the creator as a plain member between the two        *)
(* INSERTs of createWithOwner.                                             *)
OrganizationsHaveOwner ==
  \A n \in orgs :
     \/ MemberAs(n, created_by[n], "owner")
     \/ /\ <<"organization.create", n>> \notin audit
        /\ \/ \E p \in Requests : At(p, "insert_owner") /\ req[p].name = n
           \/ n \in interrupted
           \/ MemberAs(n, created_by[n], "member")

(* A membership comes from the creation of its organization, or from a     *)
(* request of someone who is an admin or an owner of it at that moment,    *)
(* though that was checked two statements earlier.                         *)
MembershipIsGranted ==
  [][\A row \in members' \ members :
       \E p \in Requests :
          /\ req[p].name = row[1] /\ row[1] \in orgs
          /\ \/ At(p, "insert_owner") /\ row[2] = req[p].actor
             \/ /\ At(p, "insert_member") /\ Registered(row[2])
                /\ \/ IsAdmin(req[p].actor)
                   \/ MemberAs(row[1], req[p].actor, "owner")]_vars
=============================================================================
