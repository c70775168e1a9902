------------------------------- MODULE Teams -------------------------------
(***************************************************************************)
(* The teams of the organizations.  Adding a member to a team takes five   *)
(* calls: the caller's access, twice, the team, the user, the user's       *)
(* membership of the organization, and only then the INSERT.  A team is    *)
(* its organization and its slug; its name is left out.                    *)
(***************************************************************************)
EXTENDS OrganizationServing

CONSTANTS
  TeamSlugs,  \* team slugs, which two organizations may both use
  Usernames   \* what a request may name as a user, registered or not

VARIABLES
  teams,        \* the teams table: <<organization, slug>>
  teamMembers   \* the team_members table: <<organization, slug, user>>

teamsVars == <<req, started, audit, members, teams, teamMembers>>

TeamKeys == Organizations \X TeamSlugs

Operations == {"list_teams", "create_team", "list_members", "add_member"}

Steps == {"readable", "writable", "list_teams", "list_members", "insert_team",
          "find_team", "find_user", "is_member", "insert_member", "audit"}

Request ==
  {Idle} \cup
  [step : Steps, op : Operations, actor : Users, org : Owners,
   slug : TeamSlugs, user : Usernames]

TablesUnchanged == UNCHANGED <<members, teams, teamMembers>>

Team(q) == <<q.org, q.slug>>
TeamMember(q) == <<q.org, q.slug, q.user>>
-----------------------------------------------------------------------------
TeamsInit ==
  /\ ServingInit
  /\ members = Founders
  /\ teams = {}
  /\ teamMembers = {}

JoinOrganization == AddMember /\ UNCHANGED <<teams, teamMembers>>

Start(p, op, u, org, slug, user) ==
  /\ op # "add_member" => user = u
  /\ Arrive(p, [step |-> "readable", op |-> op, actor |-> u, org |-> org,
                slug |-> slug, user |-> user])
  /\ TablesUnchanged

AfterReadable(op) == CASE op = "list_teams" -> "list_teams"
                       [] op = "list_members" -> "find_team"
                       [] OTHER -> "writable"

Readable(p) ==
  /\ ReadableOrganization(p, req[p].org, AfterReadable(req[p].op))
  /\ UNCHANGED <<teams, teamMembers>>

Writable(p) ==
  /\ WritableOrganization(p, req[p].org,
                          IF req[p].op = "create_team" THEN "insert_team"
                                                       ELSE "find_team")
  /\ UNCHANGED <<teams, teamMembers>>

(* createTeam: INSERT, refused when the organization has the slug (UNIQUE) *)
InsertTeam(p) ==
  /\ At(p, "insert_team")
  /\ IF Team(req[p]) \in teams
       THEN Answer(p) /\ UNCHANGED teams                        \* 409
       ELSE teams' = teams \cup {Team(req[p])} /\ GoTo(p, "audit")
  /\ UNCHANGED <<members, teamMembers>> /\ Quietly

(* requireTeam                                                             *)
FindTeam(p) ==
  /\ At(p, "find_team")
  /\ IF Team(req[p]) \in teams
       THEN GoTo(p, IF req[p].op = "add_member" THEN "find_user"
                                                ELSE "list_members")
       ELSE Answer(p)                                           \* 404
  /\ TablesUnchanged /\ Quietly

ListRows(p) ==
  /\ At(p, "list_teams") \/ At(p, "list_members")
  /\ Answer(p)
  /\ TablesUnchanged /\ Quietly

(* addTeamMember: findUserIdByUsername ...                                 *)
FindUser(p) ==
  /\ At(p, "find_user")
  /\ IF req[p].user \in Users THEN GoTo(p, "is_member")
                              ELSE Answer(p)                    \* 404
  /\ TablesUnchanged /\ Quietly

(* Mutant: membership of any organization will do.                         *)
IsMemberAnywhere(p) ==
  /\ At(p, "is_member")
  /\ IF \E slug \in Organizations : IsMember(members, slug, req[p].user)
       THEN GoTo(p, "insert_member")
       ELSE Answer(p)
  /\ TablesUnchanged /\ Quietly

(* ... isMember ...                                                        *)
IsMemberOfOrganization(p) ==
  /\ At(p, "is_member")
  /\ IF IsMember(members, req[p].org, req[p].user)
       THEN GoTo(p, "insert_member")
       ELSE Answer(p)                                           \* 403
  /\ TablesUnchanged /\ Quietly

(* ... INSERT INTO team_members, refused when the row is there (UNIQUE).   *)
InsertMember(p) ==
  LET row == TeamMember(req[p]) IN
  /\ At(p, "insert_member")
  /\ IF row \in teamMembers
       THEN Answer(p) /\ UNCHANGED teamMembers                  \* 409
       ELSE teamMembers' = teamMembers \cup {row} /\ GoTo(p, "audit")
  /\ UNCHANGED <<members, teams>> /\ Quietly

Action(op) == IF op = "create_team" THEN "team.create" ELSE "team.member.add"

Audit(p) == At(p, "audit") /\ Record(p, Action(req[p].op)) /\ TablesUnchanged

Fail(p) == Drop(p) /\ TablesUnchanged

Serve(p) == \/ Readable(p) \/ Writable(p) \/ InsertTeam(p) \/ FindTeam(p)
            \/ ListRows(p) \/ FindUser(p) \/ IsMemberOfOrganization(p)
            \/ InsertMember(p) \/ Audit(p)

TeamsNext ==
  \/ JoinOrganization
  \/ \E p \in Requests, op \in Operations, u \in Users, org \in Owners,
        slug \in TeamSlugs, user \in Usernames :
        Start(p, op, u, org, slug, user)
  \/ \E p \in Requests : Serve(p) \/ Fail(p)

TeamsSpec == TeamsInit /\ [][TeamsNext]_teamsVars
-----------------------------------------------------------------------------
TeamsTypeOK ==
  /\ members \subseteq Memberships
  /\ teams \subseteq TeamKeys
  /\ \A row \in teamMembers : <<row[1], row[2]>> \in TeamKeys /\ row[3] \in Users
  /\ req \in [Requests -> Request]
  /\ started \in Nat
  /\ audit \subseteq {"team.create", "team.member.add"}

(* What a step may add, and by whom it is done.                            *)
GrowsByOwner ==
  /\ \A row \in teamMembers' \ teamMembers :
       /\ <<row[1], row[2]>> \in teams
       /\ IsMember(members, row[1], row[3])
  /\ \A org \in Organizations :
       (\/ \E slug \in TeamSlugs : <<org, slug>> \in teams' \ teams
        \/ \E row \in teamMembers' \ teamMembers : row[1] = org) =>
          \E p \in Requests : /\ req'[p] # req[p]
                              /\ req[p].org = org
                              /\ MayWriteOrganization(req[p].actor, org)

(* A team and its members come from an owner of its organization or an     *)
(* admin, and whoever joins a team of an organization belongs to that      *)
(* organization and finds the team in place, although each of this was     *)
(* looked up in a call of its own.                                         *)
TeamsGrowByOwners == [][GrowsByOwner]_teamsVars
=============================================================================
