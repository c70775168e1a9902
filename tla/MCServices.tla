----------------------------- MODULE MCServices -----------------------------
(* Small instances of the components that keep tables of their own: module *)
(* registry, teams, projects, releases, webhooks, wiki, credentials; and   *)
(* of the libSQL driver and the Git gateway.  They share no state, so no   *)
(* step of one can disturb another; a behaviour of this module runs one of *)
(* them, chosen at the start.  The repository is private and belongs to    *)
(* org, of which alice is an owner and bob a member (for projects, where   *)
(* the log tells authors apart, an owner too).                             *)
EXTENDS RepositoryServing, OrganizationServing, TLC

CONSTANTS
  alice, bob, org, club, p1, p2, secret1,
  Scopes, Names, Versions, Sources, TeamSlugs, Usernames, MaxNumber, Tags, Notes,
  Events, Slugs, Passwords, Password, PublicKeys, MaxValue,
  MaxLines, MaxBody

ASSUME ServicesAssumption ==
  /\ Users \subseteq Usernames
  /\ Password \in [Users -> Passwords]
  /\ Passwords \cap Nat = {}

ASSUME BoundsAssumption ==
  MaxValue \in Nat /\ MaxLines \in Nat /\ MaxBody \in Nat

VARIABLES
  component, packages, versions, teams, teamMembers, projects, releases,
  hooks, created, deliveries, posts, unrecorded, version, writes, raced,
  tokens, used, keys, keysMade,
  sql, index, current, inSingleQuote, statements, outcome, intended, executed,
  output, search, position, response, meant

MCFounders == {<<org, alice, "owner">>, <<club, bob, "owner">>,
               <<club, alice, "member">>}
MCMembers == {<<org, alice, "owner">>, <<org, bob, "member">>}
MCWriters == {<<org, alice, "owner">>, <<org, bob, "owner">>}
MCPassword == [u \in Users |-> secret1]

Slots == Permutations(Requests)

(* Registry and Wiki come with their lemmas, which Services_proofs cites.  *)
Reg == INSTANCE Registry_proofs
Tea == INSTANCE Teams
Pro == INSTANCE Projects WITH Members <- MCWriters
Rel == INSTANCE Releases
Web == INSTANCE Webhooks
Wik == INSTANCE Wiki_proofs
Cre == INSTANCE Credentials
Sql == INSTANCE SqlScript
Cgi == INSTANCE CgiOutput

Repository == <<repo, made, stale>>
RegistryTables == <<packages, versions>>
TeamTables == <<teams, teamMembers>>
WebhookTables == <<hooks, created, deliveries, posts, unrecorded>>
WikiTables == <<version, writes, raced>>
CredentialTables == <<tokens, used, keys, keysMade>>
Requesting == <<req, started, audit>>
SqlState == <<sql, index, current, inSingleQuote, statements, outcome, intended,
              executed>>
CgiState == <<output, search, position, response, meant>>

vars ==
  <<component, Requesting, Repository, members, RegistryTables, TeamTables,
    projects, releases, WebhookTables, WikiTables, CredentialTables,
    SqlState, CgiState>>

Init ==
  /\ component \in {"registry", "teams", "projects", "releases", "webhooks",
                    "wiki", "credentials", "sql", "cgi"}
  /\ Reg!RegistryInit
  /\ Tea!TeamsInit
  /\ Pro!ProjectsInit
  /\ Rel!ReleasesInit
  /\ Web!WebhooksInit
  /\ Wik!WikiInit
  /\ Cre!CredentialsInit
  /\ Sql!SqlInit
  /\ Cgi!CgiInit

RegistryStep ==
  /\ component = "registry"
  /\ Reg!RegistryNext
  /\ UNCHANGED <<component, Repository, TeamTables, projects, releases,
                 WebhookTables, WikiTables, CredentialTables, SqlState,
                 CgiState>>

TeamsStep ==
  /\ component = "teams"
  /\ Tea!TeamsNext
  /\ UNCHANGED <<component, Repository, RegistryTables, projects, releases,
                 WebhookTables, WikiTables, CredentialTables, SqlState,
                 CgiState>>

ProjectsStep ==
  /\ component = "projects"
  /\ Pro!ProjectsNext
  /\ UNCHANGED <<component, members, RegistryTables, TeamTables, releases,
                 WebhookTables, WikiTables, CredentialTables, SqlState,
                 CgiState>>

ReleasesStep ==
  /\ component = "releases"
  /\ Rel!ReleasesNext
  /\ UNCHANGED <<component, members, RegistryTables, TeamTables, projects,
                 WebhookTables, WikiTables, CredentialTables, SqlState,
                 CgiState>>

WebhooksStep ==
  /\ component = "webhooks"
  /\ Web!WebhooksNext
  /\ UNCHANGED <<component, members, RegistryTables, TeamTables, projects,
                 releases, WikiTables, CredentialTables, SqlState,
                 CgiState>>

WikiStep ==
  /\ component = "wiki"
  /\ Wik!WikiNext
  /\ UNCHANGED <<component, members, RegistryTables, TeamTables, projects,
                 releases, WebhookTables, CredentialTables, SqlState,
                 CgiState>>

CredentialsStep ==
  /\ component = "credentials"
  /\ Cre!CredentialsNext
  /\ UNCHANGED <<component, Repository, members, RegistryTables, TeamTables,
                 projects, releases, WebhookTables, WikiTables, SqlState,
                 CgiState>>

SqlStep ==
  /\ component = "sql"
  /\ Sql!SqlNext
  /\ UNCHANGED <<component, Requesting, Repository, members, RegistryTables,
                 TeamTables, projects, releases, WebhookTables, WikiTables,
                 CredentialTables, CgiState>>

CgiStep ==
  /\ component = "cgi"
  /\ Cgi!CgiNext
  /\ UNCHANGED <<component, Requesting, Repository, members, RegistryTables,
                 TeamTables, projects, releases, WebhookTables, WikiTables,
                 CredentialTables, SqlState>>

Next == \/ RegistryStep \/ TeamsStep \/ ProjectsStep
        \/ ReleasesStep \/ WebhooksStep \/ WikiStep
        \/ CredentialsStep \/ SqlStep \/ CgiStep

Spec == Init /\ [][Next]_vars
-----------------------------------------------------------------------------
(* The type invariants of the nine modules.                                *)
TypeOK ==
  CASE component = "registry" -> Reg!RegistryTypeOK
    [] component = "teams" -> Tea!TeamsTypeOK
    [] component = "projects" -> Pro!ProjectsTypeOK
    [] component = "releases" -> Rel!ReleasesTypeOK
    [] component = "webhooks" -> Web!WebhooksTypeOK
    [] component = "wiki" -> Wik!WikiTypeOK
    [] component = "credentials" -> Cre!CredentialsTypeOK
    [] component = "sql" -> Sql!SqlTypeOK
    [] component = "cgi" -> Cgi!CgiTypeOK

(* A published version is never changed or withdrawn and comes from        *)
(* somebody who may write to its scope: Registry.tla implements WriteOnce  *)
(* (phase3_service publishRegistryVersion).                                *)
VersionsArePermanent == Reg!VersionsArePermanent

(* A list of all packages holds exactly what its reader may see, although  *)
(* memberships change while it is filtered (listRegistryPackages).         *)
ListingIsExact == component = "registry" => Reg!ListingIsExact

(* Teams and their members come from owners, and team members belong to    *)
(* the team's organization (addTeamMember).                                *)
TeamsGrowByOwners == Tea!TeamsGrowByOwners

(* The projects of a repository are a numbered log (createProject,         *)
(* updateProject).                                                         *)
ProjectsAreALog == Pro!ProjectsAreALog

(* A release is made once, by a writer, and never changes (createRelease). *)
ReleasesArePermanent == Rel!ReleasesArePermanent

(* Each post to an endpoint becomes one delivery and each webhook that was *)
(* selected is served, whatever endpoints do (dispatchWebhookEvent).       *)
DispatchIsComplete == component = "webhooks" => Web!DispatchIsComplete

(* Tokens and keys of a user change only by requests with the user's own   *)
(* credentials (authenticateBasic, createApiToken, addSshKey).             *)
CredentialsBind == Cre!CredentialsBind

(* The version of a page counts its writes, unless two upserts overlapped  *)
(* between read and write or one came from an earlier repository           *)
(* (upsertWikiPage).                                                       *)
VersionCountsWrites == component = "wiki" => Wik!VersionCountsWrites

(* Overlapping upserts can lose a version but never invent one.            *)
VersionIsBounded == component = "wiki" => Wik!VersionIsBounded

(* A text of several statements is cut where its author ended them, and    *)
(* run whole when the call returns (LibsqlDriver.execute).                 *)
ScriptIsRunAsWritten == Sql!ScriptIsRunAsWritten

(* Header and body of a Git answer are those git wrote (toResponse).       *)
ResponseIsExact == Cgi!ResponseIsExact
=============================================================================
