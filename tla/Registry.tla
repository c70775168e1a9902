------------------------------ MODULE Registry ------------------------------
(***************************************************************************)
(* The module registry: packages in a scope, which is an organization or a *)
(* user, and their published versions.  A request checks the scope, then   *)
(* the package, and inserts or reads last; meanwhile packages and versions *)
(* appear and organizations gain members.  Nothing is ever removed.  What  *)
(* a package says about itself is left out; a version is its author and    *)
(* its source, from which the checksum is computed.                        *)
(***************************************************************************)
EXTENDS OrganizationServing

CONSTANTS
  Scopes,     \* the scopes that requests name: organizations and usernames
  Names,      \* package names
  Versions,   \* version numbers
  Sources     \* module sources

VARIABLES
  packages,   \* registry_packages: <<scope, name>>
  versions    \* registry_versions: <<scope, name, version>> -> <<author, source>>

registryVars == <<req, started, audit, members, packages, versions>>

Packages == Scopes \X Names
VersionKeys == Scopes \X Names \X Versions

Changes == {"create", "publish"}
Reads == {"list_scope", "list_versions", "download"}

Steps == {"readable", "writable", "insert_package", "find_package",
          "insert_version", "list_versions", "find_version", "list_scope",
          "audit"}

(* A request about one scope; name, version and source are used by the     *)
(* operations that have them.                                              *)
ScopedRequest ==
  [step : Steps, op : Changes \cup Reads, actor : Users, scope : Scopes,
   name : Names, version : Versions, source : Sources]

(* The list of all scopes: the packages still to be looked at, those kept  *)
(* for the answer, and (history) those the actor could read at the start.  *)
ListRequest ==
  [step : {"list", "filter"}, actor : Users,
   todo : SUBSET Packages, kept : SUBSET Packages, could : SUBSET Packages]

Request == {Idle} \cup ScopedRequest \cup ListRequest

TablesUnchanged == UNCHANGED <<members, packages, versions>>

Package(q) == <<q.scope, q.name>>
VersionKey(q) == <<q.scope, q.name, q.version>>

(* requireScopeRead, requireScopeWrite: no query for these                 *)
OwnScope(u, scope) == u \in Admins \/ u = scope

MayReadScope(u, scope) == OwnScope(u, scope) \/ MayReadOrganization(u, scope)
MayWriteScope(u, scope) == OwnScope(u, scope) \/ MayWriteOrganization(u, scope)
-----------------------------------------------------------------------------
RegistryInit ==
  /\ ServingInit
  /\ members = Founders
  /\ packages = {}
  /\ versions = [k \in {} |-> 0]

JoinOrganization == AddMember /\ UNCHANGED <<packages, versions>>

AfterScope(op) == CASE op = "create" -> "insert_package"
                    [] op = "list_scope" -> "list_scope"
                    [] OTHER -> "find_package"

Start(p, op, u, scope, name, version, source) ==
  /\ op # "publish" => source = CHOOSE s \in Sources : TRUE      \* not used
  /\ Arrive(p, [step |-> IF OwnScope(u, scope) THEN AfterScope(op)
                                               ELSE "readable",
                op |-> op, actor |-> u, scope |-> scope, name |-> name,
                version |-> version, source |-> source])
  /\ TablesUnchanged

StartList(p, u) ==
  /\ Arrive(p, [step |-> "list", actor |-> u,
                todo |-> {}, kept |-> {}, could |-> {}])
  /\ TablesUnchanged

ScopeReadable(p) ==
  /\ ReadableOrganization(p, req[p].scope,
                          IF req[p].op \in Changes THEN "writable"
                                                   ELSE AfterScope(req[p].op))
  /\ UNCHANGED <<packages, versions>>

(* Mutant: reading the scope is enough.                                    *)
ScopeReadOnly(p) ==
  /\ At(p, "writable")
  /\ GoTo(p, AfterScope(req[p].op))
  /\ TablesUnchanged /\ Quietly

ScopeWritable(p) ==
  /\ WritableOrganization(p, req[p].scope, AfterScope(req[p].op))
  /\ UNCHANGED <<packages, versions>>

(* createRegistryPackage                                                   *)
InsertPackage(p) ==
  LET pack == Package(req[p]) IN
  /\ At(p, "insert_package")
  /\ IF pack \in packages
       THEN Answer(p) /\ UNCHANGED packages                     \* 409
       ELSE packages' = packages \cup {pack} /\ GoTo(p, "audit")
  /\ UNCHANGED <<members, versions>> /\ Quietly

(* requireRegistryPackage                                                  *)
AfterPackage(op) == CASE op = "publish" -> "insert_version"
                      [] op = "download" -> "find_version"
                      [] OTHER -> "list_versions"

FindPackage(p) ==
  /\ At(p, "find_package")
  /\ IF Package(req[p]) \in packages THEN GoTo(p, AfterPackage(req[p].op))
                                     ELSE Answer(p)             \* 404
  /\ TablesUnchanged /\ Quietly

(* Mutant: INSERT OR REPLACE.                                              *)
InsertVersionReplacing(p) ==
  LET k == VersionKey(req[p]) IN
  /\ At(p, "insert_version")
  /\ versions' = [j \in DOMAIN versions \cup {k} |->
                    IF j = k THEN <<req[p].actor, req[p].source>>
                             ELSE versions[j]]
  /\ GoTo(p, "audit")
  /\ UNCHANGED <<members, packages>> /\ Quietly

(* publishRegistryVersion, after the checksum.  The foreign key holds: the *)
(* package has been found and packages stay.                               *)
InsertVersion(p) ==
  LET k == VersionKey(req[p]) IN
  /\ At(p, "insert_version")
  /\ IF k \in DOMAIN versions
       THEN Answer(p) /\ UNCHANGED versions                     \* 409
       ELSE /\ versions' = [j \in DOMAIN versions \cup {k} |->
                              IF j = k THEN <<req[p].actor, req[p].source>>
                                       ELSE versions[j]]
            /\ GoTo(p, "audit")
  /\ UNCHANGED <<members, packages>> /\ Quietly

(* listRegistryVersions, and listRegistryPackages with a scope             *)
ListRows(p) ==
  /\ At(p, "list_versions") \/ At(p, "list_scope")
  /\ Answer(p)
  /\ TablesUnchanged /\ Quietly

(* downloadRegistryVersion                                                 *)
FindVersion(p) ==
  /\ At(p, "find_version")
  /\ IF VersionKey(req[p]) \in DOMAIN versions THEN GoTo(p, "audit")
                                               ELSE Answer(p)   \* 404
  /\ TablesUnchanged /\ Quietly

Action(op) == CASE op = "create" -> "registry.package.create"
                [] op = "publish" -> "registry.version.publish"
                [] OTHER -> "registry.version.download"

Audit(p) == At(p, "audit") /\ Record(p, Action(req[p].op)) /\ TablesUnchanged
-----------------------------------------------------------------------------
(* listRegistryPackages without a scope: all packages ...                  *)
ListPackages(p) ==
  /\ At(p, "list")
  /\ Becomes(p, [req[p] EXCEPT
                   !.step = "filter",
                   !.todo = packages,
                   !.could = {k \in packages :
                                MayReadScope(req[p].actor, k[1])}])
  /\ TablesUnchanged /\ Quietly

(* Mutant: the first package that is refused ends the loop.                *)
FilterStopping(p) ==
  /\ At(p, "filter")
  /\ \E k \in req[p].todo :
        IF MayReadScope(req[p].actor, k[1])
          THEN Becomes(p, [req[p] EXCEPT !.todo = @ \ {k},
                                         !.kept = @ \cup {k}])
          ELSE Becomes(p, [req[p] EXCEPT !.todo = {}])
  /\ TablesUnchanged /\ Quietly

(* ... of which canReadScope keeps some, one by one.  The order of the     *)
(* rows is left out.                                                       *)
Filter(p) ==
  /\ At(p, "filter")
  /\ \E k \in req[p].todo :
        Becomes(p, [req[p] EXCEPT
                      !.todo = @ \ {k},
                      !.kept = IF MayReadScope(req[p].actor, k[1])
                                 THEN @ \cup {k} ELSE @])
  /\ TablesUnchanged /\ Quietly

AnswerList(p) ==
  /\ At(p, "filter")
  /\ req[p].todo = {}
  /\ Answer(p)
  /\ TablesUnchanged /\ Quietly

Fail(p) == Drop(p) /\ TablesUnchanged

Scoped(p) == \/ ScopeReadable(p) \/ ScopeWritable(p) \/ InsertPackage(p)
             \/ FindPackage(p) \/ InsertVersion(p) \/ ListRows(p)
             \/ FindVersion(p) \/ Audit(p)

List(p) == ListPackages(p) \/ Filter(p) \/ AnswerList(p)

RegistryNext ==
  \/ JoinOrganization
  \/ \E p \in Requests, u \in Users :
        \/ StartList(p, u)
        \/ \E op \in Changes \cup Reads, scope \in Scopes, name \in Names,
              version \in Versions, source \in Sources :
              Start(p, op, u, scope, name, version, source)
  \/ \E p \in Requests : Scoped(p) \/ List(p) \/ Fail(p)

RegistrySpec == RegistryInit /\ [][RegistryNext]_registryVars
-----------------------------------------------------------------------------
RegistryTypeOK ==
  /\ members \subseteq Memberships
  /\ packages \subseteq Packages
  /\ DOMAIN versions \subseteq VersionKeys
  /\ versions \in [DOMAIN versions -> Users \X Sources]
  /\ req \in [Requests -> Request]
  /\ started \in Nat
  /\ audit \subseteq {Action(op) : op \in Changes \cup Reads}

(* A list of all scopes holds exactly what its reader may see: nothing of  *)
(* a scope he may not read, and, among the packages of the query, all that *)
(* he could read at its time, although memberships change from package to  *)
(* package.                                                                *)
ListingIsExact ==
  \A p \in Requests :
    At(p, "filter") =>
      /\ \A k \in req[p].kept : MayReadScope(req[p].actor, k[1])
      /\ req[p].could \ req[p].todo \subseteq req[p].kept
-----------------------------------------------------------------------------
Publishers == {k \in VersionKeys \X Users : MayWriteScope(k[2], k[1][1])}

Published == INSTANCE WriteOnce WITH
  Keys <- VersionKeys, Authors <- Users, Contents <- Sources,
  store <- versions, allowed <- Publishers

(* A published version is never changed or withdrawn, and was published by *)
(* somebody who could write to its scope at that time, although the scope  *)
(* was checked several calls before, and two publications of one version   *)
(* may pass every check.                                                   *)
VersionsArePermanent == Published!Spec
=============================================================================
