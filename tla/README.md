# Verification of Adlaire Git Repository

TLA+ models of the server in `src/src`, checked with TLC on small instances and, for the
statements listed below, proved with TLAPS for every instance. Paths are relative to the
repository (`src/...`), specification lines refer to
`src/docs/specs/Adlaire_Git_Repository_Specification.md`.

## The system

One Deno process (`main.ts`, `server.ts`) answers HTTP requests. `route` picks a handler,
the handler calls a service (`services/`), the service checks permissions and calls a
store (`repositories/`), which sends one SQL text per call to libSQL or to a `sqlite3`
process, and `git/` starts git processes on bare directories. Every call is awaited and
**no two SQL statements share a transaction**, so a request is a sequence of atomic steps
and other requests run between any two of them. Any awaited call can throw (the answer is
then 409 or 500) and the process can stop; the database and the disk stay.

| Part | State it keeps | Operations | Hard behaviour | Correct when |
|---|---|---|---|---|
| Repositories (`repository_service`, `git_service`, `http_backend`) | `repositories` row, bare directory, content pushed | create, read, clone, push, change visibility, delete | row and directory are created and removed by different awaits; a push runs on whatever directory the path names later | a row has a directory, a directory has a row, content is the repository's own, permissions hold when used, audit entries are true |
| Owner access (`organization_repository.canReadOwner/canWriteOwner`) | `organization_members` | read and write decisions | used some awaits after it was decided | decisions survive until they are used |
| Users and organizations (`auth_service`, `organization_service`) | `users`, `organizations`, `organization_members` | register, create organization, add member | one namespace in two tables; first admin; two INSERTs per organization | a name is a user or an organization; one bootstrap admin; whoever creates an organization owns it, or the creation is not recorded; memberships are granted by owners |
| Issues (`issue_service`) | `issues` | create, list, get, update | MAX + 1 and INSERT are two statements; update decides on an old copy | a numbered log; edits by author or writer |
| Pull requests, reviews (`phase2_service`) | `pull_requests`, `code_reviews` | create, update, merge mark, review | as issues; merged requires a commit; review after its target went | a numbered log; merged has a commit; reviews have a target |
| Wiki (`phase2_service`) | `wiki_pages` | upsert, list, get | read version, write version + 1 | version counts the writes |
| Webhooks (`phase2_service`) | `webhooks`, `webhook_deliveries` | create, list, ping, dispatch | a loop of posts and INSERTs that stops at the first INSERT that fails | each post is recorded once, every selected webhook is served |
| Releases (`phase2_service`) | `releases` | create, list, get | find, then INSERT | one release per tag, never changed |
| Teams (`phase3_service`) | `teams`, `team_members` | create, list, add member | five lookups before the INSERT, team slugs that two organizations share | owners make teams, their members belong to the organization |
| Projects (`phase3_service`) | `projects` | create, list, update | MAX + 1, then INSERT | a numbered log |
| Registry (`phase3_service`) | `registry_packages`, `registry_versions` | create, publish, list, download | two publications of a version; a list filtered package by package | a version never changes; a list shows all its reader may see and nothing else |
| Credentials (`auth_service`, `server.ts`) | `api_tokens`, `ssh_keys` | authenticate, create token, add, list and delete keys | password, then token, its use and its user, each looked up alone | credentials act for their user only |
| Audit (`audit_service`) | `audit_logs` | record (last statement of every write), list | lost when a failure precedes it | what it says happened |
| Drivers (`database/`) | none | execute, query, cut a text into statements | quoting; a pipeline stops in the middle | the statements sent are those written; a call that returns ran them all |
| Git gateway (`git/http_backend.ts`) | none | run git, cut its output into header and body | the separator may be missing, at the very end, or in the body | status, header and body are git's |
| Routing (`server.ts`) | none | match paths, decode headers | malformed input | total, no ambiguity |
| Deployment (`scripts/deploy`) | release directories, current link, the service, backups | backup, deploy, roll back | scripts without a lock that fail, are killed or signalled between any two commands | the current link names a complete release, a backup is cold, a stopped service comes back |

Repositories, issues, pull requests, projects, releases, webhooks and the wiki interact
through the `repositories` row: deleting it removes their rows (`ON DELETE CASCADE`), and
because ids are the strings `owner/name`, creating it again makes the new repository
reachable by requests that were checked against the old one. Everything, teams and the
registry included, interacts with `organization_members` through the access decisions. The
models name that history explicitly: an *incarnation* is one insertion of the row, `seen`
in a request record is the incarnation it was checked against, and `stale` collects the
incarnations a request of an earlier one has changed.

## Modules

| Module | Models | Correspondence |
|---|---|---|
| `Access` | `canReadOwner`, `canWriteOwner`, `findMembership` | operators on the membership table |
| `Repositories` | the life of a repository | one action per awaited call: `CreateAccess` ... `CreateAudit`, `Find`, `CheckRead`, `CheckWrite`, `ReadGit`, `PushGit`, `UpdateRow` ..., `DeleteRow`, `DeleteStorage`, `DeleteAudit`; `Fail` is one throwing await, `Crash` a restart |
| `Issues` | the issues of one repository | `ReadNextNumber`, `CreateInsert`, `UpdateFind`, `UpdateWritable`, `UpdateRow`, ...; `CreateRepository`, `DeleteRepository` are the repository seen from this table |
| `PullRequests` | pull requests and reviews | the same shape, with `NeedsSha` for the merge rule |
| `Accounts` | registration, organizations, members | `OrganizationExists`, `AnyUser`, `InsertUser`, `FindUser`, `InsertOrganization`, `InsertOwner`, `Readable`, `Writable`, `FindMember`, `InsertMember` |
| `Serving` | a request slot, its arrival, its audit entry and its end | shared by the modules below |
| `RepositoryServing` | `requireVisibleRepository`, `requireWritableRepository`; the repository coming and going | the gate of `Wiki`, `Projects`, `Releases`, `Webhooks` |
| `OrganizationServing` | `requireReadableOrganization`, `requireWritableOrganization`; memberships being granted | the gate of `Teams`, `Registry` |
| `Wiki` | wiki pages | `FindPage`, `InsertPage`, `UpdatePage`, `ReadPage` |
| `Projects` | projects | `ReadNextNumber`, `Insert`, `Find`, `UpdateRow`, `Refind` |
| `Releases` | releases | `Find`, `Insert` |
| `Webhooks` | webhooks and deliveries | `FindHook`, `InsertHook`, `Select`, `Send`, `RecordDelivery` |
| `Teams` | teams and their members | `Readable`, `Writable`, `FindTeam`, `FindUser`, `IsMemberOfOrganization`, `InsertMember` |
| `Registry` | packages, versions, the filtered list | `InsertPackage`, `FindPackage`, `InsertVersion`, `FindVersion`; `ListPackages`, `Filter`, `AnswerList` |
| `Credentials` | who a request acts for; tokens and keys | `CheckPassword`, `FindToken`, `TouchToken`, `FindOwner`, `InsertToken`, `AddSshKey`, `DeleteSshKey` |
| `SqlScript` | `quoteSqlText`, `splitStatements`, the request of the libSQL driver | one `Scan` action per branch of the loop, `Send` |
| `CgiOutput` | `findHeaderSeparator`, `toResponse` | `LookForCrLf`, `LookForLf`, `AnswerParts`, `AnswerAll` |
| `Deployment` | `deploy.sh`, `backup.sh`, `rollback.sh` | one action per command that changes something; `Fail`, `Signal`, `Kill` |
| `NumberedLog` | abstract: what issues, pull requests and projects promise | `Submit`, `Clear`; implemented by the three (`ImplementsLog`, `ProjectsAreALog`) |
| `WriteOnce` | abstract: what versions and releases promise | `Put`, `Grant`, `Clear`; implemented by both (`VersionsArePermanent`, `ReleasesArePermanent`) |
| `Repositories_proofs`, `Issues_proofs`, `PullRequests_proofs`, `Accounts_proofs`, `Wiki_proofs`, `Registry_proofs`, `Deployment_proofs` | theorems | about the module they are named for |
| `Services_proofs` | theorems | about `MCServices`: its nine components, and the texts that two of them go through |
| `MCServices` | small instances of the seven components on `Serving`, of `SqlScript` and of `CgiOutput` | see *Runs*; it takes `Registry` and `Wiki` through their proof modules, whose lemmas `Services_proofs` cites |
| other `MC*` | small instances | constants, membership tables, symmetry of the request slots |

A request slot holds a record with the next step (`step`), the input and what the request
has read. `Start` is `route` up to the service call: it chooses any operation, actor and
input. `Answer` ends a request; no property depends on the status, which is in a comment.
Operators whose comment begins with *Mutant* are not part of the specifications: each is a
plausible mistake in the operator below it, and TLC finds the property it is listed with
in `PROJECT.json` violated when it takes that operator's place.

Abstractions. Titles, bodies, branches and wiki text are written by the same statement as
the fields that are kept, so only the latter are modelled. A failing validation is `Fail`.
Git content is the set of incarnations pushed. `git init`, the removal of a directory and
a push are one step each. Foreign keys are taken to be enforced: `sqlite_cli_driver.ts:45`
puts the PRAGMA before every statement, the libSQL driver sends it only with the schema
and relies on its server. Memberships are only added (the code has no way to remove one)
and roles never change; what belongs to a repository therefore fixes the table, while
`Repositories`, `Accounts`, `Teams` and `Registry` let it grow. Hashes (passwords, tokens,
checksums) are functions of what they are computed from. The libSQL server is external: of
a pipeline it runs some of the statements, and the driver returns only when all succeeded.
That assumes a server that reports each statement it did not run: the driver looks for
errors in the results it gets and does not count them (`libsql_driver.ts:91`).

`Deployment`. An action is one command, or a group that changes nothing the others see
(the lookups, the copies). `set -eu` makes every failing command the end of the script
(`Fail`), under the EXIT trap while files are copied. `Signal` is the trapped HUP, INT or
TERM: its handler starts the service and, having no `exit`, returns to the copies. `Kill`
is KILL, or any signal at a step without a trap. An upload is `broken` from its first byte
to its last and may stay so. What systemd does by itself (`Restart=`) is not modelled.

## Runs

All bounds are named constants of the modules.

| Run | Question | Bounds |
|---|---|---|
| `repositories` | `RowHasStorage`, `ContentIsOwn`, `NoLeakedStorage`, `CreationsAudited`, `AuditedDeleteIsFinal`, `MutatorsMayWrite` | 2 slots, 2 users, a user's repository, 2 incarnations, 1 fault |
| `repositories_live` | `MutatorsMayWrite`, and `LeakIsReclaimed` under `FairSpec` | 2 slots, an organization's repository, 1 membership, 2 incarnations, no fault |
| `issues` | `NumbersDense`, `IssuesAudited`, `EditIsAuthorized`, `ImplementsLog` | 2 slots, 4 requests, 2 incarnations, 2 issues |
| `pulls` | `MergedHasSha`, `ReviewsHaveTarget`, `UpdateIsAuthorized`, `ImplementsLog` | 2 slots, 3 requests, 2 incarnations, 1 commit id |
| `services` | the properties of the table below | 2 slots and 3 requests, 2 incarnations, 1 page, tag, webhook event, package, version, team slug and public key, 2 contents, numbers to 2; 2 statements with values to 2 characters; headers to 2 lines, bodies to 4 bytes |
| `deployment` | `CurrentIsComplete`, `LoneBackupIsCold`, `ServiceComesBack` | 2 scripts at a time, 3 in all |
| `accounts` | `NamesDisjoint`, `OneBootstrap`, `OrganizationsHaveOwner`, `MembershipIsGranted` | 2 slots, 4 requests, 3 names |
| `issues_edit`, `wiki_race`, `deployment_cold`, `accounts_names`, `accounts_admins` | disagreements of code and documentation, below | 2 or 3 requests, or 2 scripts, at a time |

Each module's type invariant is checked by its first run.

`services` checks nine modules. They share no table, so no step of one can disturb
another, and a composition would only multiply their states; a behaviour of `MCServices`
chooses one of them at the start and keeps to it, and each property is about one:

| Module | Properties |
|---|---|
| `Registry` | `VersionsArePermanent` (refinement), `ListingIsExact` |
| `Teams` | `TeamsGrowByOwners` |
| `Projects` | `ProjectsAreALog` (refinement) |
| `Releases` | `ReleasesArePermanent` (refinement) |
| `Webhooks` | `DispatchIsComplete` |
| `Wiki` | `VersionCountsWrites`, `VersionIsBounded` |
| `Credentials` | `CredentialsBind` |
| `SqlScript` | `ScriptIsRunAsWritten` |
| `CgiOutput` | `ResponseIsExact` |
| all | `TypeOK` |

The repository there is private and belongs to an organization with an owner and a plain
member (two owners for the projects, since a log that lost the other author's item needs
two writers). For teams and registry, the organization starts with its owner alone; the
other user owns a second one, of which the first is a plain member, with the same team
slug; memberships are granted as the requests run. The slots are interchangeable in every
component, hence the symmetry.

Two slots are enough for the races here: each of the hazards is two requests that pass
each other between a read and a write; two incarnations bring every stale request, and one
fault every lost step. `wiki_race` uses three slots because a lost update needs a page to
be there, and then two writers. Pages and repositories do not interact with their
siblings, so one of each suffices. A value of two characters holds every pair that the
scanner tells apart, the quote doubled, at the end or before a semicolon; a body of four
bytes is as long as the longest separator, and of two header lines one may be repeated or
come before the status. For these three the theorems below need no bound. Two scripts, one of which is followed by a
third, bring two deployments in one second, a rollback to a rejected upload and a backup
inside another script's restart. `Repositories` returns to its initial states of requests,
so deadlock is checked; in the other modules the number of requests is bounded and the
system stops when they have been served (`CHECK_DEADLOCK FALSE`).

Fairness. `FairSpec` asks for weak fairness of `Serve(p)`: an accepted request runs to its
answer, because every step is an awaited promise that the event loop resumes when the call
returns (a call that hangs for ever would be a fault, and that run has none). Nothing is
assumed about clients. In `Deployment`, a script that can go on goes on (`WF` of
`Proceed(s)`): the shell runs the next command when one ends. Failures, signals and kills
are never promised, and no operator is assumed to come. Without a delete or create that
continues, nothing in the code collects a directory, so `LeakIsReclaimed` is not claimed
with faults.

### Provisos

The code has no transactions, so several properties hold except in situations that the
models record, and these are part of the results:

- `raced` (Repositories): a delete between its two halves while a create is about to
  insert, or a push on an id whose row changed. `RowHasStorage` and `ContentIsOwn` except
  those ids. The window is real: `repository_service.ts:91` and `:222`.
- `interrupted` (Repositories): a delete that failed or crashed before removing the
  directory; the next repository of that name finds the old content.
- `interrupted` (Accounts): a stop between the two INSERTs of
  `organization_repository.ts:39`; the organization keeps no owner. The same comes about
  with no failure at all: an admin can add the creator as a plain member between the two,
  and the second INSERT is then refused by `UNIQUE(organization_id, user_id)`
  (`schema.sql:54`). Line 398 of the specification says that the creator becomes an owner
  automatically; `OrganizationsHaveOwner` says when that is so, and that whatever else
  happened the audit log does not report such a creation.
- `stale` (Issues, PullRequests, Wiki, Projects, Releases): a request of an earlier
  incarnation has changed this one. `NumbersDense`, `IssuesAudited`, `EditIsAuthorized`,
  the wiki's properties, `ImplementsLog`, `ProjectsAreALog` and `ReleasesArePermanent`
  except those incarnations, which the abstract specifications see as cleared.
- `raced`, `rushed` (Accounts): two creations that passed each other.
- `raced` (Wiki): a page that two upserts had read before either wrote.
  `VersionCountsWrites` except those pages; `VersionIsBounded` holds for them too.
- `unrecorded` (Webhooks): posts whose request stopped before its INSERT, because the call
  failed or the webhook went with its repository. `DispatchIsComplete` counts them.
- `Misleading` (CgiOutput): a header with bare LF before a body that holds CR LF CR LF,
  and an output without header whose body holds a separator. git writes CR LF, so this is
  about other CGI programs only.
- `shared`, `gambled` (Deployment): a name given to two releases in one second
  (`deploy.sh:67`), and a release without manifest that an operator rolls back to
  (`rollback.sh` asks for the executable bit only, which a rejected upload has).
  `CurrentIsComplete` except those releases.
- `unprotected`, `alone` (Deployment): a script that ended between `systemctl stop` and
  `trap`, or after `trap -`, leaves the service down for good (`ServiceComesBack`); a
  backup next to another script, or one that got a signal, is not claimed to be cold
  (`LoneBackupIsCold`).

### Disagreements with the documentation

- `issues_edit`: specification line 547 says that author, owner and admin control updates.
  `updateIssue` decides on the author it read and updates by repository id and number;
  after a delete and re-creation the update reaches another author's issue.
- `wiki_race`: line 621 says that each update adds one to the version. Overlapping upserts
  write the same version.
- `deployment_cold`: `DEPLOYMENT_POLICY.md:151` calls the backup of the database a cold
  backup. After a signal the trap of `backup.sh:62` starts the service and the copies go
  on; the backup then ends as a success.
- `accounts_names`: the namespace test of phase 6 expects 409 when a user is registered
  under an organization's name; both creations succeed when they pass each other. This
  matters because owner access compares the owner string with usernames and slugs alike.
- `accounts_admins`: the same test expects 403 for a second admin without credentials; two
  registrations that both see an empty table become two admins.

No statement of the repository contradicts the last-writer-wins behaviour of concurrent
field updates (issues, pull requests, projects): it is recorded as a hazard without property.

## Proofs

TLAPS checks the following for any number of slots, repositories, users, incarnations and
faults, from the assumptions of `Access` (admins are users, the anonymous actor is not)
and of the module. Bounds are arbitrary there (`BoundsAssumption`: those of lengths are
natural numbers); the only proofs that use one are those of `DispatchIsComplete` and of
`TypeOK` in `MCServices`, since ids are bounded by the number of requests.

`Repositories_proofs`
- `Typing`: `Spec => []TypeOK`.
- `MutatorsMayWriteAlways`: memberships only grow, so a permission survives
  (`WriteIsMonotone`); a request keeps actor and repository and enters the steps that
  change something only through a write check (`ServeAdvances`).
- `RowHasStorageAlways`: `RowHasStorage` is not inductive, because a pending INSERT relies
  on a directory it prepared. `StorageInv` adds, outside `raced`, that a request about to
  insert has a ready directory, that one about to remove a directory has no row, and that
  the two do not coexist.
- `AuditedDeleteIsFinalAlways`: `DeleteInv` adds that incarnations are never reused (`row
  <= made`, `seen <= made`) and that whoever is past its DELETE sees another row or none.
- `CreationsAuditedAlways`, `NoLeakedStorageAlways`: inductive with `TypeOK`, because every
  step but those on rows and directories leaves both alone (`AsideSteps`) and a request
  with something half done stops only by a fault (`OutsideSteps`).
- `ContentIsOwnAlways`: it says nothing of a directory without a row, which the next
  repository would inherit. `OwnInv` adds that such a directory is empty or about to be
  removed; that an INSERT never meets the latter is `StorageInv`, that a push reaches its
  own row is `DeleteInv`.

`Issues_proofs`
- `Typing`. `SELECT MAX` needs a largest number, so `TypeOK` is proved together with
  `NumbersHaveMax` and with what the request records hold at each step (`PendingType`).
- `Invariant`, with `IssueInv == Grows /\ NumberInv /\ EditInv`: incarnations only grow;
  the numbers of an incarnation that no stale request touched have no gap and a number
  read for an INSERT is in the table or the next one; a request about to update was
  authorized on an issue that is still there with the same author.
- `NumbersDenseAlways`, `EditIsAuthorizedAlways`: consequences of it.
- `IssuesAuditedAlways`: `AuditInv` adds that the request about to write the entry acts
  for the issue's author, whom no update changes.
- `LogImplemented`: `Spec => ImplementsLog`. Outside `stale` the numbers are `1..k` and
  the next one is `k + 1`, so an INSERT that succeeds is `Submit` by its actor, an UPDATE
  keeps every author and stutters, and what creates, deletes or spoils an incarnation is
  `Clear`.

`PullRequests_proofs`
- `Typing`, with `Types`: a request is `WellFormed` at each step. An update is about to
  write a complete pull request by somebody who may write, merged only with its commit
  (`ReadyToWrite`), whatever copy it looked at; so `MergedHasShaAlways` and
  `UpdateIsAuthorizedAlways` follow although the row has changed since.
- `ReviewsHaveTargetAlways`: pull requests go with the repository only, and their reviews
  with them; an INSERT without its target is refused.
- `LogImplemented`: as for issues, with `Grows` and `NumberInv`.

`Accounts_proofs`
- `Typing`, with `Standing`: what each statement found out about actor, organization and
  member stays true, since rows are never removed and roles never change.
- `NamesDisjointAlways`: `NameInv` adds, outside `raced`, that a name being checked for
  one table is not in the other, and that every overlap of the two is noticed.
- `OneBootstrapAlways`: `BootInv` adds that whoever is about to become an admin without
  credentials still finds nobody registered, unless `rushed`.
- `OrganizationsHaveOwnerAlways`: `OwnerInv` adds that whoever is about to be inserted as
  owner is the `created_by` of the organization, and that the owner's row is there once a
  creation is recorded or about to be. A step ends the time without owner by its INSERT, by
  a failure, or by the refusal of the INSERT, which finds the creator a member already
  (`OwnerOrPending`).
- `MembershipIsGrantedAlways`: from `Standing`; the right to add a member was checked two
  statements earlier and cannot be lost.

`Wiki_proofs`
- `Invariant`, with `WikiInv`: `VersionIsBounded` needs that a version read for an UPDATE
  is bounded by the writes of the page it was read from (`ReadsAreBounded`), and that
  incarnations are not used again, so that a request recognizes its own (`Incarnations`,
  `Checked`); `VersionCountsWrites` needs that two writers of a page are noticed
  (`OverlapsAreNoticed`), so that a lone writer still holds the current version
  (`ReadsAreFresh`).

`Registry_proofs`
- `Invariant`, with `RegistryInv`: memberships only grow, so whoever is past the check of
  the scope may still write to it (`PublishersMayWrite`); what a reader could read when
  the query ran he can still read (`ListsKnowReadable`), which makes `ListingIsExact`
  inductive. A publication is `Put` by a permitted author, a new membership `Grant`,
  anything else a stutter (`StepMaps`).

`Deployment_proofs`
- `Invariant`, with `ReleaseInv`: a script past naming its release owns it unless the name
  is shared (`Placed`, `Owned`, `Fresh`), so that what it compared stays as it was
  (`Compared`) and a manifest vouches for the binary (`ManifestsAreTrue`); the current
  link points to a release with a manifest or to a gamble (`CurrentIsKnown`).
  `CurrentIsCompleteAlways` follows.
- `LoneBackupIsColdAlways`, with `LoneInv`: a script that is alone has no other beside it,
  and the service is not active from before the trap is set to the end of the copies.

`Services_proofs` is about the specification that `services` checks. A behaviour runs one
component and leaves the tables of the others alone (`OneComponent`, `OthersUnchanged`),
so each property is proved of its component and lifted. The memberships that the instance
starts with are used nowhere but in their type.
- `VersionCountsWritesAlways`, `VersionIsBoundedAlways`, `ListingIsExactAlways`,
  `VersionsArePermanentAlways`: from `WikiInv` and `RegistryInv`.
- `ReleasesArePermanentAlways`, with `ReleasesInv`: whoever looks for the tag or inserts
  may write, and there are no releases without the repository; so an INSERT is `Put`, a
  repository that goes or is spoiled by a stale request is `Clear`.
- `TeamsGrowByOwnersAlways`, with `TeamsInv`: the five lookups before the INSERT are still
  true at the INSERT, because organizations and teams gain members and lose none.
- `CredentialsBindAlways`, with `CredentialsInv`: tokens are numbered from 1 and stay with
  their user, key ids are not used again, and a request that was recognized carries
  credentials of its principal until it is answered.
- `ProjectsAreALogAlways`, with `ProjectsInv`: outside `stale` the numbers are `1..k`, and
  the number a creation has read has no gap below it, so that UNIQUE leaves it nothing but
  `k + 1`.
- `DispatchIsCompleteAlways`, with `WebhooksInv`: each webhook's posts add up
  (`AddsUp`: recorded, on the way, lost), a webhook that is not there yet has none, and a
  request has an empty list to serve when it comes to its entry. That a new id is in range
  needs counting: webhooks created, and requests still able to create one, are no more
  than the requests started.
- `ResponseIsExactAlways`, with `CgiInv`. The output is known by its places
  (`WrittenShape`): with CR LF, each header line takes three symbols, and no four in a row
  before the end of the header are CR LF CR LF (`HeaderEndsCrLf`); with LF, a CR LF CR LF
  can only be one of the body (`BodyHoldsCrLf`). What the loops have passed holds no
  separator (`NoneBefore`, `NoCrLf`), so the first one they meet is the end of the header,
  the part before it says what the header lines say (`HeadSays`: the same status, each
  field as often), and the rest is the body. Headers and bodies have any length.
- `ScriptIsRunAsWrittenAlways`, with `SqlInv`. For each text that may be written there are
  positions at which the pass stands inside of quotes, and outside, from one of which it
  comes to another (`Cuttable`, `ValueIsCuttable`): a doubled quote leads past both, and
  the only semicolon met outside is the last character. `Within` says that the pass is at
  such a position and has collected what came before it; `Script` that it is within the
  first statement, or the second with the first one collected, or done. Values have any
  length.
- `TypeOKAlways`: the type invariants of the nine components, each under the condition
  that it runs. Six of them follow from the invariants above and from what each step
  writes; that token and key ids stay in range needs counting once more
  (`CredentialCounts`: tokens, keys and requests still at work are no more than the
  requests started), and so does the range of webhook ids.

`FlattenSeq`, by which values are quoted and headers written, is a recursive function of
the library, about which the library proves nothing. `FlatteningExists` shows that its
recursion has a solution and `FlattenedIsLaid` what the solution is: the pieces, each
after those before it (`Laid`). Both are by the least counterexample (`LeastNatural`),
since the induction theorems take an operator as a parameter.

Model-checked only:
- `LeakIsReclaimed` and `ServiceComesBack`: liveness and ENABLED are out of the provers'
  reach.

No module declares a RECURSIVE operator.

## Not modelled

- Operations status: two reports of constants. The list of the audit log: one SELECT for
  admins.
- The lists of repositories (`listRepositories`: every row, then one access query for each
  private one) and of organizations (`listForActor`: one SELECT). They change nothing; the
  same filtering across awaits is modelled for packages (`ListingIsExact`).
- Domain validation: it rejects a request before anything changes, which is `Fail`, or
  lets it pass. Which strings it lets pass is not checked.
- Path matching and decoding of headers and JSON (`server.ts`): `Start` chooses the
  handler, its inputs and, with `Credentials`, the actor. A `POST /api/tokens` that
  carries credentials in its header as well as in its body is left out.
- Decoding of rows and the `sqlite3` process (`database/`).
- Of the deployment: what is copied, the health checks (they change nothing), the
  deployment log. `verify-server.sh` only looks for commands and directories; how the
  server was set up before the first script is external (`Init`).
- Configuration and start, the home page, the Docker and repository checks: no state. The
  SDK: no code yet.

## Plan

Every invariant and action property that the passing runs check is a theorem, except for
the two that are liveness. What a next step would bring:

1. The list of the audit log and the decoding of rows, when they come to hold state.
2. Scripts of any number of statements with several values each, as `schema.sql` is:
   `Within` is about one statement and needs no change, `Cuttable` would be put together
   from the parts of a text as `ValueIsCuttable` does for one value.
3. The SDK, once it has code.
