---------------------------- MODULE Repositories ----------------------------
(***************************************************************************)
(* The life of a repository: its row in the `repositories' table, its bare *)
(* directory on disk, and the requests that create, read, push to, change  *)
(* and delete it.  RepositoryService runs a request as a sequence of       *)
(* awaited SQL statements and git processes with no transaction around     *)
(* them, so a request is a small program and every await is a point where  *)
(* other requests run, where the awaited call may fail, or where the       *)
(* server may stop.  No property depends on the HTTP status of an answer,  *)
(* so every early return is Answer(p), with the status in a comment.       *)
(***************************************************************************)
EXTENDS Access, Naturals, FiniteSets

CONSTANTS
  Requests,         \* slots for requests being served at the same time
  Repos,            \* repository ids ("owner/name")
  RepoOwner,        \* the owner part of each id
  MaxIncarnations,  \* bound: a creation starts below this many rows per id
  MaxMembers,       \* bound: rows of organization_members
  MaxFaults         \* bound: crashes and failing awaits

ASSUME RepositoriesAssumption ==
  /\ RepoOwner \in [Repos -> Owners]
  /\ MaxIncarnations \in Nat
  /\ MaxMembers \in Nat
  /\ MaxFaults \in Nat

VARIABLES
  row,          \* the incarnation stored under each id, 0 when there is no row
  visibility,   \* its visibility column
  made,         \* how many rows were ever inserted under each id
  storage,      \* the bare directory: "absent", "bare" (HEAD not set), "ready"
  content,      \* the incarnations whose pushes the directory holds
  members,      \* organization_members
  audit,        \* audit_logs
  req,          \* the request in each slot
  faults,       \* crashes and failures so far
  raced,        \* history: ids whose delete overlapped a create or a push
  interrupted   \* history: ids whose delete stopped short of the directory

vars == <<row, visibility, made, storage, content, members, audit, req,
          faults, raced, interrupted>>

Operations == {"create", "read", "push", "update", "delete"}
Visibilities == {"public", "private"}

Steps == {"idle",
          "create_access", "create_init", "create_head", "create_insert",
          "create_audit",
          "find", "check_read", "check_write",
          "read_git", "push_git",
          "update_row", "update_find", "update_audit",
          "delete_row", "delete_storage", "delete_audit"}

Request ==
  [step : Steps, op : Operations, actor : Actors, repo : Repos, seen : Nat,
   visibility : Visibilities]

AuditEntry ==
  [action : {"repository.create", "repository.visibility.update",
             "repository.delete"},
   repo : Repos, incarnation : Nat]

Entry(action, r, i) == [action |-> action, repo |-> r, incarnation |-> i]
-----------------------------------------------------------------------------
At(p, step) == req[p].step = step

(* A delete of r waits between its two halves while a create of r that has *)
(* prepared the directory has not inserted its row yet.                    *)
Overlap(rq, r) ==
  \E p, q \in Requests : /\ rq[p].repo = r /\ rq[p].step = "create_insert"
                         /\ rq[q].repo = r /\ rq[q].step = "delete_storage"

(* Every change of a request goes through Becomes, which notes overlaps.   *)
Becomes(p, record) ==
  /\ req' = [req EXCEPT ![p] = record]
  /\ raced' = raced \cup {r \in Repos : Overlap(req', r)}

GoTo(p, step) == Becomes(p, [req[p] EXCEPT !.step = step])

(* A slot without a request; which repository it last served is kept.      *)
NoRequest(r) == [step |-> "idle", op |-> "read", actor |-> Anonymous,
                 repo |-> r, seen |-> 0, visibility |-> "private"]

Ended(q) == NoRequest(q.repo)

Answer(p) == Becomes(p, Ended(req[p]))

NoFault == UNCHANGED <<faults, interrupted>>
DbUnchanged == UNCHANGED <<row, visibility, made, members, audit>>
DiskUnchanged == UNCHANGED <<storage, content>>

(* Mutant: the entry carries the name of the operation.                    *)
RecordUnprefixed(action, p) ==
  audit' = audit \cup {Entry(req[p].op, req[p].repo, req[p].seen)}

Record(action, p) ==
  audit' = audit \cup {Entry(action, req[p].repo, req[p].seen)}
-----------------------------------------------------------------------------
Init ==
  /\ row = [r \in Repos |-> 0]
  /\ visibility = [r \in Repos |-> "private"]
  /\ made = [r \in Repos |-> 0]
  /\ storage = [r \in Repos |-> "absent"]
  /\ content = [r \in Repos |-> {}]
  /\ members = {}
  /\ audit = {}
  /\ req \in [Requests -> {NoRequest(r) : r \in Repos}]
  /\ faults = 0
  /\ raced = {}
  /\ interrupted = {}

(* A request arrives; everything but reading needs credentials (else 401). *)
Start(p, op, u, r, v) ==
  /\ At(p, "idle")
  /\ u = Anonymous => op = "read"
  /\ op = "create" => made[r] < MaxIncarnations
  /\ op \notin {"create", "update"} => v = "private"
  /\ Becomes(p, [step |-> IF op = "create" THEN "create_access" ELSE "find",
                 op |-> op, actor |-> u, repo |-> r, seen |-> 0,
                 visibility |-> v])
  /\ DbUnchanged /\ DiskUnchanged /\ NoFault

(* OrganizationRepository.addMember: memberships are only ever added.      *)
AddMember(org, u, role) ==
  /\ MayInsertMember(members, org, u)
  /\ Cardinality(members) < MaxMembers
  /\ members' = members \cup {<<org, u, role>>}
  /\ UNCHANGED <<row, visibility, made, audit, req, raced>>
  /\ DiskUnchanged /\ NoFault
-----------------------------------------------------------------------------
(* Mutant: members of an organization may create repositories in it.       *)
CreateAccessByReaders(p) ==
  /\ At(p, "create_access")
  /\ IF CanReadOwner(members, RepoOwner[req[p].repo], req[p].actor)
       THEN GoTo(p, "create_init")
       ELSE Answer(p)
  /\ DbUnchanged /\ DiskUnchanged /\ NoFault

(* createRepository: owner access, git init, HEAD, INSERT, audit.          *)
CreateAccess(p) ==
  /\ At(p, "create_access")
  /\ IF CanWriteOwner(members, RepoOwner[req[p].repo], req[p].actor)
       THEN GoTo(p, "create_init")
       ELSE Answer(p)                                                \* 403
  /\ DbUnchanged /\ DiskUnchanged /\ NoFault

(* git init --bare leaves an existing repository as it is.                 *)
CreateInit(p) ==
  LET r == req[p].repo IN
  /\ At(p, "create_init")
  /\ storage' = [storage EXCEPT ![r] = IF @ = "absent" THEN "bare" ELSE @]
  /\ GoTo(p, "create_head")
  /\ DbUnchanged /\ NoFault /\ UNCHANGED content

(* git symbolic-ref HEAD, which fails when the directory is gone.          *)
CreateHead(p) ==
  LET r == req[p].repo IN
  /\ At(p, "create_head")
  /\ IF storage[r] = "absent"
       THEN Answer(p) /\ UNCHANGED storage                           \* 500
       ELSE /\ storage' = [storage EXCEPT ![r] = "ready"]
            /\ GoTo(p, "create_insert")
  /\ DbUnchanged /\ NoFault /\ UNCHANGED content

(* Mutant: answers 201 right after the INSERT.                             *)
CreateInsertUnaudited(p) ==
  LET r == req[p].repo IN
  /\ At(p, "create_insert")
  /\ IF row[r] # 0
       THEN UNCHANGED <<row, visibility, made>>
       ELSE /\ row' = [row EXCEPT ![r] = made[r] + 1]
            /\ made' = [made EXCEPT ![r] = @ + 1]
            /\ visibility' = [visibility EXCEPT ![r] = req[p].visibility]
  /\ Answer(p)
  /\ UNCHANGED <<members, audit>> /\ DiskUnchanged /\ NoFault

(* INSERT INTO repositories; id and (owner, name) are unique.              *)
CreateInsert(p) ==
  LET r == req[p].repo IN
  /\ At(p, "create_insert")
  /\ IF row[r] # 0
       THEN Answer(p) /\ UNCHANGED <<row, visibility, made>>         \* 409
       ELSE /\ row' = [row EXCEPT ![r] = made[r] + 1]
            /\ made' = [made EXCEPT ![r] = @ + 1]
            /\ visibility' = [visibility EXCEPT ![r] = req[p].visibility]
            /\ Becomes(p, [req[p] EXCEPT !.step = "create_audit",
                                         !.seen = made[r] + 1])
  /\ UNCHANGED <<members, audit>> /\ DiskUnchanged /\ NoFault

CreateAudit(p) ==
  /\ At(p, "create_audit")
  /\ Record("repository.create", p)
  /\ Answer(p)                                                       \* 201
  /\ UNCHANGED <<row, visibility, made, members>> /\ DiskUnchanged /\ NoFault
-----------------------------------------------------------------------------
(* requireVisibleRepository: SELECT the row, then the read decision on the *)
(* visibility that the SELECT returned.                                    *)
Find(p) ==
  LET r == req[p].repo IN
  /\ At(p, "find")
  /\ IF row[r] = 0
       THEN Answer(p)                                                \* 404
       ELSE Becomes(p, [req[p] EXCEPT
                          !.seen = row[r],
                          !.step = IF visibility[r] = "private"
                                     THEN "check_read"
                                   ELSE IF req[p].op = "read"
                                     THEN "read_git" ELSE "check_write"])
  /\ DbUnchanged /\ DiskUnchanged /\ NoFault

CheckRead(p) ==
  /\ At(p, "check_read")
  /\ IF CanReadOwner(members, RepoOwner[req[p].repo], req[p].actor)
       THEN GoTo(p, IF req[p].op = "read" THEN "read_git" ELSE "check_write")
       ELSE Answer(p)                                                \* 403
  /\ DbUnchanged /\ DiskUnchanged /\ NoFault

(* Mutant: a delete removes the directory and leaves the row.              *)
FirstStepKeepsRow(op) == CASE op = "push" -> "push_git"
                           [] op = "update" -> "update_row"
                           [] OTHER -> "delete_storage"

(* requireWritableRepository: the write decision, then the operation.      *)
FirstStep(op) == CASE op = "push" -> "push_git"
                   [] op = "update" -> "update_row"
                   [] OTHER -> "delete_row"

(* Mutant: whoever sees the repository may write.                          *)
CheckWriteSkipped(p) ==
  /\ At(p, "check_write")
  /\ GoTo(p, FirstStep(req[p].op))
  /\ DbUnchanged /\ DiskUnchanged /\ NoFault

CheckWrite(p) ==
  /\ At(p, "check_write")
  /\ IF CanWriteOwner(members, RepoOwner[req[p].repo], req[p].actor)
       THEN GoTo(p, FirstStep(req[p].op))
       ELSE Answer(p)                                                \* 403
  /\ DbUnchanged /\ DiskUnchanged /\ NoFault

(* The git processes of the read handlers and of git clone: 200, or 500    *)
(* when the directory is gone.                                             *)
ReadGit(p) ==
  /\ At(p, "read_git")
  /\ Answer(p)
  /\ DbUnchanged /\ DiskUnchanged /\ NoFault

(* git http-backend runs receive-pack on whatever directory the path now   *)
(* names, which need not be the one the request was checked against.       *)
PushGit(p) ==
  LET r == req[p].repo IN
  /\ At(p, "push_git")
  /\ req' = [req EXCEPT ![p] = Ended(req[p])]
  /\ IF storage[r] = "absent"
       THEN UNCHANGED content                                        \* 404
       ELSE content' = [content EXCEPT ![r] = @ \cup {req[p].seen}]
  /\ raced' = IF row[r] # req[p].seen THEN raced \cup {r} ELSE raced
  /\ DbUnchanged /\ NoFault /\ UNCHANGED storage
-----------------------------------------------------------------------------
(* updateVisibility: UPDATE by owner and name, SELECT again, audit.        *)
UpdateRow(p) ==
  LET r == req[p].repo IN
  /\ At(p, "update_row")
  /\ visibility' = IF row[r] = 0 THEN visibility
                   ELSE [visibility EXCEPT ![r] = req[p].visibility]
  /\ GoTo(p, "update_find")
  /\ UNCHANGED <<row, made, members, audit>> /\ DiskUnchanged /\ NoFault

UpdateFind(p) ==
  /\ At(p, "update_find")
  /\ IF row[req[p].repo] = 0
       THEN Answer(p)                                                \* 404
       ELSE GoTo(p, "update_audit")
  /\ DbUnchanged /\ DiskUnchanged /\ NoFault

UpdateAudit(p) ==
  /\ At(p, "update_audit")
  /\ Record("repository.visibility.update", p)
  /\ Answer(p)                                                       \* 200
  /\ UNCHANGED <<row, visibility, made, members>> /\ DiskUnchanged /\ NoFault

(* Mutant: the directory is never removed.                                 *)
DeleteRowOnly(p) ==
  LET r == req[p].repo IN
  /\ At(p, "delete_row")
  /\ row' = [row EXCEPT ![r] = 0]
  /\ visibility' = [visibility EXCEPT ![r] = "private"]
  /\ GoTo(p, "delete_audit")
  /\ UNCHANGED <<made, members, audit>> /\ DiskUnchanged /\ NoFault

(* deleteRepository: DELETE by owner and name, remove the directory, audit.*)
DeleteRow(p) ==
  LET r == req[p].repo IN
  /\ At(p, "delete_row")
  /\ row' = [row EXCEPT ![r] = 0]
  /\ visibility' = [visibility EXCEPT ![r] = "private"]
  /\ GoTo(p, "delete_storage")
  /\ UNCHANGED <<made, members, audit>> /\ DiskUnchanged /\ NoFault

(* Mutant: the removal is skipped, say because the path does not match.    *)
DeleteStorageSkipped(p) ==
  /\ At(p, "delete_storage")
  /\ GoTo(p, "delete_audit")
  /\ DbUnchanged /\ DiskUnchanged /\ NoFault

(* Deno.remove of the directory; NotFound is ignored.                      *)
DeleteStorage(p) ==
  LET r == req[p].repo IN
  /\ At(p, "delete_storage")
  /\ storage' = [storage EXCEPT ![r] = "absent"]
  /\ content' = [content EXCEPT ![r] = {}]
  /\ GoTo(p, "delete_audit")
  /\ DbUnchanged /\ NoFault

DeleteAudit(p) ==
  /\ At(p, "delete_audit")
  /\ Record("repository.delete", p)
  /\ Answer(p)                                                       \* 200
  /\ UNCHANGED <<row, visibility, made, members>> /\ DiskUnchanged /\ NoFault
-----------------------------------------------------------------------------
DeletingIn(S) == {req[p].repo : p \in {q \in S : At(q, "delete_storage")}}

(* The awaited call of one request throws: answer 500.  A call that takes  *)
(* effect and then throws is the call's own action followed by this one.   *)
Fail(p) ==
  /\ ~At(p, "idle")
  /\ faults < MaxFaults
  /\ faults' = faults + 1
  /\ interrupted' = interrupted \cup DeletingIn({p})
  /\ Answer(p)
  /\ DbUnchanged /\ DiskUnchanged

(* The process stops and starts again: requests are gone, the database and *)
(* the disk stay.                                                          *)
Crash ==
  /\ faults < MaxFaults
  /\ \E p \in Requests : ~At(p, "idle")
  /\ faults' = faults + 1
  /\ interrupted' = interrupted \cup DeletingIn(Requests)
  /\ req' = [p \in Requests |-> Ended(req[p])]
  /\ DbUnchanged /\ DiskUnchanged /\ UNCHANGED raced

Create(p) == \/ CreateAccess(p) \/ CreateInit(p) \/ CreateHead(p)
             \/ CreateInsert(p) \/ CreateAudit(p)
Check(p) == Find(p) \/ CheckRead(p) \/ CheckWrite(p)
Git(p) == ReadGit(p) \/ PushGit(p)
Update(p) == UpdateRow(p) \/ UpdateFind(p) \/ UpdateAudit(p)
Delete(p) == DeleteRow(p) \/ DeleteStorage(p) \/ DeleteAudit(p)

Serve(p) == Create(p) \/ Check(p) \/ Git(p) \/ Update(p) \/ Delete(p)

Next ==
  \/ \E p \in Requests, op \in Operations, u \in Actors, r \in Repos,
        v \in Visibilities : Start(p, op, u, r, v)
  \/ \E p \in Requests : Serve(p) \/ Fail(p)
  \/ \E org \in Organizations, u \in Users, role \in Roles :
        AddMember(org, u, role)
  \/ Crash

Spec == Init /\ [][Next]_vars

(* The server runs every request it accepted; clients need not come.       *)
FairSpec == Spec /\ \A p \in Requests : WF_vars(Serve(p))
-----------------------------------------------------------------------------
TypeOK ==
  /\ row \in [Repos -> Nat]
  /\ visibility \in [Repos -> Visibilities]
  /\ made \in [Repos -> Nat]
  /\ storage \in [Repos -> {"absent", "bare", "ready"}]
  /\ content \in [Repos -> SUBSET Nat]
  /\ members \subseteq Memberships
  /\ audit \subseteq AuditEntry
  /\ req \in [Requests -> Request]
  /\ faults \in Nat
  /\ raced \subseteq Repos
  /\ interrupted \subseteq Repos

(* A row names a usable bare repository: whatever fails or crashes, and    *)
(* however requests interleave, unless a delete was caught between its row *)
(* and its directory by a create of the same id (repository_service.ts:    *)
(* init precedes INSERT, DELETE precedes remove).                          *)
RowHasStorage ==
  \A r \in Repos \ raced : row[r] # 0 => storage[r] = "ready"

(* A repository holds only what was pushed to it, never the content of an  *)
(* earlier repository of the same name, unless such an overlap or an       *)
(* interrupted delete left the old directory behind.                       *)
ContentIsOwn ==
  \A r \in Repos \ (raced \cup interrupted) :
     row[r] # 0 => content[r] \subseteq {row[r]}

(* Without failures no directory is left without a row: a request that     *)
(* will insert the row or remove the directory is still running.           *)
NoLeakedStorage ==
  \A r \in Repos :
     /\ storage[r] # "absent"
     /\ row[r] = 0
     /\ faults = 0
     => \E p \in Requests :
          /\ req[p].repo = r
          /\ req[p].step \in {"create_head", "create_insert", "delete_storage"}

(* Every row that was ever inserted has its audit entry, or its request is *)
(* still about to write it, or something failed: createRepository has no   *)
(* path that inserts and returns without recording.                        *)
CreationsAudited ==
  \A r \in Repos : \A i \in 1..made[r] :
     \/ Entry("repository.create", r, i) \in audit
     \/ \E p \in Requests : At(p, "create_audit") /\ req[p].repo = r
                            /\ req[p].seen = i
     \/ faults > 0

(* A deletion in the audit log is final: the incarnation the request saw   *)
(* never has a row again, whoever else creates or deletes meanwhile.       *)
AuditedDeleteIsFinal ==
  \A e \in audit :
     e.action = "repository.delete" => row[e.repo] # e.incarnation

MutatingSteps == {"create_init", "create_head", "create_insert", "push_git",
                  "update_row", "delete_row", "delete_storage"}

(* The permission is checked once, awaits pass, and it still holds when    *)
(* the row or the directory is changed (memberships are never removed).    *)
MutatorsMayWrite ==
  \A p \in Requests :
     req[p].step \in MutatingSteps =>
        CanWriteOwner(members, RepoOwner[req[p].repo], req[p].actor)

(* A directory without a row does not stay: the pending create or delete   *)
(* finishes (runs without faults).                                         *)
LeakIsReclaimed ==
  \A r \in Repos :
     (storage[r] # "absent" /\ row[r] = 0)
        ~> (storage[r] = "absent" \/ row[r] # 0)
=============================================================================
