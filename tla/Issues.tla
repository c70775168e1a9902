------------------------------- MODULE Issues -------------------------------
(***************************************************************************)
(* The issues of one repository.  IssueService numbers an issue with       *)
(* SELECT MAX(number) + 1 and inserts it in a second statement, and edits  *)
(* an issue from a copy it read earlier; between any two statements other  *)
(* requests run, and the repository itself can be deleted (its issues go   *)
(* with it, ON DELETE CASCADE) and created again under the same id.        *)
(* An issue keeps its author and its state; title and body are written by  *)
(* the same statement, from the same copy, as the state.                   *)
(***************************************************************************)
EXTENDS Access, Integers

CONSTANTS
  Requests,         \* slots for requests being served at the same time
  Owner,            \* the owner part of the repository id
  Members,          \* the organization_members rows
  Private,          \* the repository's visibility is "private"
  MaxIncarnations,  \* bound: how often the repository is created
  MaxIssues,        \* bound: a create request starts below this number
  MaxRequests       \* bound: requests that ever arrive

ASSUME IssuesAssumption ==
  /\ Owner \in Owners
  /\ Members \subseteq Memberships
  /\ Private \in BOOLEAN
  /\ MaxIncarnations \in Nat
  /\ MaxIssues \in Nat
  /\ MaxRequests \in Nat

VARIABLES
  repo,     \* the incarnation of the repository, 0 while it does not exist
  made,     \* how many incarnations there were
  issues,   \* the issues table: number -> [author, state]
  audit,    \* audit_logs
  req,      \* the request in each slot
  started,  \* how many requests arrived
  stale,    \* history: incarnations changed by a request that saw another one
  lost      \* history: numbers whose issue.create entry a failure prevented

vars == <<repo, made, issues, audit, req, started, stale, lost>>

IssueState == {"open", "closed"}
Issue == [author : Users, state : IssueState]

Operations == {"create", "read", "update"}

Steps == {"idle", "visible", "read_issues",
          "next_number", "create_insert", "create_audit",
          "update_find", "update_writable", "update_row", "update_refind",
          "update_audit"}

Request ==
  [step : Steps, op : Operations, actor : Actors, number : Nat, seen : Nat,
   input : IssueState \cup {"undefined"}, current : IssueState]

AuditEntry ==
  [action : {"issue.create", "issue.update"}, actor : Actors, number : Nat,
   incarnation : Nat]

Numbers == DOMAIN issues

(* Mutant: the largest number itself.                                      *)
NextNumberFromZero ==
  CHOOSE m \in Numbers \cup {0} : \A k \in Numbers : k <= m

(* Mutant: numbers that other requests are about to insert are skipped.    *)
NextNumberReserving ==
  LET taken == Numbers \cup {req[p].number : p \in Requests} \cup {0}
  IN  1 + (CHOOSE m \in taken : \A k \in taken : k <= m)

(* SELECT COALESCE(MAX(number), 0) + 1                                     *)
NextNumber ==
  1 + (CHOOSE m \in Numbers \cup {0} : \A k \in Numbers : k <= m)

MayRead(u) == Private => CanReadOwner(Members, Owner, u)
MayWrite(u) == CanWriteOwner(Members, Owner, u)
-----------------------------------------------------------------------------
At(p, step) == req[p].step = step

Becomes(p, record) == req' = [req EXCEPT ![p] = record]

GoTo(p, step) == Becomes(p, [req[p] EXCEPT !.step = step])

Idle == [step |-> "idle", op |-> "read", actor |-> Anonymous, number |-> 0,
         seen |-> 0, input |-> "undefined", current |-> "open"]

(* Every early return and every final answer; no property reads a status.  *)
Answer(p) == Becomes(p, Idle)

RepoUnchanged == UNCHANGED <<repo, made>>
TableUnchanged == UNCHANGED <<issues, stale>>
LogUnchanged == UNCHANGED <<audit, lost>>
DataUnchanged == RepoUnchanged /\ TableUnchanged /\ LogUnchanged
OnlyRequests == DataUnchanged /\ UNCHANGED started

Entry(action, p) ==
  [action |-> action, actor |-> req[p].actor, number |-> req[p].number,
   incarnation |-> req[p].seen]

Touch(p) == stale' = IF req[p].seen = repo THEN stale ELSE stale \cup {repo}
-----------------------------------------------------------------------------
Init ==
  /\ repo = 0
  /\ made = 0
  /\ issues = [n \in {} |-> Idle]
  /\ audit = {}
  /\ req = [p \in Requests |-> Idle]
  /\ started = 0
  /\ stale = {}
  /\ lost = {}

(* RepositoryRepository.create and delete, seen from the issues table; the *)
(* requests that run them are in Repositories.tla.                         *)
CreateRepository ==
  /\ repo = 0
  /\ made < MaxIncarnations
  /\ repo' = made + 1
  /\ made' = made + 1
  /\ UNCHANGED <<req, started>> /\ TableUnchanged /\ LogUnchanged

DeleteRepository ==
  /\ repo # 0
  /\ repo' = 0
  /\ issues' = [n \in {} |-> Idle]
  /\ UNCHANGED <<made, req, started, stale>> /\ LogUnchanged

(* A request arrives; writing needs credentials.  A create has no number   *)
(* yet, an update brings one and possibly a new state.                     *)
Start(p, op, u, n, input) ==
  /\ At(p, "idle")
  /\ u = Anonymous => op = "read"
  /\ op = "create" => NextNumber <= MaxIssues
  /\ IF op = "update" THEN n > 0 ELSE n = 0 /\ input = "undefined"
  /\ Becomes(p, [Idle EXCEPT !.step = "visible", !.op = op, !.actor = u,
                             !.number = n, !.input = input])
  /\ started < MaxRequests
  /\ started' = started + 1
  /\ DataUnchanged

(* requireVisibleRepository                                                *)
Visible(p) ==
  /\ At(p, "visible")
  /\ IF repo # 0 /\ MayRead(req[p].actor)
       THEN Becomes(p, [req[p] EXCEPT
                          !.seen = repo,
                          !.step = CASE req[p].op = "create" -> "next_number"
                                     [] req[p].op = "read" -> "read_issues"
                                     [] OTHER -> "update_find"])
       ELSE Answer(p)                                           \* 404, 403
  /\ OnlyRequests

(* listIssues and getIssue                                                 *)
ReadIssues(p) ==
  /\ At(p, "read_issues")
  /\ Answer(p)
  /\ OnlyRequests
-----------------------------------------------------------------------------
(* createIssue                                                             *)
ReadNextNumber(p) ==
  /\ At(p, "next_number")
  /\ Becomes(p, [req[p] EXCEPT !.number = NextNumber,
                               !.step = "create_insert"])
  /\ OnlyRequests

(* Mutant: answers 201 right after the INSERT.                             *)
CreateInsertUnaudited(p) ==
  LET n == req[p].number IN
  /\ At(p, "create_insert")
  /\ IF repo = 0 \/ n \in Numbers
       THEN TableUnchanged
       ELSE /\ issues' = [k \in Numbers \cup {n} |->
                            IF k = n THEN [author |-> req[p].actor,
                                           state |-> "open"]
                                     ELSE issues[k]]
            /\ Touch(p)
  /\ Answer(p)
  /\ RepoUnchanged /\ LogUnchanged /\ UNCHANGED started

(* INSERT INTO issues: refused without the repository (foreign key) and    *)
(* when the number is taken (UNIQUE).                                      *)
CreateInsert(p) ==
  LET n == req[p].number IN
  /\ At(p, "create_insert")
  /\ IF repo = 0 \/ n \in Numbers
       THEN Answer(p) /\ TableUnchanged                         \* 500, 409
       ELSE /\ issues' = [k \in Numbers \cup {n} |->
                            IF k = n THEN [author |-> req[p].actor,
                                           state |-> "open"]
                                     ELSE issues[k]]
            /\ Touch(p)
            /\ GoTo(p, "create_audit")
  /\ RepoUnchanged /\ LogUnchanged /\ UNCHANGED started

CreateAudit(p) ==
  /\ At(p, "create_audit")
  /\ audit' = audit \cup {Entry("issue.create", p)}
  /\ Answer(p)
  /\ RepoUnchanged /\ TableUnchanged /\ UNCHANGED <<started, lost>>
-----------------------------------------------------------------------------
(* Mutant: whoever can see an issue may update it.                         *)
UpdateFindUnchecked(p) ==
  LET n == req[p].number IN
  /\ At(p, "update_find")
  /\ IF n \in Numbers
       THEN Becomes(p, [req[p] EXCEPT !.current = issues[n].state,
                                      !.step = "update_row"])
       ELSE Answer(p)
  /\ OnlyRequests

(* updateIssue: read the issue; whoever is not its author needs to be able *)
(* to write to the repository.                                             *)
UpdateFind(p) ==
  LET n == req[p].number IN
  /\ At(p, "update_find")
  /\ IF n \in Numbers
       THEN Becomes(p, [req[p] EXCEPT
                          !.current = issues[n].state,
                          !.step = IF issues[n].author = req[p].actor
                                     THEN "update_row"
                                     ELSE "update_writable"])
       ELSE Answer(p)                                           \* 404
  /\ OnlyRequests

(* requireWritableRepository, which reads the repository again.            *)
UpdateWritable(p) ==
  /\ At(p, "update_writable")
  /\ IF repo # 0 /\ MayWrite(req[p].actor)
       THEN GoTo(p, "update_row")
       ELSE Answer(p)                                           \* 404, 403
  /\ OnlyRequests

(* UPDATE issues: every field, those the request leaves undefined from the *)
(* copy read by UpdateFind.                                                *)
NewState(p) ==
  IF req[p].input = "undefined" THEN req[p].current ELSE req[p].input

(* Mutant: the UPDATE sets the author to whoever updates.                  *)
UpdateRowTakesOver(p) ==
  LET n == req[p].number IN
  /\ At(p, "update_row")
  /\ IF n \in Numbers
       THEN /\ issues' = [issues EXCEPT ![n] = [author |-> req[p].actor,
                                                state |-> NewState(p)]]
            /\ Touch(p)
       ELSE TableUnchanged
  /\ GoTo(p, "update_refind")
  /\ RepoUnchanged /\ LogUnchanged /\ UNCHANGED started

UpdateRow(p) ==
  LET n == req[p].number IN
  /\ At(p, "update_row")
  /\ IF n \in Numbers
       THEN /\ issues' = [issues EXCEPT ![n] = [author |-> issues[n].author,
                                                state |-> NewState(p)]]
            /\ Touch(p)
       ELSE TableUnchanged
  /\ GoTo(p, "update_refind")
  /\ RepoUnchanged /\ LogUnchanged /\ UNCHANGED started

UpdateRefind(p) ==
  /\ At(p, "update_refind")
  /\ IF req[p].number \in Numbers
       THEN GoTo(p, "update_audit")
       ELSE Answer(p)                                           \* 404
  /\ OnlyRequests

UpdateAudit(p) ==
  /\ At(p, "update_audit")
  /\ audit' = audit \cup {Entry("issue.update", p)}
  /\ Answer(p)
  /\ RepoUnchanged /\ TableUnchanged /\ UNCHANGED <<started, lost>>
-----------------------------------------------------------------------------
(* The awaited call throws, a field fails its validation, or the process   *)
(* stops: the request ends where it is.                                    *)
Fail(p) ==
  /\ ~At(p, "idle")
  /\ lost' = IF At(p, "create_audit") THEN lost \cup {req[p].number} ELSE lost
  /\ Answer(p)
  /\ RepoUnchanged /\ TableUnchanged /\ UNCHANGED <<started, audit>>

Create(p) == ReadNextNumber(p) \/ CreateInsert(p) \/ CreateAudit(p)

Update(p) == \/ UpdateFind(p) \/ UpdateWritable(p) \/ UpdateRow(p)
             \/ UpdateRefind(p) \/ UpdateAudit(p)

Serve(p) == Visible(p) \/ ReadIssues(p) \/ Create(p) \/ Update(p)

Next ==
  \/ CreateRepository
  \/ DeleteRepository
  \/ \E p \in Requests, op \in Operations, u \in Actors, n \in 0..MaxIssues,
        input \in IssueState \cup {"undefined"} : Start(p, op, u, n, input)
  \/ \E p \in Requests : Serve(p) \/ Fail(p)

Spec == Init /\ [][Next]_vars
-----------------------------------------------------------------------------
TypeOK ==
  /\ repo \in Nat
  /\ made \in Nat
  /\ Numbers \subseteq Nat \ {0}
  /\ issues \in [Numbers -> Issue]
  /\ audit \subseteq AuditEntry
  /\ req \in [Requests -> Request]
  /\ started \in Nat
  /\ stale \subseteq Nat
  /\ lost \subseteq Nat

(* Issue numbers have no gaps, however creations interleave and fail, as   *)
(* long as no request of an earlier repository of the same name reached    *)
(* this one (createIssue: nextNumber and the INSERT are two statements).   *)
NumbersDense ==
  repo \notin stale => \A n \in Numbers : 1..n \subseteq Numbers

(* Every issue is in the audit log, or its request is about to write the   *)
(* entry, or that very write failed.                                       *)
IssuesAudited ==
  repo \notin stale =>
    \A n \in Numbers \ lost :
       \/ \E e \in audit : /\ e.action = "issue.create"
                           /\ e.actor = issues[n].author
                           /\ e.number = n
                           /\ e.incarnation = repo
       \/ \E p \in Requests : /\ At(p, "create_audit")
                              /\ req[p].number = n
                              /\ req[p].seen = repo

ChangedBy(p, n) ==
  /\ At(p, "update_row") /\ req'[p] # req[p]
  /\ req[p].number = n
  /\ \/ req[p].actor = issues[n].author
     \/ MayWrite(req[p].actor)

Edited(n) == n \in Numbers /\ n \in Numbers' /\ issues'[n] # issues[n]

(* An issue is edited only by its author or by someone who may write to    *)
(* the repository, and nobody edits who wrote it; the check and the UPDATE *)
(* are separate statements (updateIssue), with the same proviso as above.  *)
EditIsAuthorized ==
  [][\A n \in Numbers :
       Edited(n) /\ repo \notin stale' =>
         /\ issues'[n].author = issues[n].author
         /\ \E p \in Requests : ChangedBy(p, n)]_vars

(* The promise of the specification without the proviso: authors, owners   *)
(* and admins control updates (updateIssue).                               *)
EditIsAlwaysAuthorized ==
  [][\A n \in Numbers : Edited(n) =>
       \E p \in Requests : ChangedBy(p, n)]_vars
-----------------------------------------------------------------------------
(* The log of an incarnation that a request of an earlier one changed      *)
(* counts as cleared.                                                      *)
AuthorLog ==
  IF repo \in stale THEN << >>
                    ELSE [n \in 1..(NextNumber - 1) |-> issues[n].author]

Log == INSTANCE NumberedLog WITH Authors <- Users, log <- AuthorLog

(* The issues of a repository are a numbered log: a creation appends one   *)
(* item, whatever other creations read meanwhile, edits never touch it,    *)
(* and it disappears only with the repository (createIssue, updateIssue).  *)
ImplementsLog == Log!Spec
=============================================================================
