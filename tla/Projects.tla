------------------------------ MODULE Projects ------------------------------
(***************************************************************************)
(* The projects of one repository, numbered like issues and pull requests. *)
(* An update reads the project, writes back what it read with the changed  *)
(* fields, and reads it again.  A project is its author and its state;     *)
(* title and body are written with the state, from the same copy.          *)
(***************************************************************************)
EXTENDS RepositoryServing

CONSTANT MaxNumber   \* bound: a creation starts below this number

VARIABLE projects    \* the projects table: number -> [author, state]

projectsVars == <<req, started, audit, repo, made, stale, projects>>

ProjectState == {"open", "closed"}
Project == [author : Users, state : ProjectState]

Steps == {"visible", "writable", "list", "next_number", "insert",
          "find", "update_row", "refind", "audit"}

(* state is what an update asks for, and from `find' on what it writes.    *)
Request ==
  {Idle} \cup
  [step : Steps, op : {"list", "create", "update"}, actor : Actors,
   number : Nat, state : ProjectState \cup {"undefined"}, seen : Nat]

Numbers == DOMAIN projects
NoProjects == [n \in {} |-> 0]

(* Mutant: no + 1.                                                         *)
NextNumberWithoutOne ==
  CHOOSE m \in Numbers \cup {0} : \A k \in Numbers : k <= m

(* SELECT COALESCE(MAX(number), 0) + 1                                     *)
NextNumber ==
  1 + (CHOOSE m \in Numbers \cup {0} : \A k \in Numbers : k <= m)
-----------------------------------------------------------------------------
ProjectsInit == ServingInit /\ RepositoryInit /\ projects = NoProjects

CreateRepository == Incarnate /\ UNCHANGED projects
DeleteRepository == Discard /\ projects' = NoProjects

Start(p, op, u, n, state) ==
  /\ u = Anonymous => op = "list"
  /\ op = "create" => NextNumber <= MaxNumber
  /\ IF op = "update" THEN n > 0 ELSE n = 0 /\ state = "undefined"
  /\ Arrive(p, [step |-> "visible", op |-> op, actor |-> u, number |-> n,
                state |-> state, seen |-> 0])
  /\ RepositoryUnchanged /\ UNCHANGED projects

Visible(p) ==
  /\ VisibleRepository(p, IF req[p].op = "list" THEN "list" ELSE "writable")
  /\ UNCHANGED projects

Writable(p) ==
  /\ WritableRepository(p, IF req[p].op = "create" THEN "next_number"
                                                   ELSE "find")
  /\ UNCHANGED projects

(* listProjects                                                            *)
ListProjects(p) ==
  /\ At(p, "list")
  /\ Answer(p)
  /\ RepositoryUnchanged /\ Quietly /\ UNCHANGED projects

(* createProject: the number ...                                           *)
ReadNextNumber(p) ==
  /\ At(p, "next_number")
  /\ Becomes(p, [req[p] EXCEPT !.number = NextNumber, !.step = "insert"])
  /\ RepositoryUnchanged /\ Quietly /\ UNCHANGED projects

Added(p) ==
  LET n == req[p].number IN
  [k \in Numbers \cup {n} |->
     IF k = n THEN [author |-> req[p].actor, state |-> "open"]
              ELSE projects[k]]

(* Mutant: no UNIQUE(repository_id, number), the later row is found.       *)
InsertUnchecked(p) ==
  /\ At(p, "insert")
  /\ IF repo = 0
       THEN Answer(p) /\ RepositoryUnchanged /\ UNCHANGED projects
       ELSE projects' = Added(p) /\ Touch(p) /\ GoTo(p, "audit")
  /\ Quietly

(* ... and the INSERT, refused without the repository (foreign key) and    *)
(* when the number is taken meanwhile (UNIQUE).                            *)
Insert(p) ==
  /\ At(p, "insert")
  /\ IF repo = 0 \/ req[p].number \in Numbers
       THEN Answer(p) /\ RepositoryUnchanged /\ UNCHANGED projects \* 500, 409
       ELSE projects' = Added(p) /\ Touch(p) /\ GoTo(p, "audit")
  /\ Quietly

(* updateProject: findProject, which supplies what the request leaves out, *)
Find(p) ==
  LET n == req[p].number IN
  /\ At(p, "find")
  /\ IF n \in Numbers
       THEN Becomes(p, [req[p] EXCEPT
                          !.state = IF @ = "undefined" THEN projects[n].state
                                                       ELSE @,
                          !.step = "update_row"])
       ELSE Answer(p)                                           \* 404
  /\ RepositoryUnchanged /\ Quietly /\ UNCHANGED projects

(* UPDATE, which changes no row when the project is gone,                  *)
UpdateRow(p) ==
  LET n == req[p].number IN
  /\ At(p, "update_row")
  /\ IF n \in Numbers
       THEN /\ projects' = [projects EXCEPT ![n].state = req[p].state]
            /\ Touch(p)
       ELSE RepositoryUnchanged /\ UNCHANGED projects
  /\ GoTo(p, "refind")
  /\ Quietly

(* and findProject again.                                                  *)
Refind(p) ==
  /\ At(p, "refind")
  /\ IF req[p].number \in Numbers THEN GoTo(p, "audit")
                                  ELSE Answer(p)                \* 404
  /\ RepositoryUnchanged /\ Quietly /\ UNCHANGED projects

Action(op) == IF op = "create" THEN "project.create" ELSE "project.update"

Audit(p) ==
  /\ At(p, "audit")
  /\ Record(p, Action(req[p].op))
  /\ RepositoryUnchanged /\ UNCHANGED projects

Fail(p) == Drop(p) /\ RepositoryUnchanged /\ UNCHANGED projects

Create(p) == ReadNextNumber(p) \/ Insert(p)
Update(p) == Find(p) \/ UpdateRow(p) \/ Refind(p)

ProjectsNext ==
  \/ CreateRepository
  \/ DeleteRepository
  \/ \E p \in Requests, op \in {"list", "create", "update"}, u \in Actors,
        n \in 0..MaxNumber, state \in ProjectState \cup {"undefined"} :
        Start(p, op, u, n, state)
  \/ \E p \in Requests : \/ Visible(p) \/ Writable(p) \/ ListProjects(p)
                         \/ Create(p) \/ Update(p) \/ Audit(p) \/ Fail(p)

ProjectsSpec == ProjectsInit /\ [][ProjectsNext]_projectsVars
-----------------------------------------------------------------------------
ProjectsTypeOK ==
  /\ repo \in Nat
  /\ made \in Nat
  /\ stale \subseteq Nat
  /\ Numbers \subseteq Nat \ {0}
  /\ projects \in [Numbers -> Project]
  /\ req \in [Requests -> Request]
  /\ started \in Nat
  /\ audit \subseteq {"project.create", "project.update"}
-----------------------------------------------------------------------------
(* The log of an incarnation that a request of an earlier one changed      *)
(* counts as cleared.                                                      *)
AuthorLog ==
  IF repo \in stale THEN << >>
                    ELSE [n \in 1..(NextNumber - 1) |-> projects[n].author]

Log == INSTANCE NumberedLog WITH Authors <- Users, log <- AuthorLog

(* The projects of a repository are a numbered log, although two creations *)
(* may have read the same number: a creation appends one item, an update   *)
(* never touches it, and it disappears only with the repository.           *)
ProjectsAreALog == Log!Spec
=============================================================================
