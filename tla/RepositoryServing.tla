------------------------- MODULE RepositoryServing -------------------------
(***************************************************************************)
(* The gate in front of what belongs to one repository: the repository may *)
(* be deleted and created again under the same id between any two calls of *)
(* a request, which goes on with what it saw.                              *)
(***************************************************************************)
EXTENDS Serving

CONSTANTS
  Owner,            \* the owner part of the repository id
  Members,          \* the organization_members rows
  Private,          \* the repository's visibility is "private"
  MaxIncarnations   \* bound: how often the repository is created

ASSUME RepositoryServingAssumption ==
  /\ Owner \in Owners
  /\ Members \subseteq Memberships
  /\ Private \in BOOLEAN
  /\ MaxIncarnations \in Nat

VARIABLES
  repo,   \* the incarnation of the repository, 0 while it does not exist
  made,   \* how many incarnations there were
  stale   \* history: incarnations changed by a request that saw another one

MayRead(u) == Private => CanReadOwner(Members, Owner, u)
MayWrite(u) == CanWriteOwner(Members, Owner, u)

RepositoryInit == repo = 0 /\ made = 0 /\ stale = {}

RepositoryUnchanged == UNCHANGED <<repo, made, stale>>

(* A statement that changes a row of the repository.                       *)
Touch(p) ==
  /\ stale' = IF req[p].seen = repo THEN stale ELSE stale \cup {repo}
  /\ UNCHANGED <<repo, made>>

Incarnate ==
  /\ repo = 0
  /\ made < MaxIncarnations
  /\ repo' = made + 1
  /\ made' = made + 1
  /\ UNCHANGED <<stale, req, started, audit>>

(* Every table of the repository goes with it, ON DELETE CASCADE.          *)
Discard ==
  /\ repo # 0
  /\ repo' = 0
  /\ UNCHANGED <<made, stale, req, started, audit>>

(* requireVisibleRepository, the first call                                *)
VisibleRepository(p, next) ==
  /\ At(p, "visible")
  /\ IF repo # 0 /\ MayRead(req[p].actor)
       THEN Becomes(p, [req[p] EXCEPT !.seen = repo, !.step = next])
       ELSE Answer(p)                                           \* 404, 403
  /\ RepositoryUnchanged /\ Quietly

(* requireWritableRepository, after requireVisibleRepository               *)
WritableRepository(p, next) ==
  /\ At(p, "writable")
  /\ IF MayWrite(req[p].actor) THEN GoTo(p, next)
                               ELSE Answer(p)                   \* 403
  /\ RepositoryUnchanged /\ Quietly
=============================================================================
