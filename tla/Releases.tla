------------------------------ MODULE Releases ------------------------------
(***************************************************************************)
(* The releases of one repository.  A creation looks for the tag and then  *)
(* inserts; a release is never updated.  It is kept as its author and what *)
(* it says (title, notes and draft).                                       *)
(***************************************************************************)
EXTENDS RepositoryServing

CONSTANTS
  Tags,   \* tag names
  Notes   \* what a release may say

VARIABLE releases   \* the releases table: tag -> <<author, notes>>

releasesVars == <<req, started, audit, repo, made, stale, releases>>

Steps == {"visible", "writable", "list", "find", "insert", "audit"}

Request ==
  {Idle} \cup
  [step : Steps, op : {"list", "get", "create"}, actor : Actors, tag : Tags,
   notes : Notes, seen : Nat]

NoReleases == [t \in {} |-> 0]
-----------------------------------------------------------------------------
ReleasesInit == ServingInit /\ RepositoryInit /\ releases = NoReleases

CreateRepository == Incarnate /\ UNCHANGED releases
DeleteRepository == Discard /\ releases' = NoReleases

Start(p, op, u, tag, notes) ==
  /\ u = Anonymous => op # "create"
  /\ Arrive(p, [step |-> "visible", op |-> op, actor |-> u, tag |-> tag,
                notes |-> notes, seen |-> 0])
  /\ RepositoryUnchanged /\ UNCHANGED releases

FirstStep(op) == CASE op = "list" -> "list"
                   [] op = "get" -> "find"
                   [] OTHER -> "writable"

Visible(p) ==
  /\ VisibleRepository(p, FirstStep(req[p].op))
  /\ UNCHANGED releases

Writable(p) == WritableRepository(p, "find") /\ UNCHANGED releases

(* listReleases                                                            *)
ListReleases(p) ==
  /\ At(p, "list")
  /\ Answer(p)
  /\ RepositoryUnchanged /\ Quietly /\ UNCHANGED releases

(* getRelease, which answers with the release or 404, and createRelease,   *)
(* which answers 409 when the tag is taken.                                *)
Find(p) ==
  /\ At(p, "find")
  /\ IF req[p].op = "create" /\ req[p].tag \notin DOMAIN releases
       THEN GoTo(p, "insert")
       ELSE Answer(p)
  /\ RepositoryUnchanged /\ Quietly /\ UNCHANGED releases

Added(p) ==
  [t \in DOMAIN releases \cup {req[p].tag} |->
     IF t = req[p].tag THEN <<req[p].actor, req[p].notes>> ELSE releases[t]]

(* Mutant: findRelease is trusted, the table has no UNIQUE.                *)
InsertUnchecked(p) ==
  /\ At(p, "insert")
  /\ IF repo = 0
       THEN Answer(p) /\ RepositoryUnchanged /\ UNCHANGED releases
       ELSE releases' = Added(p) /\ Touch(p) /\ GoTo(p, "audit")
  /\ Quietly

(* INSERT, refused without the repository (foreign key) and when the tag   *)
(* has appeared meanwhile (UNIQUE).                                        *)
Insert(p) ==
  /\ At(p, "insert")
  /\ IF repo = 0 \/ req[p].tag \in DOMAIN releases
       THEN Answer(p) /\ RepositoryUnchanged /\ UNCHANGED releases \* 500, 409
       ELSE releases' = Added(p) /\ Touch(p) /\ GoTo(p, "audit")
  /\ Quietly

Audit(p) ==
  /\ At(p, "audit")
  /\ Record(p, "release.create")
  /\ RepositoryUnchanged /\ UNCHANGED releases

Fail(p) == Drop(p) /\ RepositoryUnchanged /\ UNCHANGED releases

ReleasesNext ==
  \/ CreateRepository
  \/ DeleteRepository
  \/ \E p \in Requests, op \in {"list", "get", "create"}, u \in Actors,
        tag \in Tags, notes \in Notes : Start(p, op, u, tag, notes)
  \/ \E p \in Requests : \/ Visible(p) \/ Writable(p) \/ ListReleases(p)
                         \/ Find(p) \/ Insert(p) \/ Audit(p) \/ Fail(p)

ReleasesSpec == ReleasesInit /\ [][ReleasesNext]_releasesVars
-----------------------------------------------------------------------------
ReleasesTypeOK ==
  /\ repo \in Nat
  /\ made \in Nat
  /\ stale \subseteq Nat
  /\ DOMAIN releases \subseteq Tags
  /\ releases \in [DOMAIN releases -> Users \X Notes]
  /\ req \in [Requests -> Request]
  /\ started \in Nat
  /\ audit \subseteq {"release.create"}
-----------------------------------------------------------------------------
Publishers == {k \in Tags \X Users : MayWrite(k[2])}

(* The releases of an incarnation that a request of an earlier one changed *)
(* count as cleared.                                                       *)
Published == INSTANCE WriteOnce WITH
  Keys <- Tags, Authors <- Users, Contents <- Notes,
  store <- IF repo \in stale THEN NoReleases ELSE releases,
  allowed <- Publishers

(* A release is made once, by somebody who may write to the repository,    *)
(* and is never changed; it disappears only with its repository.           *)
ReleasesArePermanent == Published!ClearableSpec
=============================================================================
