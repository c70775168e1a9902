-------------------------------- MODULE Wiki --------------------------------
(***************************************************************************)
(* The wiki of one repository.  An upsert reads the page, then inserts it  *)
(* with version 1 or writes the version it read plus one; between the two  *)
(* statements other upserts run, and the repository can be deleted and     *)
(* created again under the same id.  What a page says is left out: a page  *)
(* is its version, and the number of upserts that produced what it says.   *)
(***************************************************************************)
EXTENDS RepositoryServing

CONSTANT Slugs   \* page names

VARIABLES
  version,  \* the wiki_pages table: the version of each page, 0 for no page
  writes,   \* history: the writes each page has had since it was inserted
  raced     \* history: pages that had two upserts between read and write

wikiVars == <<req, started, audit, repo, made, stale, version, writes, raced>>

Steps == {"visible", "read_page", "writable", "find_page", "insert_page",
          "update_page", "audit"}

(* read is the version an upsert found.                                    *)
Request ==
  {Idle} \cup
  [step : Steps, op : {"read", "upsert"}, actor : Actors, slug : Slugs,
   seen : Nat, read : Nat]

TableUnchanged == UNCHANGED <<version, writes>>
OnlyRequests == RepositoryUnchanged /\ TableUnchanged /\ UNCHANGED raced /\ Quietly

NoPages == [s \in Slugs |-> 0]

(* The upserts of a page that stand between their read and their write.    *)
Writing(s) ==
  {p \in Requests : /\ req[p].step \in {"insert_page", "update_page"}
                    /\ req[p].slug = s}
-----------------------------------------------------------------------------
WikiInit ==
  /\ ServingInit
  /\ RepositoryInit
  /\ version = NoPages
  /\ writes = NoPages
  /\ raced = {}

CreateRepository == Incarnate /\ TableUnchanged /\ UNCHANGED raced

DeleteRepository ==
  /\ Discard
  /\ version' = NoPages
  /\ writes' = NoPages
  /\ UNCHANGED raced

Start(p, op, u, s) ==
  /\ u = Anonymous => op = "read"
  /\ Arrive(p, [step |-> "visible", op |-> op, actor |-> u, slug |-> s,
                seen |-> 0, read |-> 0])
  /\ RepositoryUnchanged /\ TableUnchanged /\ UNCHANGED raced

Visible(p) ==
  /\ VisibleRepository(p, IF req[p].op = "read" THEN "read_page"
                                                ELSE "writable")
  /\ TableUnchanged /\ UNCHANGED raced

(* listWikiPages and getWikiPage                                           *)
ReadPage(p) ==
  /\ At(p, "read_page")
  /\ Answer(p)
  /\ OnlyRequests

Writable(p) ==
  /\ WritableRepository(p, "find_page")
  /\ TableUnchanged /\ UNCHANGED raced

(* upsertWikiPage: findWikiPage ...                                        *)
FindPage(p) ==
  LET s == req[p].slug IN
  /\ At(p, "find_page")
  /\ Becomes(p, [req[p] EXCEPT
                   !.read = version[s],
                   !.step = IF version[s] = 0 THEN "insert_page"
                                              ELSE "update_page"])
  /\ raced' = IF Writing(s) = {} THEN raced ELSE raced \cup {s}
  /\ RepositoryUnchanged /\ TableUnchanged /\ Quietly

(* ... INSERT with version 1, refused without the repository (foreign key) *)
(* and when the page has appeared meanwhile (UNIQUE) ...                   *)
InsertPage(p) ==
  LET s == req[p].slug IN
  /\ At(p, "insert_page")
  /\ IF repo = 0 \/ version[s] # 0
       THEN Answer(p) /\ TableUnchanged /\ RepositoryUnchanged  \* 500, 409
       ELSE /\ version' = [version EXCEPT ![s] = 1]
            /\ writes' = [writes EXCEPT ![s] = 1]
            /\ Touch(p)
            /\ GoTo(p, "audit")
  /\ Quietly /\ UNCHANGED raced

(* Mutant: the version read, and one that skips a version.                 *)
NextVersionSame(p) == req[p].read
NextVersionSkips(p) == req[p].read + 2

(* ... or UPDATE with the version read plus one, which changes no row when *)
(* the page is gone, and is answered 200 all the same.                     *)
NextVersion(p) == req[p].read + 1

UpdatePage(p) ==
  LET s == req[p].slug IN
  /\ At(p, "update_page")
  /\ IF version[s] = 0
       THEN TableUnchanged /\ RepositoryUnchanged
       ELSE /\ version' = [version EXCEPT ![s] = NextVersion(p)]
            /\ writes' = [writes EXCEPT ![s] = @ + 1]
            /\ Touch(p)
  /\ GoTo(p, "audit")
  /\ Quietly /\ UNCHANGED raced

Audit(p) ==
  /\ At(p, "audit")
  /\ Record(p, "wiki.upsert")
  /\ RepositoryUnchanged /\ TableUnchanged /\ UNCHANGED raced

Fail(p) ==
  /\ Drop(p)
  /\ RepositoryUnchanged /\ TableUnchanged /\ UNCHANGED raced

Upsert(p) == Writable(p) \/ FindPage(p) \/ InsertPage(p) \/ UpdatePage(p)

WikiNext ==
  \/ CreateRepository
  \/ DeleteRepository
  \/ \E p \in Requests, op \in {"read", "upsert"}, u \in Actors, s \in Slugs :
        Start(p, op, u, s)
  \/ \E p \in Requests : \/ Visible(p) \/ ReadPage(p) \/ Upsert(p)
                         \/ Audit(p) \/ Fail(p)

WikiSpec == WikiInit /\ [][WikiNext]_wikiVars
-----------------------------------------------------------------------------
WikiTypeOK ==
  /\ repo \in Nat
  /\ made \in Nat
  /\ stale \subseteq Nat
  /\ version \in [Slugs -> Nat]
  /\ writes \in [Slugs -> Nat]
  /\ raced \subseteq Slugs
  /\ req \in [Requests -> Request]
  /\ started \in Nat
  /\ audit \subseteq {"wiki.upsert"}

(* The version of a page counts the writes it has had, unless two upserts  *)
(* of it overlapped between read and write or one came from an earlier     *)
(* repository of the same name.                                            *)
VersionCountsWrites ==
  repo \notin stale => \A s \in Slugs \ raced : version[s] = writes[s]

(* Overlapping upserts can lose a version but never invent one: the        *)
(* version stays within the number of writes, and a page keeps having one. *)
VersionIsBounded ==
  repo \notin stale =>
    \A s \in Slugs : /\ version[s] <= writes[s]
                     /\ version[s] = 0 <=> writes[s] = 0

(* The specification's words: every update adds one to the version.        *)
EveryUpdateCounts == \A s \in Slugs : version[s] = writes[s]
=============================================================================
