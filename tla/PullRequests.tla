---------------------------- MODULE PullRequests ----------------------------
(***************************************************************************)
(* The pull requests of one repository and their reviews.  They are        *)
(* numbered like issues, SELECT MAX(number) + 1 and then INSERT; an update *)
(* decides on a copy read earlier and writes every field; a review is      *)
(* inserted after its pull request was read.  The repository can be        *)
(* deleted between any two statements (pull requests and reviews go with   *)
(* it) and created again under the same id.  Title, body and branches are  *)
(* left out: they are written with the state, from the same copy.          *)
(***************************************************************************)
EXTENDS Access, Integers

CONSTANTS
  Requests,         \* slots for requests being served at the same time
  Shas,             \* commit ids
  Null,             \* the absent merge commit
  Undefined,        \* a field the request leaves out
  Owner,            \* the owner part of the repository id
  Members,          \* the organization_members rows
  Private,          \* the repository's visibility is "private"
  MaxIncarnations,  \* bound: how often the repository is created
  MaxNumber,        \* bound: a create request starts below this number
  MaxRequests       \* bound: requests that ever arrive

ASSUME PullRequestsAssumption ==
  /\ Null \notin Shas
  /\ Undefined \notin Shas \cup {Null}
  /\ Owner \in Owners
  /\ Members \subseteq Memberships
  /\ Private \in BOOLEAN
  /\ MaxIncarnations \in Nat
  /\ MaxNumber \in Nat
  /\ MaxRequests \in Nat

VARIABLES
  repo,     \* the incarnation of the repository, 0 while it does not exist
  made,     \* how many incarnations there were
  pulls,    \* the pull_requests table: number -> [author, state, sha]
  reviews,  \* the code_reviews table: <<number, reviewer>>
  audit,    \* audit_logs: the actions recorded
  req,      \* the request in each slot
  started,  \* how many requests arrived
  stale     \* history: incarnations changed by a request that saw another one

vars == <<repo, made, pulls, reviews, audit, req, started, stale>>

PullRequestState == {"open", "closed", "merged"}
PullRequest == [author : Users, state : PullRequestState, sha : Shas \cup {Null}]

Operations == {"read", "create", "update", "review"}

Steps == {"idle", "visible", "read_pulls", "next_number", "create_insert",
          "writable", "update_find", "update_row", "update_refind",
          "review_find", "review_insert", "audit"}

(* state and sha are the inputs of an update until it has read the pull    *)
(* request, and then the values it is going to write.                      *)
Request ==
  [step : Steps, op : Operations, actor : Actors, number : Nat, seen : Nat,
   state : PullRequestState \cup {"undefined"},
   sha : Shas \cup {Null, Undefined}]

Numbers == DOMAIN pulls

(* Mutant: the largest number itself.                                      *)
NextNumberFromZero ==
  CHOOSE m \in Numbers \cup {0} : \A k \in Numbers : k <= m

(* SELECT COALESCE(MAX(number), 0) + 1                                     *)
NextNumber ==
  1 + (CHOOSE m \in Numbers \cup {0} : \A k \in Numbers : k <= m)

MayRead(u) == Private => CanReadOwner(Members, Owner, u)
MayWrite(u) == CanWriteOwner(Members, Owner, u)
-----------------------------------------------------------------------------
At(p, step) == req[p].step = step

Becomes(p, record) == req' = [req EXCEPT ![p] = record]

GoTo(p, step) == Becomes(p, [req[p] EXCEPT !.step = step])

Idle == [step |-> "idle", op |-> "read", actor |-> Anonymous, number |-> 0,
         seen |-> 0, state |-> "undefined", sha |-> Undefined]

Answer(p) == Becomes(p, Idle)

RepoUnchanged == UNCHANGED <<repo, made>>
TablesUnchanged == UNCHANGED <<pulls, reviews, stale>>
OnlyRequests == RepoUnchanged /\ TablesUnchanged /\ UNCHANGED <<audit, started>>

Touch(p) == stale' = IF req[p].seen = repo THEN stale ELSE stale \cup {repo}
-----------------------------------------------------------------------------
Init ==
  /\ repo = 0
  /\ made = 0
  /\ pulls = [n \in {} |-> Idle]
  /\ reviews = {}
  /\ audit = {}
  /\ req = [p \in Requests |-> Idle]
  /\ started = 0
  /\ stale = {}

CreateRepository ==
  /\ repo = 0
  /\ made < MaxIncarnations
  /\ repo' = made + 1
  /\ made' = made + 1
  /\ TablesUnchanged /\ UNCHANGED <<audit, req, started>>

(* ON DELETE CASCADE, to the pull requests and on to their reviews         *)
DeleteRepository ==
  /\ repo # 0
  /\ repo' = 0
  /\ pulls' = [n \in {} |-> Idle]
  /\ reviews' = {}
  /\ UNCHANGED <<made, audit, req, started, stale>>

Start(p, op, u, n, state, sha) ==
  /\ At(p, "idle")
  /\ u = Anonymous => op = "read"
  /\ op = "create" => NextNumber <= MaxNumber
  /\ IF op \in {"update", "review"} THEN n > 0 ELSE n = 0
  /\ op # "update" => state = "undefined" /\ sha = Undefined
  /\ started < MaxRequests
  /\ started' = started + 1
  /\ Becomes(p, [step |-> "visible", op |-> op, actor |-> u, number |-> n,
                 seen |-> 0, state |-> state, sha |-> sha])
  /\ RepoUnchanged /\ TablesUnchanged /\ UNCHANGED audit

(* Mutant: an update needs no more than visibility.                        *)
FirstStepVisibleOnly(op) == CASE op = "create" -> "next_number"
                              [] op = "update" -> "update_find"
                              [] op = "review" -> "review_find"
                              [] OTHER -> "read_pulls"

(* requireVisibleRepository                                                *)
FirstStep(op) == CASE op = "create" -> "next_number"
                   [] op = "update" -> "writable"
                   [] op = "review" -> "review_find"
                   [] OTHER -> "read_pulls"

Visible(p) ==
  /\ At(p, "visible")
  /\ IF repo # 0 /\ MayRead(req[p].actor)
       THEN Becomes(p, [req[p] EXCEPT !.seen = repo,
                                      !.step = FirstStep(req[p].op)])
       ELSE Answer(p)                                           \* 404, 403
  /\ OnlyRequests

(* listPullRequests, getPullRequest, listReviews                           *)
ReadPulls(p) ==
  /\ At(p, "read_pulls")
  /\ Answer(p)
  /\ OnlyRequests
-----------------------------------------------------------------------------
(* createPullRequest                                                       *)
ReadNextNumber(p) ==
  /\ At(p, "next_number")
  /\ Becomes(p, [req[p] EXCEPT !.number = NextNumber,
                               !.step = "create_insert"])
  /\ OnlyRequests

(* Mutant: INSERT OR REPLACE.                                              *)
CreateInsertReplacing(p) ==
  LET n == req[p].number IN
  /\ At(p, "create_insert")
  /\ IF repo = 0
       THEN Answer(p) /\ UNCHANGED <<pulls, stale>>
       ELSE /\ pulls' = [k \in Numbers \cup {n} |->
                           IF k = n THEN [author |-> req[p].actor,
                                          state |-> "open", sha |-> Null]
                                    ELSE pulls[k]]
            /\ Touch(p)
            /\ GoTo(p, "audit")
  /\ RepoUnchanged /\ UNCHANGED <<reviews, audit, started>>

CreateInsert(p) ==
  LET n == req[p].number IN
  /\ At(p, "create_insert")
  /\ IF repo = 0 \/ n \in Numbers
       THEN Answer(p) /\ UNCHANGED <<pulls, stale>>             \* 500, 409
       ELSE /\ pulls' = [k \in Numbers \cup {n} |->
                           IF k = n THEN [author |-> req[p].actor,
                                          state |-> "open", sha |-> Null]
                                    ELSE pulls[k]]
            /\ Touch(p)
            /\ GoTo(p, "audit")
  /\ RepoUnchanged /\ UNCHANGED <<reviews, audit, started>>
-----------------------------------------------------------------------------
(* updatePullRequest: requireWritableRepository, then the pull request ... *)
Writable(p) ==
  /\ At(p, "writable")
  /\ IF MayWrite(req[p].actor) THEN GoTo(p, "update_find")
                               ELSE Answer(p)                   \* 403
  /\ OnlyRequests

(* ... which supplies what the request leaves out ...                      *)
Wanted(p) ==
  LET pull == pulls[req[p].number] IN
  [req[p] EXCEPT !.state = IF @ = "undefined" THEN pull.state ELSE @,
                 !.sha = IF @ = Undefined THEN pull.sha ELSE @]

(* Mutant: only an omitted commit is refused, not one that is null.        *)
NeedsShaWhenOmitted(request) ==
  request.state = "merged" /\ request.sha = Undefined

NeedsSha(request) == request.state = "merged" /\ request.sha = Null

UpdateFind(p) ==
  /\ At(p, "update_find")
  /\ IF req[p].number \in Numbers /\ ~NeedsSha(Wanted(p))
       THEN Becomes(p, [Wanted(p) EXCEPT !.step = "update_row"])
       ELSE Answer(p)                                           \* 404, 400
  /\ OnlyRequests

(* ... UPDATE pull_requests, every field at once.                          *)
UpdateRow(p) ==
  LET n == req[p].number IN
  /\ At(p, "update_row")
  /\ IF n \in Numbers
       THEN /\ pulls' = [pulls EXCEPT ![n] = [author |-> pulls[n].author,
                                              state |-> req[p].state,
                                              sha |-> req[p].sha]]
            /\ Touch(p)
       ELSE UNCHANGED <<pulls, stale>>
  /\ GoTo(p, "update_refind")
  /\ RepoUnchanged /\ UNCHANGED <<reviews, audit, started>>

UpdateRefind(p) ==
  /\ At(p, "update_refind")
  /\ IF req[p].number \in Numbers THEN GoTo(p, "audit")
                                  ELSE Answer(p)                \* 404
  /\ OnlyRequests
-----------------------------------------------------------------------------
(* createReview: requirePullRequest, then INSERT INTO code_reviews, which  *)
(* is refused without the pull request (foreign key).                      *)
ReviewFind(p) ==
  /\ At(p, "review_find")
  /\ IF req[p].number \in Numbers THEN GoTo(p, "review_insert")
                                  ELSE Answer(p)                \* 404
  /\ OnlyRequests

(* Mutant: foreign keys are not enforced.                                  *)
ReviewInsertUnchecked(p) ==
  /\ At(p, "review_insert")
  /\ reviews' = reviews \cup {<<req[p].number, req[p].actor>>}
  /\ Touch(p)
  /\ GoTo(p, "audit")
  /\ RepoUnchanged /\ UNCHANGED <<pulls, audit, started>>

ReviewInsert(p) ==
  LET n == req[p].number IN
  /\ At(p, "review_insert")
  /\ IF n \notin Numbers
       THEN Answer(p) /\ TablesUnchanged                        \* 500
       ELSE /\ reviews' = reviews \cup {<<n, req[p].actor>>}
            /\ Touch(p)
            /\ GoTo(p, "audit")
            /\ UNCHANGED pulls
  /\ RepoUnchanged /\ UNCHANGED <<audit, started>>
-----------------------------------------------------------------------------
Action(op) == CASE op = "create" -> "pull_request.create"
                [] op = "update" -> "pull_request.update"
                [] OTHER -> "code_review.create"

Audit(p) ==
  /\ At(p, "audit")
  /\ audit' = audit \cup {Action(req[p].op)}
  /\ Answer(p)
  /\ RepoUnchanged /\ TablesUnchanged /\ UNCHANGED started

(* The awaited call throws, a field fails its validation, or the process   *)
(* stops.                                                                  *)
Fail(p) ==
  /\ ~At(p, "idle")
  /\ Answer(p)
  /\ OnlyRequests

Create(p) == ReadNextNumber(p) \/ CreateInsert(p)
Update(p) == Writable(p) \/ UpdateFind(p) \/ UpdateRow(p) \/ UpdateRefind(p)
Review(p) == ReviewFind(p) \/ ReviewInsert(p)

Serve(p) == \/ Visible(p) \/ ReadPulls(p) \/ Create(p) \/ Update(p)
            \/ Review(p) \/ Audit(p)

Next ==
  \/ CreateRepository
  \/ DeleteRepository
  \/ \E p \in Requests, op \in Operations, u \in Actors, n \in 0..MaxNumber,
        state \in PullRequestState \cup {"undefined"},
        sha \in Shas \cup {Null, Undefined} : Start(p, op, u, n, state, sha)
  \/ \E p \in Requests : Serve(p) \/ Fail(p)

Spec == Init /\ [][Next]_vars
-----------------------------------------------------------------------------
TypeOK ==
  /\ repo \in Nat
  /\ made \in Nat
  /\ Numbers \subseteq Nat \ {0}
  /\ pulls \in [Numbers -> PullRequest]
  /\ reviews \subseteq Nat \X Users
  /\ audit \subseteq {Action(op) : op \in Operations}
  /\ req \in [Requests -> Request]
  /\ started \in Nat
  /\ stale \subseteq Nat

(* A merged pull request names its merge commit, although two updates that *)
(* each looked at an older copy (one sets the state, one clears the        *)
(* commit) may overlap, and a late one may hit another pull request.       *)
MergedHasSha ==
  \A n \in Numbers : pulls[n].state = "merged" => pulls[n].sha # Null

(* A review never outlives its pull request, and never precedes it: the    *)
(* pull request may be gone, or replaced, when the review is inserted.     *)
ReviewsHaveTarget ==
  \A review \in reviews : review[1] \in Numbers

(* State and merge commit change only by the hand of someone who may write *)
(* to the repository, and the author never changes.                        *)
UpdateIsAuthorized ==
  [][\A n \in Numbers :
       n \in Numbers' /\ pulls'[n] # pulls[n] =>
         /\ pulls'[n].author = pulls[n].author
         /\ \E p \in Requests : /\ At(p, "update_row")
                                /\ req'[p] # req[p]
                                /\ MayWrite(req[p].actor)]_vars
-----------------------------------------------------------------------------
(* The log of an incarnation that a request of an earlier one changed      *)
(* counts as cleared.                                                      *)
AuthorLog ==
  IF repo \in stale THEN << >>
                    ELSE [n \in 1..(NextNumber - 1) |-> pulls[n].author]

Log == INSTANCE NumberedLog WITH Authors <- Users, log <- AuthorLog

(* The pull requests of a repository are a numbered log: a creation        *)
(* appends one item, updates and reviews never touch it, and it disappears *)
(* only with the repository.                                               *)
ImplementsLog == Log!Spec
=============================================================================
