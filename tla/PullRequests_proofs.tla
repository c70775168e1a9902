------------------------ MODULE PullRequests_proofs ------------------------
(***************************************************************************)
(* Proofs about PullRequests, for every number of requests, users, pull    *)
(* requests, commits and incarnations of the repository.                   *)
(***************************************************************************)
EXTENDS PullRequests, SequenceTheorems, TLAPS

(* SELECT MAX always has something to return: the table is empty or one of *)
(* its numbers is the largest.                                             *)
NumbersHaveMax ==
  \E m \in Numbers \cup {0} : \A k \in Numbers : k <= m

(* SELECT MAX(number) + 1 is a free number above every used one.           *)
LEMMA NextNumberIsNext ==
  ASSUME Numbers \subseteq Nat \ {0}, NumbersHaveMax
  PROVE  /\ NextNumber \in Nat \ {0}
         /\ NextNumber - 1 \in Numbers \cup {0}
         /\ \A k \in Numbers : k < NextNumber
<1> DEFINE IsMax(m) == \A k \in Numbers : k <= m
           max == CHOOSE m \in Numbers \cup {0} : IsMax(m)
<1>1. max \in Numbers \cup {0} /\ IsMax(max)
  BY DEF NumbersHaveMax
<1>2. NextNumber = 1 + max
  BY DEF NextNumber
<1> HIDE DEF max
<1>3. max \in Nat /\ \A k \in Numbers : k \in Nat
  BY <1>1
<1> QED BY <1>1, <1>2, <1>3
-----------------------------------------------------------------------------
(***************************************************************************)
(* What is true of a request wherever it stands, whatever the others do:   *)
(* only reads are anonymous, who is about to update may write, and what it *)
(* is about to write is a complete pull request that is not merged without *)
(* its commit.                                                             *)
(***************************************************************************)
ReadyToWrite(r) ==
  /\ r.state \in PullRequestState
  /\ r.sha \in Shas \cup {Null}
  /\ r.state = "merged" => r.sha # Null

WellFormed(r) ==
  /\ r \in Request
  /\ r.step # "idle" /\ r.op # "read" => r.actor \in Users
  /\ r.step \in {"next_number", "create_insert"} => r.op = "create"
  /\ r.step = "create_insert" => r.number # 0
  /\ r.step \in {"review_find", "review_insert"} => r.op = "review"
  /\ r.step \in {"update_find", "update_row"} => MayWrite(r.actor)
  /\ r.step = "update_row" => ReadyToWrite(r)

RequestsWellFormed == \A p \in Requests : WellFormed(req[p])

Types == TypeOK /\ NumbersHaveMax /\ RequestsWellFormed

(***************************************************************************)
(* What a step of a request does, arrival and failure included.  To the    *)
(* request: it stays well formed, remembers the incarnation it saw before, *)
(* the present one or none, and is about to insert only with a number just *)
(* read.                                                                   *)
(***************************************************************************)
Becoming(p, record) ==
  /\ WellFormed(record)
  /\ record.seen \in {0, req[p].seen, repo}
  /\ record.step = "create_insert" =>
       record.number = NextNumber /\ UNCHANGED <<pulls, stale>>

Moves(p) ==
  /\ UNCHANGED <<repo, made>>
  /\ started' \in Nat
  /\ audit' \subseteq {Action(op) : op \in Operations}
  /\ \E record : Becomes(p, record) /\ Becoming(p, record)

(* To the tables: nothing, or one of these three statements.  A write by a *)
(* request that saw another incarnation marks this one as stale.           *)
Inserts(p) ==
  /\ At(p, "create_insert") /\ repo # 0
  /\ req[p].number \notin Numbers
  /\ pulls' = [k \in Numbers \cup {req[p].number} |->
                 IF k = req[p].number
                   THEN [author |-> req[p].actor, state |-> "open",
                         sha |-> Null]
                   ELSE pulls[k]]
  /\ reviews' = reviews
  /\ Touch(p)

Updates(p) ==
  /\ At(p, "update_row") /\ req'[p] # req[p]
  /\ req[p].number \in Numbers
  /\ pulls' = [pulls EXCEPT ![req[p].number] =
                 [author |-> pulls[req[p].number].author,
                  state |-> req[p].state, sha |-> req[p].sha]]
  /\ reviews' = reviews
  /\ Touch(p)

Reviews(p) ==
  /\ At(p, "review_insert")
  /\ req[p].number \in Numbers
  /\ reviews' = reviews \cup {<<req[p].number, req[p].actor>>}
  /\ pulls' = pulls
  /\ Touch(p)

Writes(p) == TablesUnchanged \/ Inserts(p) \/ Updates(p) \/ Reviews(p)
-----------------------------------------------------------------------------
(* The record of a slot without a request.                                 *)
LEMMA IdleWellFormed == WellFormed(Idle)
  BY DEF WellFormed, Idle, Request, Steps, Operations, Actors, PullRequestState

(* A request that moves on keeps everything but its step.                  *)
LEMMA StepOf ==
  ASSUME Types, NEW p \in Requests, NEW step \in Steps
  PROVE  LET record == [req[p] EXCEPT !.step = step]
         IN  /\ record \in Request /\ record.step = step
             /\ record.op = req[p].op /\ record.actor = req[p].actor
             /\ record.number = req[p].number /\ record.seen = req[p].seen
             /\ record.state = req[p].state /\ record.sha = req[p].sha
  BY DEF Types, TypeOK, Request

(* An answered request is forgotten.                                       *)
LEMMA AnswerMoves ==
  ASSUME Types, NEW p \in Requests, Answer(p), UNCHANGED <<repo, made>>,
         started' \in Nat, audit' \subseteq {Action(op) : op \in Operations}
  PROVE  Moves(p)
<1>1. Idle.seen = 0 /\ Idle.step = "idle"
  BY DEF Idle
<1> HIDE DEF Idle
<1> QED BY <1>1, IdleWellFormed DEF Answer, Moves, Becoming

(* A request that goes on to a statement needs what WellFormed says of it. *)
LEMMA GoToMoves ==
  ASSUME Types, NEW p \in Requests, NEW step \in Steps, GoTo(p, step),
         UNCHANGED <<repo, made, audit, started>>, ~At(p, "idle"),
         step \in {"update_find", "update_refind", "review_insert", "audit"},
         step = "update_find" => MayWrite(req[p].actor),
         step = "review_insert" => req[p].op = "review"
  PROVE  Moves(p)
<1> DEFINE record == [req[p] EXCEPT !.step = step]
<1>1. /\ record \in Request /\ record.step = step
      /\ record.op = req[p].op /\ record.actor = req[p].actor
      /\ record.number = req[p].number /\ record.seen = req[p].seen
  BY StepOf
<1>2. Becomes(p, record)
  BY DEF GoTo
<1> HIDE DEF record
<1>3. req[p].op # "read" => req[p].actor \in Users
  BY DEF Types, RequestsWellFormed, WellFormed, At
<1>4. WellFormed(record)
  BY <1>1, <1>3 DEF WellFormed
<1>5. started' \in Nat /\ audit' \subseteq {Action(op) : op \in Operations}
  BY DEF Types, TypeOK
<1> QED BY <1>1, <1>2, <1>4, <1>5 DEF Moves, Becoming

(* requireVisibleRepository sends a request to the first statement of its  *)
(* handler, and notes which incarnation it saw.                            *)
LEMMA VisibleMoves ==
  ASSUME Types, NEW p \in Requests, Visible(p)
  PROVE  Moves(p)
<1> DEFINE step == FirstStep(req[p].op)
           record == [req[p] EXCEPT !.seen = repo, !.step = step]
<1>1. /\ step \in {"next_number", "writable", "review_find", "read_pulls"}
      /\ step = "next_number" => req[p].op = "create"
      /\ step = "review_find" => req[p].op = "review"
  BY DEF FirstStep
<1>2. UNCHANGED <<repo, made, audit, started>>
  BY DEF Visible, OnlyRequests, RepoUnchanged
<1>3. started' \in Nat /\ audit' \subseteq {Action(op) : op \in Operations}
  BY <1>2 DEF Types, TypeOK
<1>4. CASE Answer(p)
  BY <1>2, <1>3, <1>4, AnswerMoves
<1>5. CASE Becomes(p, record)
  <2> HIDE DEF step
  <2>1. /\ record \in Request /\ record.step = step /\ record.seen = repo
        /\ record.op = req[p].op /\ record.actor = req[p].actor
    BY <1>1 DEF Types, TypeOK, Request, Steps
  <2> HIDE DEF record
  <2>2. req[p].op # "read" => req[p].actor \in Users
    BY DEF Types, RequestsWellFormed, WellFormed, Visible, At
  <2>3. WellFormed(record)
    BY <1>1, <2>1, <2>2 DEF WellFormed
  <2> QED BY <1>1, <1>2, <1>3, <1>5, <2>1, <2>3 DEF Moves, Becoming
<1> QED BY <1>4, <1>5 DEF Visible

(* nextNumber returns a positive number.                                   *)
LEMMA ReadNextNumberMoves ==
  ASSUME Types, NEW p \in Requests, ReadNextNumber(p)
  PROVE  Moves(p)
<1> DEFINE record == [req[p] EXCEPT !.number = NextNumber,
                                    !.step = "create_insert"]
<1>1. NextNumber \in Nat \ {0}
  BY NextNumberIsNext DEF Types, TypeOK
<1>2. /\ record \in Request /\ record.step = "create_insert"
      /\ record.seen = req[p].seen /\ record.number = NextNumber
      /\ record.op = req[p].op /\ record.actor = req[p].actor
  BY <1>1 DEF Types, TypeOK, Request, Steps
<1>3. UNCHANGED <<repo, made, audit, started, pulls, stale>>
      /\ Becomes(p, record)
  BY DEF ReadNextNumber, OnlyRequests, RepoUnchanged, TablesUnchanged
<1> HIDE DEF record
<1>4. req[p].op = "create" /\ req[p].actor \in Users
  BY DEF Types, RequestsWellFormed, WellFormed, ReadNextNumber, At
<1>5. WellFormed(record)
  BY <1>1, <1>2, <1>4 DEF WellFormed
<1>6. started' \in Nat /\ audit' \subseteq {Action(op) : op \in Operations}
  BY <1>3 DEF Types, TypeOK
<1> QED BY <1>2, <1>3, <1>5, <1>6 DEF Moves, Becoming

(* The copy an update has read supplies what its request left out; a merge *)
(* without a commit has been refused when it goes on to write.             *)
LEMMA UpdateFindMoves ==
  ASSUME Types, NEW p \in Requests, UpdateFind(p)
  PROVE  Moves(p)
<1> DEFINE n == req[p].number
           record == [Wanted(p) EXCEPT !.step = "update_row"]
<1>1. UNCHANGED <<repo, made, audit, started>>
  BY DEF UpdateFind, OnlyRequests, RepoUnchanged
<1>2. started' \in Nat /\ audit' \subseteq {Action(op) : op \in Operations}
  BY <1>1 DEF Types, TypeOK
<1>3. CASE Answer(p)
  BY <1>1, <1>2, <1>3, AnswerMoves
<1>4. CASE n \in Numbers /\ ~NeedsSha(Wanted(p)) /\ Becomes(p, record)
  <2>1. pulls[n].state \in PullRequestState /\ pulls[n].sha \in Shas \cup {Null}
    BY <1>4 DEF Types, TypeOK, PullRequest
  <2>2. /\ Wanted(p) \in Request /\ Wanted(p).seen = req[p].seen
        /\ Wanted(p).op = req[p].op /\ Wanted(p).actor = req[p].actor
        /\ Wanted(p).state \in PullRequestState
        /\ Wanted(p).sha \in Shas \cup {Null}
    BY <2>1 DEF Types, TypeOK, Request, Wanted
  <2> DEFINE wanted == Wanted(p)
  <2> HIDE DEF wanted
  <2>3. wanted = Wanted(p)
    BY DEF wanted
  <2>4. record = [wanted EXCEPT !.step = "update_row"]
    BY <2>3
  <2> HIDE DEF record
  <2>5. /\ record \in Request /\ record.step = "update_row"
        /\ record.seen = wanted.seen /\ record.op = wanted.op
        /\ record.actor = wanted.actor
        /\ record.state = wanted.state /\ record.sha = wanted.sha
    BY <2>2, <2>3, <2>4 DEF Request, Steps
  <2>6. ReadyToWrite(record)
    BY <1>4, <2>2, <2>3, <2>5 DEF NeedsSha, ReadyToWrite
  <2>7. /\ MayWrite(req[p].actor)
        /\ req[p].op # "read" => req[p].actor \in Users
    BY DEF Types, RequestsWellFormed, WellFormed, UpdateFind, At
  <2>8. WellFormed(record)
    BY <2>2, <2>3, <2>5, <2>6, <2>7 DEF WellFormed
  <2> QED BY <1>1, <1>2, <1>4, <2>2, <2>3, <2>5, <2>8 DEF Moves, Becoming
<1> QED BY <1>3, <1>4 DEF UpdateFind

(* Every step of a request is such a move.                                 *)
LEMMA ServeMoves ==
  ASSUME Types, NEW p \in Requests, Serve(p) \/ Fail(p)
  PROVE  Moves(p)
<1> USE DEF RepoUnchanged, OnlyRequests
<1>0. started \in Nat /\ audit \subseteq {Action(op) : op \in Operations}
      /\ Action(req[p].op) \in {Action(op) : op \in Operations}
  BY DEF Types, TypeOK, Request
<1>1. CASE ReadPulls(p) \/ Fail(p)
  BY <1>0, <1>1, AnswerMoves DEF ReadPulls, Fail
<1>2. CASE CreateInsert(p)
  BY <1>0, <1>2, AnswerMoves, GoToMoves DEF CreateInsert, Steps, At
<1>3. CASE Writable(p)
  BY <1>0, <1>3, AnswerMoves, GoToMoves DEF Writable, Steps, At
<1>4. CASE UpdateRow(p)
  BY <1>0, <1>4, GoToMoves DEF UpdateRow, Steps, At
<1>5. CASE UpdateRefind(p)
  BY <1>0, <1>5, AnswerMoves, GoToMoves DEF UpdateRefind, Steps, At
<1>6. CASE ReviewFind(p)
  <2>1. req[p].op = "review"
    BY <1>6 DEF Types, RequestsWellFormed, WellFormed, ReviewFind, At
  <2> QED
    BY <1>0, <1>6, <2>1, AnswerMoves, GoToMoves DEF ReviewFind, Steps, At
<1>7. CASE ReviewInsert(p)
  BY <1>0, <1>7, AnswerMoves, GoToMoves DEF ReviewInsert, Steps, At
<1>8. CASE Audit(p)
  BY <1>0, <1>8, AnswerMoves DEF Audit
<1> QED
  BY <1>1, <1>2, <1>3, <1>4, <1>5, <1>6, <1>7, <1>8, VisibleMoves,
     ReadNextNumberMoves, UpdateFindMoves DEF Serve, Create, Update, Review

(* The arrival of a request is one too, and leaves the tables alone.       *)
LEMMA StartMoves ==
  ASSUME Types, NEW p \in Requests, NEW op \in Operations, NEW u \in Actors,
         NEW n \in 0..MaxNumber,
         NEW state \in PullRequestState \cup {"undefined"},
         NEW sha \in Shas \cup {Null, Undefined},
         Start(p, op, u, n, state, sha)
  PROVE  Moves(p) /\ Writes(p)
<1> DEFINE record == [step |-> "visible", op |-> op, actor |-> u,
                      number |-> n, seen |-> 0, state |-> state, sha |-> sha]
<1>1. n \in Nat
  BY PullRequestsAssumption
<1>2. /\ record \in Request /\ record.step = "visible" /\ record.seen = 0
      /\ record.op = op /\ record.actor = u
  BY <1>1 DEF Request, Steps
<1>3. Becomes(p, record)
  BY DEF Start
<1> HIDE DEF record
<1>4. op # "read" => u \in Users
  BY DEF Start, Actors
<1>5. WellFormed(record)
  BY <1>2, <1>4 DEF WellFormed
<1>6. UNCHANGED <<repo, made, audit>> /\ TablesUnchanged
  BY DEF Start, RepoUnchanged
<1>7. started' \in Nat /\ audit' \subseteq {Action(o) : o \in Operations}
  BY <1>6 DEF Start, Types, TypeOK
<1> QED BY <1>2, <1>3, <1>5, <1>6, <1>7 DEF Moves, Becoming, Writes

(* The tables change only by one of the three statements.                  *)
LEMMA ServeWrites ==
  ASSUME Types, NEW p \in Requests, Serve(p) \/ Fail(p)
  PROVE  Writes(p)
<1> USE DEF OnlyRequests, TablesUnchanged
<1>1. CASE CreateInsert(p)
  BY <1>1 DEF CreateInsert, Inserts, Writes
<1>2. CASE UpdateRow(p)
  <2>1. req'[p] # req[p]
    BY <1>2 DEF UpdateRow, GoTo, Becomes, Types, TypeOK, Request, At
  <2> QED BY <1>2, <2>1 DEF UpdateRow, Updates, Writes
<1>3. CASE ReviewInsert(p)
  BY <1>3 DEF ReviewInsert, Reviews, Writes
<1> QED
  BY <1>1, <1>2, <1>3 DEF Serve, Create, Update, Review, Fail, Visible,
     ReadPulls, ReadNextNumber, Writable, UpdateFind, UpdateRefind,
     ReviewFind, Audit, Writes
-----------------------------------------------------------------------------
(* The other requests stay as they were.                                   *)
LEMMA MovesRequests ==
  ASSUME Types, NEW p \in Requests, Moves(p)
  PROVE  /\ req' \in [Requests -> Request]
         /\ RequestsWellFormed'
<1>1. PICK record : Becomes(p, record) /\ Becoming(p, record)
  BY DEF Moves
<1>2. record \in Request /\ WellFormed(record)
  BY <1>1 DEF Becoming, WellFormed
<1>3. req' \in [Requests -> Request]
      /\ \A q \in Requests : req'[q] = IF q = p THEN record ELSE req[q]
  BY <1>1, <1>2 DEF Becomes, Types, TypeOK
<1>4. \A q \in Requests : WellFormed(req'[q])
  BY <1>2, <1>3 DEF Types, RequestsWellFormed
<1> QED
  BY <1>3, <1>4 DEF RequestsWellFormed, WellFormed, ReadyToWrite, MayWrite

(* The table after an INSERT.                                              *)
LEMMA InsertTable ==
  ASSUME Types, NEW p \in Requests, Inserts(p)
  PROVE  /\ req[p].number \in Nat \ {0} /\ req[p].actor \in Users
         /\ Numbers' = Numbers \cup {req[p].number}
         /\ \A k \in Numbers : pulls'[k] = pulls[k]
         /\ pulls'[req[p].number] =
              [author |-> req[p].actor, state |-> "open", sha |-> Null]
         /\ pulls' \in [Numbers' -> PullRequest]
<1>1. req[p].number \in Nat \ {0} /\ req[p].actor \in Users
  BY DEF Types, TypeOK, Request, RequestsWellFormed, WellFormed, Inserts, At
<1>2. [author |-> req[p].actor, state |-> "open", sha |-> Null] \in PullRequest
  BY <1>1 DEF PullRequest, PullRequestState
<1>3. \A k \in Numbers : pulls[k] \in PullRequest
  BY DEF Types, TypeOK
<1> QED BY <1>1, <1>2, <1>3 DEF Inserts, Numbers

(* The table after an UPDATE.                                              *)
LEMMA UpdateTable ==
  ASSUME Types, NEW p \in Requests, Updates(p)
  PROVE  /\ ReadyToWrite(req[p]) /\ MayWrite(req[p].actor)
         /\ Numbers' = Numbers
         /\ \A k \in Numbers : pulls'[k].author = pulls[k].author
         /\ \A k \in Numbers \ {req[p].number} : pulls'[k] = pulls[k]
         /\ pulls'[req[p].number].state = req[p].state
         /\ pulls'[req[p].number].sha = req[p].sha
         /\ pulls' \in [Numbers' -> PullRequest]
<1> DEFINE n == req[p].number
           row == [author |-> pulls[n].author, state |-> req[p].state,
                   sha |-> req[p].sha]
<1>1. ReadyToWrite(req[p]) /\ MayWrite(req[p].actor)
  BY DEF Types, RequestsWellFormed, WellFormed, Updates, At
<1>2. row \in PullRequest
  BY <1>1 DEF Updates, ReadyToWrite, Types, TypeOK, PullRequest
<1>3. pulls' = [pulls EXCEPT ![n] = row] /\ n \in Numbers
  BY DEF Updates
<1> QED BY <1>1, <1>2, <1>3 DEF Types, TypeOK, Numbers

(* An INSERT of a number keeps a largest one.                              *)
LEMMA InsertHasMax ==
  ASSUME Types, NEW n \in Nat, Numbers' = Numbers \cup {n}
  PROVE  NumbersHaveMax'
<1>1. PICK m \in Numbers \cup {0} : \A k \in Numbers : k <= m
  BY DEF Types, NumbersHaveMax
<1>2. m \in Nat /\ \A k \in Numbers : k \in Nat
  BY DEF Types, TypeOK
<1>3. CASE n <= m
  BY <1>1, <1>3 DEF NumbersHaveMax
<1>4. CASE m < n
  <2>1. \A k \in Numbers \cup {n} : k <= n
    BY <1>1, <1>2, <1>4
  <2> QED BY <2>1 DEF NumbersHaveMax
<1> QED BY <1>2, <1>3, <1>4

(* Every move of a request keeps the types.                                *)
LEMMA MovesTypes ==
  ASSUME Types, NEW p \in Requests, Moves(p), Writes(p)
  PROVE  Types'
<1>1. /\ repo' \in Nat /\ made' \in Nat /\ started' \in Nat
      /\ audit' \subseteq {Action(op) : op \in Operations}
      /\ req' \in [Requests -> Request] /\ RequestsWellFormed'
  BY MovesRequests DEF Moves, Types, TypeOK
<1>2. Touch(p) => stale' \subseteq Nat
  BY DEF Touch, Types, TypeOK
<1>3. CASE TablesUnchanged
  BY <1>1, <1>3 DEF TablesUnchanged, Types, TypeOK, NumbersHaveMax, Numbers
<1>4. CASE Inserts(p)
  <2>1. NumbersHaveMax'
    BY <1>4, InsertTable, InsertHasMax
  <2> QED
    BY <1>1, <1>2, <1>4, <2>1, InsertTable DEF Inserts, Types, TypeOK
<1>5. CASE Updates(p)
  BY <1>1, <1>2, <1>5, UpdateTable
     DEF Updates, Types, TypeOK, NumbersHaveMax
<1>6. CASE Reviews(p)
  <2>1. req[p].actor \in Users /\ req[p].number \in Nat
    BY <1>6 DEF Types, TypeOK, RequestsWellFormed, WellFormed, Request,
                Reviews, At
  <2>2. reviews' \subseteq Nat \X Users
    BY <1>6, <2>1 DEF Reviews, Types, TypeOK
  <2> QED
    BY <1>1, <1>2, <1>6, <2>2
       DEF Reviews, Types, TypeOK, NumbersHaveMax, Numbers
<1> QED BY <1>3, <1>4, <1>5, <1>6 DEF Writes

(* Creating and deleting the repository keep the types.                    *)
LEMMA RepositoryTypes ==
  ASSUME Types, CreateRepository \/ DeleteRepository
  PROVE  Types'
<1>1. RequestsWellFormed'
  BY DEF CreateRepository, DeleteRepository, Types, RequestsWellFormed,
         WellFormed, ReadyToWrite, MayWrite
<1>2. CASE CreateRepository
  BY <1>1, <1>2 DEF CreateRepository, Types, TypeOK, NumbersHaveMax, Numbers,
                    TablesUnchanged
<1>3. CASE DeleteRepository
  <2>1. Numbers' = {} /\ pulls' \in [{} -> PullRequest]
    BY <1>3 DEF DeleteRepository, Numbers
  <2>2. NumbersHaveMax'
    BY <2>1 DEF NumbersHaveMax
  <2> QED BY <1>1, <1>3, <2>1, <2>2 DEF DeleteRepository, Types, TypeOK
<1> QED BY <1>2, <1>3

(* The type invariant and what it rests on hold in every state.            *)
LEMMA TypesInvariant == Spec => []Types
<1>1. Init => Types
  <2> SUFFICES ASSUME Init PROVE Types
    OBVIOUS
  <2>1. Numbers = {} /\ pulls \in [{} -> PullRequest]
    BY DEF Init, Numbers
  <2>2. NumbersHaveMax
    BY <2>1 DEF NumbersHaveMax
  <2>3. req \in [Requests -> Request] /\ RequestsWellFormed
    BY IdleWellFormed DEF Init, RequestsWellFormed, WellFormed
  <2> QED BY <2>1, <2>2, <2>3 DEF Init, Types, TypeOK
<1>2. Types /\ [Next]_vars => Types'
  <2> SUFFICES ASSUME Types, [Next]_vars PROVE Types'
    OBVIOUS
  <2>1. CASE UNCHANGED vars
    BY <2>1 DEF vars, Types, TypeOK, NumbersHaveMax, Numbers,
                RequestsWellFormed, WellFormed, ReadyToWrite, MayWrite
  <2>2. CASE Next
    BY <2>2, RepositoryTypes, StartMoves, ServeMoves, ServeWrites, MovesTypes
       DEF Next
  <2> QED BY <2>1, <2>2
<1> QED BY <1>1, <1>2, PTL DEF Spec

(* Every state has the types TypeOK gives: positive numbers, pull requests *)
(* and reviews of registered users, well-formed requests.                  *)
THEOREM Typing == Spec => []TypeOK
<1>1. Types => TypeOK
  BY DEF Types
<1> QED BY <1>1, TypesInvariant, PTL

(* A merged pull request names its merge commit: an update that is about   *)
(* to write was made complete from one copy, and it writes both fields, so *)
(* no overlap of two updates can leave the one without the other.          *)
THEOREM MergedHasShaAlways == Spec => []MergedHasSha
<1>1. Init => MergedHasSha
  BY DEF Init, MergedHasSha, Numbers
<1>2. Types /\ MergedHasSha /\ [Next]_vars => MergedHasSha'
  <2> SUFFICES ASSUME Types, MergedHasSha, [Next]_vars PROVE MergedHasSha'
    OBVIOUS
  <2>1. ASSUME NEW p \in Requests, Writes(p)
        PROVE  MergedHasSha'
    <3>1. CASE Inserts(p)
      <4>1. /\ Numbers' = Numbers \cup {req[p].number}
            /\ \A k \in Numbers : pulls'[k] = pulls[k]
            /\ pulls'[req[p].number] =
                 [author |-> req[p].actor, state |-> "open", sha |-> Null]
        BY <3>1, InsertTable
      <4>2. \A k \in Numbers' : k \in Numbers \/ pulls'[k].state = "open"
        BY <4>1
      <4> QED BY <4>1, <4>2 DEF MergedHasSha
    <3>2. CASE Updates(p)
      BY <3>2, UpdateTable DEF MergedHasSha, ReadyToWrite
    <3> QED
      BY <2>1, <3>1, <3>2
         DEF Writes, Reviews, TablesUnchanged, MergedHasSha, Numbers
  <2>2. CASE CreateRepository \/ DeleteRepository
    BY <2>2 DEF CreateRepository, DeleteRepository, TablesUnchanged,
                MergedHasSha, Numbers
  <2>3. CASE UNCHANGED vars
    BY <2>3 DEF vars, MergedHasSha, Numbers
  <2> QED BY <2>1, <2>2, <2>3, StartMoves, ServeWrites DEF Next
<1> QED BY <1>1, <1>2, TypesInvariant, PTL DEF Spec

(* A review always has its pull request: the INSERT finds it in the same   *)
(* statement, pull requests are never deleted alone, and the repository    *)
(* takes both with it.                                                     *)
THEOREM ReviewsHaveTargetAlways == Spec => []ReviewsHaveTarget
<1>1. Init => ReviewsHaveTarget
  BY DEF Init, ReviewsHaveTarget
<1>2. Types /\ ReviewsHaveTarget /\ [Next]_vars => ReviewsHaveTarget'
  <2> SUFFICES ASSUME Types, ReviewsHaveTarget, [Next]_vars
               PROVE  ReviewsHaveTarget'
    OBVIOUS
  <2>1. ASSUME NEW p \in Requests, Writes(p)
        PROVE  ReviewsHaveTarget'
    <3>1. CASE Inserts(p)
      BY <3>1, InsertTable DEF Inserts, ReviewsHaveTarget
    <3>2. CASE Updates(p)
      BY <3>2, UpdateTable DEF Updates, ReviewsHaveTarget
    <3>3. CASE Reviews(p)
      BY <3>3 DEF Reviews, ReviewsHaveTarget, Numbers
    <3> QED
      BY <2>1, <3>1, <3>2, <3>3
         DEF Writes, TablesUnchanged, ReviewsHaveTarget, Numbers
  <2>2. CASE CreateRepository \/ DeleteRepository
    BY <2>2 DEF CreateRepository, DeleteRepository, TablesUnchanged,
                ReviewsHaveTarget, Numbers
  <2>3. CASE UNCHANGED vars
    BY <2>3 DEF vars, ReviewsHaveTarget, Numbers
  <2> QED BY <2>1, <2>2, <2>3, StartMoves, ServeWrites DEF Next
<1> QED BY <1>1, <1>2, TypesInvariant, PTL DEF Spec

(* State and merge commit change only by an UPDATE of someone who may      *)
(* write: the permission was checked two statements earlier and does not   *)
(* change with the repository of that name.                                *)
THEOREM UpdateIsAuthorizedAlways == Spec => UpdateIsAuthorized
<1> DEFINE Step == \A n \in Numbers :
                     n \in Numbers' /\ pulls'[n] # pulls[n] =>
                       /\ pulls'[n].author = pulls[n].author
                       /\ \E p \in Requests : /\ At(p, "update_row")
                                              /\ req'[p] # req[p]
                                              /\ MayWrite(req[p].actor)
<1>1. Types /\ [Next]_vars => [Step]_vars
  <2> SUFFICES ASSUME Types, Next,
                      NEW n \in Numbers, n \in Numbers', pulls'[n] # pulls[n]
               PROVE  /\ pulls'[n].author = pulls[n].author
                      /\ \E p \in Requests : /\ At(p, "update_row")
                                             /\ req'[p] # req[p]
                                             /\ MayWrite(req[p].actor)
    BY DEF vars
  <2>1. ASSUME NEW p \in Requests, Writes(p)
        PROVE  /\ pulls'[n].author = pulls[n].author
               /\ \E q \in Requests : /\ At(q, "update_row")
                                      /\ req'[q] # req[q]
                                      /\ MayWrite(req[q].actor)
    <3>1. Updates(p)
      BY <2>1, InsertTable DEF Writes, TablesUnchanged, Reviews
    <3> QED BY <3>1, UpdateTable DEF Updates
  <2>2. ~CreateRepository /\ ~DeleteRepository
    BY DEF CreateRepository, DeleteRepository, TablesUnchanged, Numbers
  <2> QED BY <2>1, <2>2, StartMoves, ServeWrites DEF Next
<1> QED BY <1>1, TypesInvariant, PTL DEF Spec, UpdateIsAuthorized
-----------------------------------------------------------------------------
(***************************************************************************)
(* The inductive invariant behind the refinement:                          *)
(*   - incarnations only grow, so what saw an earlier one never equals the *)
(*     present one again, and without a repository there are no numbers,   *)
(*   - unless a stale request wrote, the numbers have no gaps, nor have    *)
(*     those below one that is about to be inserted.                       *)
(***************************************************************************)
Grows ==
  /\ repo <= made
  /\ \A p \in Requests : req[p].seen <= made
  /\ \A i \in stale : i <= made
  /\ repo = 0 => Numbers = {}

Dense(S) == \A n \in S : 1..n \subseteq S

NumberInv ==
  repo # 0 /\ repo \notin stale =>
    /\ Dense(Numbers)
    /\ \A p \in Requests :
         At(p, "create_insert") /\ req[p].seen = repo
           => 1..(req[p].number - 1) \subseteq Numbers

(* Without gaps, the numbers are those below the next one.                 *)
LEMMA DenseIsRange ==
  ASSUME Types, Dense(Numbers)
  PROVE  /\ NextNumber - 1 \in Nat
         /\ Numbers = 1..(NextNumber - 1)
<1>1. NextNumber \in Nat \ {0} /\ NextNumber - 1 \in Numbers \cup {0}
      /\ \A k \in Numbers : k \in Nat \ {0} /\ k < NextNumber
  BY NextNumberIsNext DEF Types, TypeOK
<1>2. NextNumber - 1 # 0 => 1..(NextNumber - 1) \subseteq Numbers
  BY <1>1 DEF Dense
<1> HIDE DEF NextNumber
<1>3. NextNumber - 1 \in Nat /\ \A k \in Numbers : k \in 1..(NextNumber - 1)
  BY <1>1
<1>4. NextNumber - 1 = 0 => 1..(NextNumber - 1) = {}
  OBVIOUS
<1> QED BY <1>2, <1>3, <1>4

(* Inserting the next number leaves no gap.                                *)
LEMMA DenseInsert ==
  ASSUME NEW S, Dense(S), NEW n \in Nat \ {0}, 1..(n - 1) \subseteq S
  PROVE  Dense(S \cup {n})
<1>1. 1..n \subseteq S \cup {n}
  <2> SUFFICES ASSUME NEW k \in 1..n, k # n PROVE k \in S
    OBVIOUS
  <2>1. k \in 1..(n - 1)
    OBVIOUS
  <2> QED BY <2>1
<1> QED BY <1>1 DEF Dense

(* What a write does to the numbers and to the mark of this incarnation.   *)
LEMMA WritesNumbers ==
  ASSUME Types, NEW p \in Requests, Writes(p)
  PROVE  /\ Inserts(p) \/ Numbers' = Numbers
         /\ Numbers \subseteq Numbers'
         /\ stale \subseteq stale' /\ stale' \subseteq stale \cup {repo}
         /\ Inserts(p) \/ Updates(p) \/ Reviews(p) =>
              repo \in stale' \/ req[p].seen = repo
  BY InsertTable, UpdateTable
     DEF Writes, Inserts, Updates, Reviews, TablesUnchanged, Touch, Numbers

(* Requests only write to a repository that exists.                        *)
LEMMA GrowsStep ==
  ASSUME Types, Grows, NEW p \in Requests, Moves(p), Writes(p)
  PROVE  Grows'
<1>1. PICK record : Becomes(p, record) /\ Becoming(p, record)
  BY DEF Moves
<1>2. repo' = repo /\ made' = made /\ repo \in Nat /\ made \in Nat
  BY DEF Moves, Types, TypeOK
<1>3. \A q \in Requests : req'[q].seen \in {0, repo, req[q].seen}
  BY <1>1 DEF Becomes, Becoming, Types, TypeOK
<1>4. \A q \in Requests : req'[q].seen <= made
  BY <1>2, <1>3 DEF Grows
<1>5. \A i \in stale' : i <= made
  BY WritesNumbers DEF Grows
<1>6. repo = 0 => Numbers' = {}
  BY WritesNumbers DEF Grows, Inserts
<1> QED BY <1>2, <1>4, <1>5, <1>6 DEF Grows

(* A step of a request leaves no gap in the numbers.                       *)
LEMMA NumberStep ==
  ASSUME Types, Grows, NumberInv, NEW p \in Requests, Moves(p), Writes(p)
  PROVE  NumberInv'
<1> SUFFICES ASSUME repo # 0, repo \notin stale'
             PROVE  /\ Dense(Numbers')
                    /\ \A q \in Requests :
                         At(q, "create_insert")' /\ req'[q].seen = repo
                           => 1..(req'[q].number - 1) \subseteq Numbers'
  BY DEF NumberInv, Moves, Dense
<1>1. repo \notin stale /\ Dense(Numbers)
  BY WritesNumbers DEF NumberInv
<1>2. Dense(Numbers') /\ Numbers \subseteq Numbers'
  <2>1. CASE Inserts(p)
    <3>1. req[p].seen = repo
      BY <2>1, WritesNumbers
    <3>2. 1..(req[p].number - 1) \subseteq Numbers
      BY <1>1, <2>1, <3>1 DEF Inserts, NumberInv
    <3>3. /\ req[p].number \in Nat \ {0}
          /\ Numbers' = Numbers \cup {req[p].number}
      BY <2>1, InsertTable
    <3> QED BY <1>1, <3>2, <3>3, DenseInsert
  <2>2. CASE ~Inserts(p)
    BY <1>1, <2>2, WritesNumbers
  <2> QED BY <2>1, <2>2
<1>3. PICK record : Becomes(p, record) /\ Becoming(p, record)
  BY DEF Moves
<1>4. ASSUME NEW q \in Requests, req'[q].step = "create_insert",
             req'[q].seen = repo
      PROVE  1..(req'[q].number - 1) \subseteq Numbers'
  <2>1. CASE q = p
    BY <1>1, <1>2, <1>3, <1>4, <2>1, DenseIsRange
       DEF Becomes, Becoming, Types, TypeOK
  <2>2. CASE q # p
    <3>1. req'[q] = req[q]
      BY <1>3, <2>2 DEF Becomes, Types, TypeOK
    <3> QED BY <1>1, <1>2, <1>4, <3>1 DEF NumberInv, At
  <2> QED BY <2>1, <2>2
<1> QED BY <1>2, <1>4 DEF At

(* Creating and deleting the repository keep the invariant: no request has *)
(* seen the new incarnation, and an absent one has no numbers.             *)
LEMMA RepositoryStep ==
  ASSUME Types, Grows, NumberInv, CreateRepository \/ DeleteRepository
  PROVE  (Grows /\ NumberInv)'
<1>0. repo \in Nat /\ made \in Nat /\ stale \subseteq Nat
      /\ \A p \in Requests : req[p].seen \in Nat
  BY DEF Types, TypeOK, Request
<1>1. CASE CreateRepository
  <2>1. /\ repo' = made + 1 /\ made' = made + 1 /\ stale' = stale
        /\ req' = req /\ Numbers = {} /\ Numbers' = {}
    BY <1>1 DEF CreateRepository, Grows, TablesUnchanged, Numbers
  <2>2. Grows'
    BY <1>0, <2>1 DEF Grows
  <2>3. \A p \in Requests : req[p].seen # repo'
    BY <1>0, <2>1 DEF Grows
  <2>4. NumberInv'
    BY <2>1, <2>3 DEF NumberInv, Dense
  <2> QED BY <2>2, <2>4
<1>2. CASE DeleteRepository
  <2>1. repo' = 0 /\ made' = made /\ stale' = stale /\ req' = req
        /\ Numbers' = {}
    BY <1>2 DEF DeleteRepository, Numbers
  <2> QED BY <1>0, <2>1 DEF Grows, NumberInv
<1> QED BY <1>1, <1>2

(* The inductive invariant: no gaps, and the numbers read for an INSERT    *)
(* within reach of the table.                                              *)
THEOREM Invariant == Spec => [](Grows /\ NumberInv)
<1>1. Init => Grows /\ NumberInv
  <2> SUFFICES ASSUME Init PROVE Grows /\ NumberInv
    OBVIOUS
  <2>1. repo = 0 /\ made = 0 /\ stale = {} /\ Numbers = {}
        /\ \A p \in Requests : req[p].seen = 0
    BY DEF Init, Numbers, Idle
  <2> QED BY <2>1 DEF Grows, NumberInv
<1>2. Types /\ Grows /\ NumberInv /\ [Next]_vars => (Grows /\ NumberInv)'
  <2> SUFFICES ASSUME Types, Grows, NumberInv, [Next]_vars
               PROVE  (Grows /\ NumberInv)'
    OBVIOUS
  <2>1. CASE UNCHANGED vars
    BY <2>1 DEF vars, Grows, NumberInv, Dense, Numbers, At
  <2> QED
    BY <2>1, RepositoryStep, StartMoves, ServeMoves, ServeWrites, GrowsStep,
       NumberStep DEF Next
<1> QED BY <1>1, <1>2, TypesInvariant, PTL DEF Spec
-----------------------------------------------------------------------------
(***************************************************************************)
(* The refinement: the pull requests are a numbered log.                   *)
(***************************************************************************)
(* SELECT MAX(number) + 1 when the numbers are 1..k.                       *)
LEMMA MaxOfRange ==
  ASSUME NEW S, NEW k \in Nat, S = 1..k
  PROVE  1 + (CHOOSE m \in S \cup {0} : \A j \in S : j <= m) = k + 1
<1> DEFINE max == CHOOSE m \in S \cup {0} : \A j \in S : j <= m
<1>1. \E m \in S \cup {0} : \A j \in S : j <= m
  <2>1. k \in S \cup {0} /\ \A j \in S : j <= k
    OBVIOUS
  <2> QED BY <2>1
<1>2. max \in S \cup {0} /\ \A j \in S : j <= max
  BY <1>1
<1> HIDE DEF max
<1>3. max = k
  BY <1>2
<1> QED BY <1>3 DEF max

(* The log of the pull requests 1..k.                                      *)
Authors(k) == [n \in 1..k |-> pulls[n].author]

(* The log of a repository with k pull requests without gaps ...           *)
LEMMA LogOfRange ==
  ASSUME NEW k \in Nat, Numbers = 1..k, repo \notin stale
  PROVE  AuthorLog = Authors(k)
<1>1. NextNumber = k + 1
  BY MaxOfRange DEF NextNumber
<1>2. NextNumber - 1 = k
  BY <1>1
<1> QED BY <1>2 DEF AuthorLog, Authors

(* ... before a step and after it.                                         *)
LEMMA LogOfRangeNext ==
  ASSUME NEW k \in Nat, Numbers' = 1..k, repo' \notin stale'
  PROVE  AuthorLog' = Authors(k)'
<1>1. NextNumber' = k + 1
  BY MaxOfRange DEF NextNumber
<1>2. (NextNumber - 1)' = k
  BY <1>1
<1> QED BY <1>2 DEF AuthorLog, Authors

(* Such a log is a sequence of registered users.                           *)
LEMMA AuthorsIsSeq ==
  ASSUME Types, NEW k \in Nat, Numbers = 1..k
  PROVE  Authors(k) \in Seq(Users) /\ Len(Authors(k)) = k
<1>1. \A n \in 1..k : pulls[n].author \in Users
  BY DEF Types, TypeOK, PullRequest
<1>2. Authors(k) \in [1..k -> Users]
  BY <1>1 DEF Authors
<1>3. Authors(k) \in Seq(Users) /\ DOMAIN Authors(k) = 1..k
  BY <1>2, SeqDef
<1>4. Len(Authors(k)) \in Nat /\ 1..Len(Authors(k)) = 1..k
  BY <1>3, LenProperties
<1> QED BY <1>3, <1>4

(* Without pull requests there is no log, stale or not.                    *)
LEMMA NoNumbersNoLog ==
  ASSUME Numbers' = {}
  PROVE  AuthorLog' = << >>
<1>1. CASE repo' \in stale'
  BY <1>1 DEF AuthorLog
<1>2. CASE repo' \notin stale'
  <2>1. 1..0 = {}
    OBVIOUS
  <2>2. AuthorLog' = Authors(0)'
    BY <1>2, <2>1, LogOfRangeNext
  <2>3. Authors(0)' \in [1..0 -> {}] /\ DOMAIN Authors(0)' = 1..0
    BY <2>1 DEF Authors
  <2>4. Authors(0)' \in Seq({})
    BY <2>3, SeqDef
  <2>5. Len(Authors(0)') = 0
    BY <2>1, <2>3, <2>4, LenProperties
  <2> QED BY <2>2, <2>4, <2>5, EmptySeq
<1> QED BY <1>1, <1>2

(* An INSERT that is not stale appends its author to the log.              *)
LEMMA InsertExtendsLog ==
  ASSUME Types, Grows, NumberInv, NEW p \in Requests, Inserts(p),
         repo' = repo, repo \notin stale'
  PROVE  req[p].actor \in Users /\ AuthorLog' = Append(AuthorLog, req[p].actor)
<1> DEFINE n == req[p].number
           longer(k) == Append(Authors(k), req[p].actor)
<1>1. /\ repo \notin stale /\ req[p].seen = repo /\ repo # 0
      /\ n \in Nat \ {0} /\ req[p].actor \in Users
  BY WritesNumbers, InsertTable DEF Inserts, Writes
<1>2. Dense(Numbers) /\ 1..(n - 1) \subseteq Numbers
  BY <1>1 DEF NumberInv, Inserts
<1>3. PICK k \in Nat : Numbers = 1..k
  BY <1>2, DenseIsRange
<1>4. n = k + 1
  <2>1. n \notin 1..k
    BY <1>3 DEF Inserts
  <2>2. n - 1 \in 1..k \/ n = 1
    BY <1>1, <1>2, <1>3
  <2> QED BY <1>1, <1>3, <2>1, <2>2
<1>5. Numbers' = 1..(k + 1)
  <2>1. Numbers' = 1..k \cup {k + 1}
    BY <1>3, <1>4, InsertTable
  <2> HIDE DEF n
  <2> QED BY <1>3, <2>1
<1>6. AuthorLog = Authors(k) /\ AuthorLog' = Authors(k + 1)'
  BY <1>1, <1>3, <1>5, LogOfRange, LogOfRangeNext
<1>7. Authors(k) \in Seq(Users) /\ Len(Authors(k)) = k
  BY <1>3, AuthorsIsSeq
<1>8. \A j \in 1..k : pulls'[j].author = Authors(k)[j]
  BY <1>3, InsertTable DEF Authors
<1>9. pulls'[k + 1] = [author |-> req[p].actor, state |-> "open",
                       sha |-> Null]
  BY <1>4, InsertTable
<1>10. /\ longer(k) \in Seq(Users) /\ Len(longer(k)) = k + 1
       /\ \A j \in 1..k : longer(k)[j] = Authors(k)[j]
       /\ longer(k)[k + 1] = req[p].actor
  BY <1>1, <1>7, AppendProperties
<1>11. longer(k) \in [1..(k + 1) -> Users]
  BY <1>10, LenProperties
<1> HIDE DEF longer
<1>12. \A j \in 1..(k + 1) : longer(k)[j] = pulls'[j].author
  <2>1. longer(k)[k + 1] = pulls'[k + 1].author
    BY <1>9, <1>10
  <2>2. \A j \in 1..k : longer(k)[j] = pulls'[j].author
    BY <1>8, <1>10
  <2>3. \A j \in 1..(k + 1) : j \in 1..k \/ j = k + 1
    BY <1>3
  <2> QED BY <2>1, <2>2, <2>3
<1>13. Authors(k + 1)' = longer(k)
  BY <1>11, <1>12 DEF Authors
<1> QED BY <1>1, <1>6, <1>13 DEF longer

(* A step that keeps the numbers and the authors keeps the log.            *)
LEMMA SameLog ==
  ASSUME Types, repo' = repo, repo \notin stale, repo \notin stale',
         Numbers' = Numbers, Dense(Numbers),
         \A j \in Numbers : pulls'[j].author = pulls[j].author
  PROVE  AuthorLog' = AuthorLog
<1>1. PICK k \in Nat : Numbers = 1..k
  BY DenseIsRange
<1>2. AuthorLog = Authors(k) /\ AuthorLog' = Authors(k)'
  BY <1>1, LogOfRange, LogOfRangeNext
<1>3. Authors(k)' = Authors(k)
  BY <1>1 DEF Authors
<1> QED BY <1>2, <1>3

(* Every step of a request appends to the log, clears it or leaves it.     *)
LEMMA StepKeepsLog ==
  ASSUME Types, Grows, NumberInv, NEW p \in Requests, Moves(p), Writes(p)
  PROVE  [Log!Next]_AuthorLog
<1>1. repo' = repo
  BY DEF Moves
<1>2. CASE repo \in stale'
  BY <1>1, <1>2 DEF AuthorLog, Log!Next, Log!Clear
<1>3. CASE repo \notin stale' /\ Inserts(p)
  <2>1. req[p].actor \in Users /\ AuthorLog' = Append(AuthorLog, req[p].actor)
    BY <1>1, <1>3, InsertExtendsLog
  <2> QED BY <2>1 DEF Log!Next, Log!Submit
<1>4. CASE repo \notin stale' /\ ~Inserts(p)
  <2>1. repo \notin stale /\ Numbers' = Numbers
    BY <1>4, WritesNumbers
  <2>2. Dense(Numbers)
    BY <2>1 DEF NumberInv, Grows, Dense
  <2>3. \A j \in Numbers : pulls'[j].author = pulls[j].author
    BY <1>4, UpdateTable DEF Writes, Reviews, TablesUnchanged
  <2> QED BY <1>1, <1>4, <2>1, <2>2, <2>3, SameLog
<1> QED BY <1>2, <1>3, <1>4

(* The pull requests of a repository implement the abstract numbered log:  *)
(* a creation appends exactly one item, updates and reviews leave it, and  *)
(* it disappears only with the repository or when a stale request spoils   *)
(* it.                                                                     *)
THEOREM LogImplemented == Spec => ImplementsLog
<1>1. Init => Log!Init
  <2> SUFFICES ASSUME Init PROVE AuthorLog = << >>
    BY DEF Log!Init
  <2>1. 1..0 = {}
    OBVIOUS
  <2>2. Numbers = 1..0 /\ repo \notin stale
    BY <2>1 DEF Init, Numbers
  <2>3. AuthorLog = Authors(0)
    BY <2>2, LogOfRange
  <2>4. Authors(0) \in [1..0 -> {}] /\ DOMAIN Authors(0) = 1..0
    BY <2>1 DEF Authors
  <2>5. Authors(0) \in Seq({})
    BY <2>4, SeqDef
  <2>6. Len(Authors(0)) = 0
    BY <2>1, <2>4, <2>5, LenProperties
  <2> QED BY <2>3, <2>5, <2>6, EmptySeq
<1>2. Types /\ Grows /\ NumberInv /\ [Next]_vars => [Log!Next]_AuthorLog
  <2> SUFFICES ASSUME Types, Grows, NumberInv, [Next]_vars
               PROVE  [Log!Next]_AuthorLog
    OBVIOUS
  <2>1. CASE CreateRepository \/ DeleteRepository
    <3>1. Numbers' = {}
      BY <2>1 DEF CreateRepository, DeleteRepository, TablesUnchanged, Numbers,
                  Grows
    <3> QED BY <3>1, NoNumbersNoLog DEF Log!Next, Log!Clear
  <2>2. CASE UNCHANGED vars
    BY <2>2 DEF vars, AuthorLog, NextNumber, Numbers
  <2> QED
    BY <2>1, <2>2, StartMoves, ServeMoves, ServeWrites, StepKeepsLog DEF Next
<1> QED BY <1>1, <1>2, TypesInvariant, Invariant, PTL
        DEF Spec, ImplementsLog, Log!Spec
=============================================================================
