--------------------------- MODULE Issues_proofs ---------------------------
(***************************************************************************)
(* Proofs about Issues, for every number of requests, users, issues and    *)
(* incarnations of the repository.                                         *)
(***************************************************************************)
EXTENDS Issues, SequenceTheorems, TLAPS

(* SELECT MAX always has something to return: the table is empty or one of *)
(* its numbers is the largest.                                             *)
NumbersHaveMax ==
  \E m \in Numbers \cup {0} : \A k \in Numbers : k <= m

(* SELECT MAX(number) + 1 is a free number above every used one.           *)
LEMMA NextNumberIsNext ==
  ASSUME TypeOK, NumbersHaveMax
  PROVE  /\ NextNumber \in Nat \ {0}
         /\ NextNumber - 1 \in Numbers \cup {0}
         /\ \A k \in Numbers : k < NextNumber
<1> DEFINE IsMax(m) == \A k \in Numbers : k <= m
           max == CHOOSE m \in Numbers \cup {0} : IsMax(m)
<1>1. max \in Numbers \cup {0} /\ IsMax(max)
  BY DEF NumbersHaveMax
<1>2. NextNumber = 1 + max
  BY DEF NextNumber
<1> HIDE DEF max
<1>3. max \in Nat /\ \A k \in Numbers : k \in Nat
  BY <1>1 DEF TypeOK
<1> QED BY <1>1, <1>2, <1>3
-----------------------------------------------------------------------------
(* What Becomes, GoTo and Answer leave behind.                             *)
LEMMA BecomesType ==
  ASSUME TypeOK, NEW p \in Requests, NEW record \in Request,
         Becomes(p, record)
  PROVE  req' \in [Requests -> Request]
  BY DEF TypeOK, Becomes

(* ... for a request that moves on.                                        *)
LEMMA GoToType ==
  ASSUME TypeOK, NEW p \in Requests, NEW step \in Steps, GoTo(p, step)
  PROVE  req' \in [Requests -> Request]
<1>1. [req[p] EXCEPT !.step = step] \in Request
  BY DEF TypeOK, Request
<1> QED BY <1>1, BecomesType DEF GoTo

(* The record of a slot without a request.                                 *)
LEMMA IdleType == Idle \in Request
  BY DEF Idle, Request, Steps, Operations, Actors, IssueState

(* ... for a request that is answered.                                     *)
LEMMA AnswerType ==
  ASSUME TypeOK, NEW p \in Requests, Answer(p)
  PROVE  req' \in [Requests -> Request]
  BY IdleType, BecomesType DEF Answer

(* Audit entries name an actor, a number and an incarnation.               *)
LEMMA EntryType ==
  ASSUME TypeOK, NEW p \in Requests,
         NEW action \in {"issue.create", "issue.update"}
  PROVE  Entry(action, p) \in AuditEntry
  BY DEF TypeOK, Entry, AuditEntry, Request

(***************************************************************************)
(* The types as an inductive invariant: besides TypeOK it needs the        *)
(* largest number, and that a request on its way to an INSERT belongs to a *)
(* user and has a number.                                                  *)
(***************************************************************************)
PendingType ==
  \A p \in Requests :
     /\ req[p].step # "idle" /\ req[p].op # "read" => req[p].actor \in Users
     /\ req[p].step \in {"next_number", "create_insert"}
          => req[p].op = "create"
     /\ At(p, "create_insert") => req[p].number # 0

Types == TypeOK /\ NumbersHaveMax /\ PendingType

(* A request changes only itself, and PendingType holds for what it        *)
(* becomes.                                                                *)
WellFormed(record) ==
  /\ record \in Request
  /\ record.step # "idle" /\ record.op # "read" => record.actor \in Users
  /\ record.step \in {"next_number", "create_insert"} => record.op = "create"
  /\ record.step = "create_insert" => record.number # 0

(* A request that stays well formed keeps the invariant on all of them.    *)
LEMMA BecomesWellFormed ==
  ASSUME TypeOK, PendingType, NEW p \in Requests, NEW record,
         WellFormed(record), Becomes(p, record)
  PROVE  req' \in [Requests -> Request] /\ PendingType'
<1>1. req' \in [Requests -> Request]
  BY BecomesType DEF WellFormed
<1>2. \A q \in Requests : req'[q] = IF q = p THEN record ELSE req[q]
  BY DEF Becomes, TypeOK
<1> QED BY <1>1, <1>2 DEF PendingType, WellFormed, At

(* ... for an answer.                                                      *)
LEMMA AnswerWellFormed ==
  ASSUME TypeOK, PendingType, NEW p \in Requests, Answer(p)
  PROVE  req' \in [Requests -> Request] /\ PendingType'
<1>1. WellFormed(Idle)
  BY IdleType DEF WellFormed, Idle
<1> QED BY <1>1, BecomesWellFormed DEF Answer

(* ... for a step to another statement.                                    *)
LEMMA GoToWellFormed ==
  ASSUME TypeOK, PendingType, NEW p \in Requests, ~At(p, "idle"),
         NEW step \in Steps \ {"next_number", "create_insert"},
         GoTo(p, step)
  PROVE  req' \in [Requests -> Request] /\ PendingType'
<1> DEFINE record == [req[p] EXCEPT !.step = step]
<1>1. /\ record \in Request
      /\ record.actor = req[p].actor
      /\ record.op = req[p].op
      /\ record.step = step
  BY DEF TypeOK, Request
<1>2. Becomes(p, record)
  BY DEF GoTo
<1> HIDE DEF record
<1>3. WellFormed(record)
  BY <1>1 DEF WellFormed, PendingType, At
<1> QED BY <1>2, <1>3, BecomesWellFormed

(* A request of the route handler arrives well formed.                     *)
LEMMA StartType ==
  ASSUME Types, NEW p \in Requests, NEW op \in Operations, NEW u \in Actors,
         NEW n \in 0..MaxIssues, NEW input \in IssueState \cup {"undefined"},
         Start(p, op, u, n, input)
  PROVE  Types'
<1> DEFINE arrived == [Idle EXCEPT !.step = "visible", !.op = op, !.actor = u,
                                   !.number = n, !.input = input]
<1>1. /\ arrived \in Request
      /\ arrived.step = "visible" /\ arrived.op = op /\ arrived.actor = u
  <2>1. n \in Nat
    BY IssuesAssumption
  <2> QED BY <2>1, IdleType DEF Request, Steps, Idle
<1>2. Becomes(p, arrived) /\ (u = Anonymous => op = "read")
  BY DEF Start
<1> HIDE DEF arrived
<1>3. WellFormed(arrived)
  BY <1>1, <1>2 DEF WellFormed, Actors
<1>4. req' \in [Requests -> Request] /\ PendingType'
  BY <1>2, <1>3, BecomesWellFormed DEF Types
<1> QED
  BY <1>4 DEF Start, Types, TypeOK, NumbersHaveMax, Numbers, DataUnchanged,
              RepoUnchanged, TableUnchanged, LogUnchanged

(* A step that leaves the tables alone keeps the types when its request    *)
(* stays well formed.                                                      *)
LEMMA RequestStepType ==
  ASSUME Types, OnlyRequests, req' \in [Requests -> Request], PendingType'
  PROVE  Types'
  BY DEF Types, TypeOK, NumbersHaveMax, Numbers, OnlyRequests, DataUnchanged,
         RepoUnchanged, TableUnchanged, LogUnchanged

(* auditService.record at the end of a create or an update.                *)
LEMMA AuditStepType ==
  ASSUME Types, NEW p \in Requests, CreateAudit(p) \/ UpdateAudit(p)
  PROVE  Types'
<1>1. /\ req' \in [Requests -> Request] /\ PendingType'
      /\ audit' \subseteq AuditEntry
  BY AnswerWellFormed, EntryType DEF Types, CreateAudit, UpdateAudit, TypeOK
<1> QED
  BY <1>1 DEF CreateAudit, UpdateAudit, Types, TypeOK, NumbersHaveMax,
              Numbers, RepoUnchanged, TableUnchanged

(* The table after an INSERT.                                              *)
LEMMA InsertTable ==
  ASSUME NEW p \in Requests, CreateInsert(p), repo # 0,
         req[p].number \notin Numbers
  PROVE  /\ Numbers' = Numbers \cup {req[p].number}
         /\ \A k \in Numbers : issues'[k] = issues[k]
         /\ issues' \in [Numbers' -> {issues'[k] : k \in Numbers'}]
         /\ issues'[req[p].number] = [author |-> req[p].actor,
                                      state |-> "open"]
  BY DEF CreateInsert, Numbers

(* The INSERT of createIssue keeps the types.                              *)
LEMMA InsertType ==
  ASSUME Types, NEW p \in Requests, CreateInsert(p)
  PROVE  Types'
<1> DEFINE n == req[p].number
<1>0. n \in Nat \ {0} /\ req[p].actor \in Users /\ repo \in Nat
  BY DEF Types, TypeOK, Request, PendingType, CreateInsert, At
<1>1. req' \in [Requests -> Request] /\ PendingType'
  BY AnswerWellFormed, GoToWellFormed DEF Types, CreateInsert, Steps, At
<1>2. CASE repo = 0 \/ n \in Numbers
  BY <1>1, <1>2 DEF CreateInsert, Types, TypeOK, NumbersHaveMax, Numbers,
                    RepoUnchanged, TableUnchanged, LogUnchanged
<1>3. CASE repo # 0 /\ n \notin Numbers
  <2>1. /\ Numbers' = Numbers \cup {n}
        /\ issues' \in [Numbers' -> Issue]
    <3>1. [author |-> req[p].actor, state |-> "open"] \in Issue
      BY <1>0 DEF Issue, IssueState
    <3>2. \A k \in Numbers : issues[k] \in Issue
      BY DEF Types, TypeOK
    <3> QED BY <1>3, <3>1, <3>2, InsertTable
  <2>2. NumbersHaveMax'
    <3>1. PICK m \in Numbers \cup {0} : \A k \in Numbers : k <= m
      BY DEF Types, NumbersHaveMax
    <3>2. m \in Nat /\ \A k \in Numbers : k \in Nat
      BY DEF Types, TypeOK
    <3>3. CASE n <= m
      BY <2>1, <3>1, <3>3 DEF NumbersHaveMax
    <3>4. CASE m < n
      <4>1. \A k \in Numbers \cup {n} : k <= n
        BY <1>0, <3>1, <3>2, <3>4
      <4> QED BY <2>1, <4>1 DEF NumbersHaveMax
    <3> QED BY <1>0, <3>2, <3>3, <3>4
  <2>3. /\ Numbers' \subseteq Nat \ {0}
        /\ stale' \subseteq Nat
    BY <1>0, <1>3, <2>1 DEF CreateInsert, Touch, Types, TypeOK
  <2> QED
    BY <1>1, <2>1, <2>2, <2>3 DEF CreateInsert, Types, TypeOK, RepoUnchanged,
                                  LogUnchanged
<1> QED BY <1>2, <1>3

(* The UPDATE of updateIssue keeps the types.                              *)
LEMMA UpdateRowType ==
  ASSUME Types, NEW p \in Requests, UpdateRow(p)
  PROVE  Types'
<1> DEFINE n == req[p].number
<1>0. NewState(p) \in IssueState /\ repo \in Nat
  BY DEF Types, TypeOK, Request, NewState
<1>1. req' \in [Requests -> Request] /\ PendingType'
  BY GoToWellFormed DEF Types, UpdateRow, Steps, At
<1>2. CASE n \notin Numbers
  BY <1>1, <1>2 DEF UpdateRow, Types, TypeOK, NumbersHaveMax, Numbers,
                    RepoUnchanged, TableUnchanged, LogUnchanged
<1>3. CASE n \in Numbers
  <2>1. Numbers' = Numbers /\ issues' \in [Numbers -> Issue]
    <3>1. [author |-> issues[n].author, state |-> NewState(p)] \in Issue
      BY <1>0, <1>3 DEF Types, TypeOK, Issue
    <3> QED BY <1>3, <3>1 DEF UpdateRow, Types, TypeOK, Numbers
  <2>2. stale' \subseteq Nat
    BY <1>0, <1>3 DEF UpdateRow, Touch, Types, TypeOK
  <2> QED
    BY <1>1, <2>1, <2>2 DEF UpdateRow, Types, TypeOK, NumbersHaveMax,
                            RepoUnchanged, LogUnchanged
<1> QED BY <1>2, <1>3

(* requireVisibleRepository keeps the types.                               *)
LEMMA VisibleType ==
  ASSUME Types, NEW p \in Requests, Visible(p)
  PROVE  Types'
<1> DEFINE step == CASE req[p].op = "create" -> "next_number"
                     [] req[p].op = "read" -> "read_issues"
                     [] OTHER -> "update_find"
           record == [req[p] EXCEPT !.seen = repo, !.step = step]
<1>1. /\ step \in {"next_number", "read_issues", "update_find"}
      /\ step = "next_number" => req[p].op = "create"
  OBVIOUS
<1>2. Answer(p) \/ Becomes(p, record)
  BY DEF Visible
<1> HIDE DEF step
<1>3. /\ record \in Request /\ record.step = step
      /\ record.op = req[p].op /\ record.actor = req[p].actor
  BY <1>1 DEF Types, TypeOK, Request, Steps
<1> HIDE DEF record
<1>4. WellFormed(record)
  BY <1>1, <1>3 DEF WellFormed, Types, PendingType, Visible, At
<1> QED
  BY <1>2, <1>4, AnswerWellFormed, BecomesWellFormed, RequestStepType
     DEF Types, Visible

(* nextNumber keeps the types: the number it returns is positive.          *)
LEMMA ReadNextNumberType ==
  ASSUME Types, NEW p \in Requests, ReadNextNumber(p)
  PROVE  Types'
<1> DEFINE record == [req[p] EXCEPT !.number = NextNumber,
                                    !.step = "create_insert"]
<1>1. NextNumber \in Nat \ {0}
  BY NextNumberIsNext DEF Types
<1>2. /\ record \in Request /\ record.step = "create_insert"
      /\ record.op = req[p].op /\ record.actor = req[p].actor
      /\ record.number = NextNumber
  BY <1>1 DEF Types, TypeOK, Request, Steps
<1>3. Becomes(p, record)
  BY DEF ReadNextNumber
<1> HIDE DEF record
<1>4. WellFormed(record)
  BY <1>1, <1>2 DEF WellFormed, Types, PendingType, ReadNextNumber, At
<1> QED
  BY <1>3, <1>4, BecomesWellFormed, RequestStepType DEF Types, ReadNextNumber

(* requireIssue keeps the types.                                           *)
LEMMA UpdateFindType ==
  ASSUME Types, NEW p \in Requests, UpdateFind(p)
  PROVE  Types'
<1> DEFINE n == req[p].number
           step == IF issues[n].author = req[p].actor
                     THEN "update_row" ELSE "update_writable"
           record == [req[p] EXCEPT !.current = issues[n].state,
                                    !.step = step]
<1>1. step \in {"update_row", "update_writable"}
  OBVIOUS
<1>2. Answer(p) \/ (n \in Numbers /\ Becomes(p, record))
  BY DEF UpdateFind
<1> HIDE DEF step
<1>3. CASE Answer(p)
  BY <1>3, AnswerWellFormed, RequestStepType DEF Types, UpdateFind
<1>4. CASE n \in Numbers /\ Becomes(p, record)
  <2>1. issues[n].state \in IssueState
    BY <1>4 DEF Types, TypeOK, Issue
  <2>2. /\ record \in Request /\ record.step = step
        /\ record.op = req[p].op /\ record.actor = req[p].actor
    BY <1>1, <2>1 DEF Types, TypeOK, Request, Steps
  <2> HIDE DEF record
  <2>3. WellFormed(record)
    BY <1>1, <2>2 DEF WellFormed, Types, PendingType, UpdateFind, At
  <2> QED BY <1>4, <2>3, BecomesWellFormed, RequestStepType
             DEF Types, UpdateFind
<1> QED BY <1>2, <1>3, <1>4

(* Every step of a request keeps the types.                                *)
LEMMA ServeType ==
  ASSUME Types, NEW p \in Requests, Serve(p)
  PROVE  Types'
<1>1. CASE ReadIssues(p)
  BY <1>1, AnswerWellFormed, RequestStepType DEF ReadIssues, Types
<1>2. CASE UpdateWritable(p)
  BY <1>2, AnswerWellFormed, GoToWellFormed, RequestStepType
     DEF UpdateWritable, Types, Steps, At
<1>3. CASE UpdateRefind(p)
  BY <1>3, AnswerWellFormed, GoToWellFormed, RequestStepType
     DEF UpdateRefind, Types, Steps, At
<1> QED
  BY <1>1, <1>2, <1>3, VisibleType, ReadNextNumberType, InsertType,
     AuditStepType, UpdateFindType, UpdateRowType DEF Serve, Create, Update

(* A failing request keeps the types.                                      *)
LEMMA FailType ==
  ASSUME Types, NEW p \in Requests, Fail(p)
  PROVE  Types'
<1>1. lost' \subseteq Nat
  BY DEF Fail, Types, TypeOK, Request
<1>2. req' \in [Requests -> Request] /\ PendingType'
  BY AnswerWellFormed DEF Fail, Types
<1> QED
  BY <1>1, <1>2 DEF Fail, Types, TypeOK, NumbersHaveMax, Numbers,
                    RepoUnchanged, TableUnchanged

(* Creating and deleting the repository keep the types.                    *)
LEMMA RepositoryType ==
  ASSUME Types, CreateRepository \/ DeleteRepository
  PROVE  Types'
<1>1. CASE CreateRepository
  BY <1>1 DEF CreateRepository, Types, TypeOK, NumbersHaveMax, PendingType,
              Numbers, At, TableUnchanged, LogUnchanged
<1>2. CASE DeleteRepository
  <2>1. Numbers' = {} /\ issues' \in [{} -> Issue]
    BY <1>2 DEF DeleteRepository, Numbers
  <2>2. NumbersHaveMax'
    BY <2>1 DEF NumbersHaveMax
  <2> QED
    BY <1>2, <2>1, <2>2 DEF DeleteRepository, Types, TypeOK, PendingType, At,
                            LogUnchanged
<1> QED BY <1>1, <1>2

(* The type invariant and what it rests on hold in every state.            *)
LEMMA TypesInvariant == Spec => []Types
<1>1. Init => Types
  <2> SUFFICES ASSUME Init PROVE Types
    OBVIOUS
  <2>1. Numbers = {} /\ issues \in [{} -> Issue]
    BY DEF Init, Numbers
  <2>2. NumbersHaveMax
    BY <2>1 DEF NumbersHaveMax
  <2>3. req \in [Requests -> Request] /\ PendingType
    BY IdleType DEF Init, PendingType, Idle, At
  <2> QED BY <2>1, <2>2, <2>3 DEF Init, Types, TypeOK
<1>2. Types /\ [Next]_vars => Types'
  <2> SUFFICES ASSUME Types, [Next]_vars PROVE Types'
    OBVIOUS
  <2>1. CASE UNCHANGED vars
    BY <2>1 DEF vars, Types, TypeOK, NumbersHaveMax, Numbers, PendingType, At
  <2>2. CASE Next
    BY <2>2, RepositoryType, StartType, ServeType, FailType DEF Next
  <2> QED BY <2>1, <2>2
<1> QED BY <1>1, <1>2, PTL DEF Spec

(* Every state has the types TypeOK gives: positive issue numbers, issues  *)
(* written by registered users, well-formed requests and audit entries.    *)
THEOREM Typing == Spec => []TypeOK
<1>1. Types => TypeOK
  BY DEF Types
<1> QED BY <1>1, TypesInvariant, PTL
-----------------------------------------------------------------------------
(***************************************************************************)
(* What the request of a step becomes.  It is about to insert only with a  *)
(* number just read, about to update only when its actor is the author or  *)
(* may write, and the incarnation it saw is the one it saw before, the     *)
(* present one or none.                                                    *)
(***************************************************************************)
Authorized(record) ==
  record.number \in Numbers =>
    \/ issues[record.number].author = record.actor
    \/ MayWrite(record.actor)

Becoming(p, record) ==
  /\ record.seen \in {0, req[p].seen, repo}
  /\ record.step = "create_insert" =>
       record.number = NextNumber /\ UNCHANGED <<issues, stale>>
  /\ record.step \in {"update_writable", "update_row"} =>
       /\ UNCHANGED <<issues, stale>>
       /\ \/ record.number \in Numbers
          \/ /\ At(p, "update_writable")
             /\ record.number = req[p].number
             /\ record.seen = req[p].seen
  /\ record.step = "update_row" => Authorized(record)

Moves(p) ==
  /\ UNCHANGED <<repo, made>>
  /\ \E record \in Request :
       /\ req' = [req EXCEPT ![p] = record]
       /\ Becoming(p, record)

(* An answered request holds no permission any more.                       *)
LEMMA AnswerMoves ==
  ASSUME NEW p \in Requests, Answer(p), UNCHANGED <<repo, made>>
  PROVE  Moves(p)
<1>1. Idle.seen = 0 /\ Idle.step = "idle"
  BY DEF Idle
<1> HIDE DEF Idle
<1> QED BY <1>1, IdleType DEF Answer, Becomes, Moves, Becoming

(* A request that moves on keeps its actor, number and repository.         *)
LEMMA GoToMoves ==
  ASSUME Types, NEW p \in Requests, UNCHANGED <<repo, made>>,
         NEW step \in Steps \ {"create_insert", "update_writable"},
         GoTo(p, step),
         step = "update_row" =>
           /\ At(p, "update_writable") /\ MayWrite(req[p].actor)
           /\ UNCHANGED <<issues, stale>>
  PROVE  Moves(p)
<1> DEFINE record == [req[p] EXCEPT !.step = step]
<1>1. /\ record \in Request /\ record.step = step
      /\ record.seen = req[p].seen /\ record.actor = req[p].actor
      /\ record.number = req[p].number
  BY DEF Types, TypeOK, Request
<1>2. req' = [req EXCEPT ![p] = record]
  BY DEF GoTo, Becomes
<1> HIDE DEF record
<1> QED BY <1>1, <1>2 DEF Moves, Becoming, Authorized

(* Every step of a request is such a move.                                 *)
LEMMA ServeMoves ==
  ASSUME Types, NEW p \in Requests, Serve(p) \/ Fail(p)
  PROVE  Moves(p)
<1> USE DEF RepoUnchanged
<1>1. CASE Visible(p)
  <2> DEFINE step == CASE req[p].op = "create" -> "next_number"
                       [] req[p].op = "read" -> "read_issues"
                       [] OTHER -> "update_find"
             record == [req[p] EXCEPT !.seen = repo, !.step = step]
  <2>1. step \in {"next_number", "read_issues", "update_find"}
    OBVIOUS
  <2>2. Answer(p) \/ req' = [req EXCEPT ![p] = record]
    BY <1>1 DEF Visible, Becomes
  <2> HIDE DEF step
  <2>3. record \in Request /\ record.step = step /\ record.seen = repo
    BY <2>1 DEF Types, TypeOK, Request, Steps
  <2> HIDE DEF record
  <2>4. UNCHANGED <<repo, made>>
    BY <1>1 DEF Visible, OnlyRequests, DataUnchanged
  <2>5. Becoming(p, record)
    BY <2>1, <2>3 DEF Becoming
  <2> QED BY <2>2, <2>3, <2>4, <2>5, AnswerMoves DEF Moves
<1>2. CASE ReadNextNumber(p)
  <2> DEFINE record == [req[p] EXCEPT !.number = NextNumber,
                                      !.step = "create_insert"]
  <2>1. NextNumber \in Nat
    BY NextNumberIsNext DEF Types
  <2>2. /\ record \in Request /\ record.step = "create_insert"
        /\ record.seen = req[p].seen /\ record.number = NextNumber
    BY <2>1 DEF Types, TypeOK, Request, Steps
  <2>3. req' = [req EXCEPT ![p] = record]
    BY <1>2 DEF ReadNextNumber, Becomes
  <2> HIDE DEF record
  <2>4. UNCHANGED <<repo, made, issues, stale>>
    BY <1>2 DEF ReadNextNumber, OnlyRequests, DataUnchanged, TableUnchanged
  <2>5. Becoming(p, record)
    BY <2>2, <2>4 DEF Becoming
  <2> QED BY <2>2, <2>3, <2>4, <2>5 DEF Moves
<1>3. CASE UpdateFind(p)
  <2> DEFINE n == req[p].number
             step == IF issues[n].author = req[p].actor
                       THEN "update_row" ELSE "update_writable"
             record == [req[p] EXCEPT !.current = issues[n].state,
                                      !.step = step]
  <2>1. /\ step \in {"update_row", "update_writable"}
        /\ step = "update_row" => issues[n].author = req[p].actor
    OBVIOUS
  <2>2. UNCHANGED <<repo, made, issues, stale>>
    BY <1>3 DEF UpdateFind, OnlyRequests, DataUnchanged, TableUnchanged
  <2>3. CASE Answer(p)
    BY <2>2, <2>3, AnswerMoves
  <2>4. CASE n \in Numbers /\ Becomes(p, record)
    <3> HIDE DEF step
    <3>1. issues[n].state \in IssueState
      BY <2>4 DEF Types, TypeOK, Issue
    <3>2. /\ record \in Request /\ record.step = step
          /\ record.seen = req[p].seen /\ record.number = n
          /\ record.actor = req[p].actor
      BY <2>1, <3>1 DEF Types, TypeOK, Request, Steps
    <3>3. req' = [req EXCEPT ![p] = record]
      BY <2>4 DEF Becomes
    <3> HIDE DEF record
    <3>4. Becoming(p, record)
      BY <2>1, <2>2, <2>4, <3>2 DEF Becoming, Authorized
    <3> QED BY <2>2, <3>2, <3>3, <3>4 DEF Moves
  <2> QED BY <1>3, <2>3, <2>4 DEF UpdateFind
<1>4. CASE UpdateWritable(p)
  BY <1>4, AnswerMoves, GoToMoves
     DEF UpdateWritable, OnlyRequests, DataUnchanged, TableUnchanged, Steps
<1>5. CASE CreateInsert(p)
  BY <1>5, AnswerMoves, GoToMoves DEF CreateInsert, Steps
<1>6. CASE UpdateRow(p)
  BY <1>6, GoToMoves DEF UpdateRow, Steps
<1>7. CASE UpdateRefind(p)
  BY <1>7, AnswerMoves, GoToMoves
     DEF UpdateRefind, OnlyRequests, DataUnchanged, Steps
<1>8. CASE ReadIssues(p)
  BY <1>8, AnswerMoves DEF ReadIssues, OnlyRequests, DataUnchanged
<1>9. CASE CreateAudit(p) \/ UpdateAudit(p) \/ Fail(p)
  BY <1>9, AnswerMoves DEF CreateAudit, UpdateAudit, Fail
<1> QED
  BY <1>1, <1>2, <1>3, <1>4, <1>5, <1>6, <1>7, <1>8, <1>9
     DEF Serve, Create, Update

(* What a step of a request does to the table: nothing, an INSERT of its   *)
(* number, or an UPDATE that leaves the authors alone.  A write by a       *)
(* request that saw another incarnation marks this one as stale.           *)
Inserts(p) ==
  /\ At(p, "create_insert") /\ repo # 0
  /\ Numbers' = Numbers \cup {req[p].number}
  /\ req[p].number \notin Numbers
  /\ \A k \in Numbers : issues'[k] = issues[k]
  /\ issues'[req[p].number].author = req[p].actor
  /\ Touch(p)

Updates(p) ==
  /\ At(p, "update_row") /\ Numbers' = Numbers
  /\ req'[p] # req[p]
  /\ \A k \in Numbers : issues'[k].author = issues[k].author
  /\ \A k \in Numbers \ {req[p].number} : issues'[k] = issues[k]
  /\ Touch(p)

(* The table changes only by one INSERT or one UPDATE.                     *)
LEMMA ServeWrites ==
  ASSUME Types, NEW p \in Requests, Serve(p) \/ Fail(p)
  PROVE  UNCHANGED <<issues, stale>> \/ Inserts(p) \/ Updates(p)
<1> USE DEF OnlyRequests, DataUnchanged, TableUnchanged
<1>1. CASE CreateInsert(p)
  BY <1>1, InsertTable DEF CreateInsert, Inserts
<1>2. CASE UpdateRow(p)
  <2>1. CASE req[p].number \in Numbers
    <3>1. issues' = [issues EXCEPT ![req[p].number] =
                       [author |-> issues[req[p].number].author,
                        state |-> NewState(p)]]
      BY <1>2, <2>1 DEF UpdateRow
    <3>2. req'[p] # req[p]
      BY <1>2 DEF UpdateRow, GoTo, Becomes, Types, TypeOK, Request, At
    <3> QED BY <1>2, <2>1, <3>1, <3>2 DEF UpdateRow, Updates, Numbers
  <2> QED BY <1>2, <2>1 DEF UpdateRow
<1> QED
  BY <1>1, <1>2 DEF Serve, Create, Update, Fail, Visible, ReadIssues,
     ReadNextNumber, CreateAudit, UpdateFind, UpdateWritable, UpdateRefind,
     UpdateAudit
-----------------------------------------------------------------------------
(***************************************************************************)
(* The inductive invariant behind NumbersDense and EditIsAuthorized:       *)
(*   - incarnations only grow, so what saw an earlier one never equals the *)
(*     present one again,                                                  *)
(*   - numbers are dense, and so are the numbers below one that is about   *)
(*     to be inserted,                                                     *)
(*   - the issue about to be updated is still there, and who is about to   *)
(*     update it is still authorized.                                      *)
(***************************************************************************)
Grows ==
  /\ repo <= made
  /\ \A p \in Requests : req[p].seen <= made
  /\ \A i \in stale : i <= made
  /\ repo = 0 => Numbers = {}

Dense(S) == \A n \in S : 1..n \subseteq S

NumberInv ==
  repo # 0 /\ repo \notin stale =>
    /\ Dense(Numbers)
    /\ \A p \in Requests :
         At(p, "create_insert") /\ req[p].seen = repo
           => 1..(req[p].number - 1) \subseteq Numbers

EditInv ==
  \A p \in Requests :
    /\ req[p].step \in {"update_writable", "update_row"}
    /\ repo # 0
    /\ req[p].seen = repo
    => /\ req[p].number \in Numbers
       /\ At(p, "update_row") => Authorized(req[p])

IssueInv == Grows /\ NumberInv /\ EditInv

(* Without gaps, the numbers are those below the next one.                 *)
LEMMA DenseBelowNext ==
  ASSUME Types, Dense(Numbers)
  PROVE  1..(NextNumber - 1) \subseteq Numbers
<1>1. NextNumber \in Nat \ {0} /\ NextNumber - 1 \in Numbers \cup {0}
  BY NextNumberIsNext DEF Types
<1>2. CASE NextNumber - 1 = 0
  BY <1>1, <1>2
<1>3. CASE NextNumber - 1 \in Numbers
  BY <1>3 DEF Dense
<1> QED BY <1>1, <1>2, <1>3

(* Inserting the next number leaves no gap.                                *)
LEMMA DenseInsert ==
  ASSUME NEW S, Dense(S), NEW n \in Nat \ {0}, 1..(n - 1) \subseteq S
  PROVE  Dense(S \cup {n})
<1>1. 1..n \subseteq S \cup {n}
  <2> SUFFICES ASSUME NEW k \in 1..n, k # n PROVE k \in S
    OBVIOUS
  <2>1. k \in 1..(n - 1)
    OBVIOUS
  <2> QED BY <2>1
<1> QED BY <1>1 DEF Dense

(* A step of a request keeps the bounds on incarnations.                   *)
LEMMA GrowsStep ==
  ASSUME Types, Grows, NEW p \in Requests, Moves(p),
         UNCHANGED <<issues, stale>> \/ Inserts(p) \/ Updates(p)
  PROVE  Grows'
<1>1. PICK record \in Request : /\ req' = [req EXCEPT ![p] = record]
                                /\ Becoming(p, record)
  BY DEF Moves
<1>2. repo' = repo /\ made' = made /\ repo \in Nat /\ made \in Nat
  BY DEF Moves, Types, TypeOK
<1>3. \A q \in Requests : req'[q].seen \in {0, repo, req[q].seen}
  BY <1>1 DEF Becoming, Types, TypeOK
<1>4. \A q \in Requests : req'[q].seen <= made
  BY <1>2, <1>3 DEF Grows
<1>5. \A i \in stale' : i <= made
  BY DEF Grows, Inserts, Updates, Touch
<1>6. repo = 0 => Numbers' = {}
  BY DEF Grows, Inserts, Updates, Numbers
<1> QED BY <1>2, <1>4, <1>5, <1>6 DEF Grows

(* A step of a request keeps the numbers without gaps.                     *)
LEMMA NumberStep ==
  ASSUME Types, Grows, NumberInv, NEW p \in Requests, Moves(p),
         UNCHANGED <<issues, stale>> \/ Inserts(p) \/ Updates(p)
  PROVE  NumberInv'
<1> SUFFICES ASSUME repo # 0, repo \notin stale'
             PROVE  /\ Dense(Numbers')
                    /\ \A q \in Requests :
                         At(q, "create_insert")' /\ req'[q].seen = repo
                           => 1..(req'[q].number - 1) \subseteq Numbers'
  BY DEF NumberInv, Moves, Dense
<1>1. repo \notin stale /\ Dense(Numbers)
  BY DEF NumberInv, Inserts, Updates, Touch
<1>2. Inserts(p) => req[p].seen = repo
  BY DEF Inserts, Touch
<1>3. Dense(Numbers') /\ Numbers \subseteq Numbers'
  <2>1. CASE Inserts(p)
    <3>1. req[p].number \in Nat \ {0}
      BY <2>1 DEF Types, TypeOK, PendingType, Request, Inserts
    <3>2. 1..(req[p].number - 1) \subseteq Numbers
      BY <1>1, <1>2, <2>1 DEF Inserts, NumberInv
    <3> QED BY <1>1, <2>1, <3>1, <3>2, DenseInsert DEF Inserts
  <2>2. CASE ~Inserts(p)
    BY <1>1, <2>2 DEF Updates, Numbers
  <2> QED BY <2>1, <2>2
<1>4. PICK record \in Request : /\ req' = [req EXCEPT ![p] = record]
                                /\ Becoming(p, record)
  BY DEF Moves
<1>5. ASSUME NEW q \in Requests, req'[q].step = "create_insert",
             req'[q].seen = repo
      PROVE  1..(req'[q].number - 1) \subseteq Numbers'
  <2>1. CASE q = p
    BY <1>1, <1>3, <1>4, <1>5, <2>1, DenseBelowNext
       DEF Becoming, Types, TypeOK
  <2>2. CASE q # p
    <3>1. req'[q] = req[q]
      BY <1>4, <2>2 DEF Types, TypeOK
    <3> QED BY <1>1, <1>3, <1>5, <3>1 DEF NumberInv, At
  <2> QED BY <2>1, <2>2
<1> QED BY <1>3, <1>5 DEF At

(* A step of a request keeps the permission of pending updates.            *)
LEMMA EditStep ==
  ASSUME Types, Grows, EditInv, NEW p \in Requests, Moves(p),
         UNCHANGED <<issues, stale>> \/ Inserts(p) \/ Updates(p)
  PROVE  EditInv'
<1> SUFFICES ASSUME NEW q \in Requests,
                    req'[q].step \in {"update_writable", "update_row"},
                    repo # 0, req'[q].seen = repo
             PROVE  /\ req'[q].number \in Numbers'
                    /\ req'[q].step = "update_row" =>
                         \/ issues'[req'[q].number].author = req'[q].actor
                         \/ MayWrite(req'[q].actor)
  BY DEF EditInv, Authorized, At, Moves, MayWrite
<1>1. PICK record \in Request : /\ req' = [req EXCEPT ![p] = record]
                                /\ Becoming(p, record)
  BY DEF Moves
<1>2. CASE q = p
  <2>1. req'[q] = record
    BY <1>1, <1>2 DEF Types, TypeOK
  <2>2. record.number \in Numbers /\ Numbers' = Numbers
    BY <1>1, <1>2, <2>1 DEF Becoming, EditInv, At, Numbers
  <2> QED BY <1>1, <2>1, <2>2 DEF Becoming, Authorized
<1>3. CASE q # p
  <2>1. req'[q] = req[q]
    BY <1>1, <1>3 DEF Types, TypeOK
  <2>2. /\ req[q].number \in Numbers
        /\ req[q].step = "update_row" => Authorized(req[q])
    BY <2>1 DEF EditInv, At
  <2>3. /\ req[q].number \in Numbers'
        /\ issues'[req[q].number].author = issues[req[q].number].author
    BY <2>2 DEF Inserts, Updates, Numbers
  <2> QED BY <2>1, <2>2, <2>3 DEF Authorized
<1> QED BY <1>2, <1>3

(* Creating and deleting the repository keep the invariant.                *)
LEMMA RepositoryStep ==
  ASSUME Types, IssueInv, CreateRepository \/ DeleteRepository
  PROVE  IssueInv'
<1>0. repo \in Nat /\ made \in Nat /\ stale \subseteq Nat
      /\ \A p \in Requests : req[p].seen \in Nat
  BY DEF Types, TypeOK, Request
<1>1. CASE CreateRepository
  <2>1. /\ repo' = made + 1 /\ made' = made + 1 /\ stale' = stale
        /\ req' = req /\ issues' = issues /\ Numbers = {} /\ Numbers' = {}
    BY <1>1 DEF CreateRepository, IssueInv, Grows, TableUnchanged, Numbers
  <2>2. Grows'
    BY <1>0, <2>1 DEF IssueInv, Grows
  <2>3. \A p \in Requests : req[p].seen # repo'
    BY <1>0, <2>1 DEF IssueInv, Grows
  <2>4. NumberInv'
    BY <2>1, <2>3 DEF NumberInv, Dense
  <2>5. EditInv'
    BY <2>1, <2>3 DEF EditInv
  <2> QED BY <2>2, <2>4, <2>5 DEF IssueInv
<1>2. CASE DeleteRepository
  <2>1. repo' = 0 /\ made' = made /\ stale' = stale /\ req' = req
        /\ Numbers' = {}
    BY <1>2 DEF DeleteRepository, Numbers
  <2> QED BY <1>0, <2>1 DEF IssueInv, Grows, NumberInv, EditInv
<1> QED BY <1>1, <1>2

(* The arrival of a request keeps the invariant.                           *)
LEMMA StartStep ==
  ASSUME Types, IssueInv, NEW p \in Requests, NEW op \in Operations,
         NEW u \in Actors, NEW n \in 0..MaxIssues,
         NEW input \in IssueState \cup {"undefined"},
         Start(p, op, u, n, input)
  PROVE  IssueInv'
<1> DEFINE arrived == [Idle EXCEPT !.step = "visible", !.op = op, !.actor = u,
                                   !.number = n, !.input = input]
<1>1. arrived \in Request /\ arrived.step = "visible" /\ arrived.seen = 0
  <2>1. n \in Nat
    BY IssuesAssumption
  <2> QED BY <2>1, IdleType DEF Request, Steps, Idle
<1>2. req' = [req EXCEPT ![p] = arrived]
  BY DEF Start, Becomes
<1>3. UNCHANGED <<repo, made, issues, stale>>
  BY DEF Start, DataUnchanged, RepoUnchanged, TableUnchanged
<1> HIDE DEF arrived
<1>4. Moves(p)
  BY <1>1, <1>2, <1>3 DEF Moves, Becoming
<1> QED
  BY <1>3, <1>4, GrowsStep, NumberStep, EditStep DEF IssueInv

(* The inductive invariant: no gaps, numbers read for an INSERT within     *)
(* reach of the table, pending updates authorized.                         *)
THEOREM Invariant == Spec => []IssueInv
<1>1. Init => IssueInv
  <2> SUFFICES ASSUME Init PROVE IssueInv
    OBVIOUS
  <2>1. repo = 0 /\ made = 0 /\ stale = {} /\ Numbers = {}
        /\ \A p \in Requests : req[p].seen = 0
    BY DEF Init, Numbers, Idle
  <2> QED BY <2>1 DEF IssueInv, Grows, NumberInv, EditInv
<1>2. Types /\ IssueInv /\ [Next]_vars => IssueInv'
  <2> SUFFICES ASSUME Types, IssueInv, [Next]_vars PROVE IssueInv'
    OBVIOUS
  <2>1. ASSUME NEW p \in Requests, Serve(p) \/ Fail(p)
        PROVE  IssueInv'
    BY <2>1, ServeMoves, ServeWrites, GrowsStep, NumberStep, EditStep
       DEF IssueInv
  <2>2. CASE UNCHANGED vars
    BY <2>2 DEF vars, IssueInv, Grows, NumberInv, EditInv, Dense, Numbers,
                At, Authorized, MayWrite
  <2> QED BY <2>1, <2>2, RepositoryStep, StartStep DEF Next
<1> QED BY <1>1, <1>2, TypesInvariant, PTL DEF Spec

(* However creations interleave and fail, issue numbers have no gaps,      *)
(* unless a request of an earlier repository of that name wrote to this    *)
(* one.                                                                    *)
THEOREM NumbersDenseAlways == Spec => []NumbersDense
<1>1. IssueInv => NumbersDense
  BY DEF IssueInv, Grows, NumberInv, Dense, NumbersDense
<1> QED BY <1>1, Invariant, PTL

(* An issue is edited only by its author or by someone who may write, and  *)
(* keeps its author, although the check and the UPDATE are two statements. *)
THEOREM EditIsAuthorizedAlways == Spec => EditIsAuthorized
<1> DEFINE Step == \A n \in Numbers :
                     Edited(n) /\ repo \notin stale' =>
                       /\ issues'[n].author = issues[n].author
                       /\ \E p \in Requests : ChangedBy(p, n)
<1>1. Types /\ IssueInv /\ [Next]_vars => [Step]_vars
  <2> SUFFICES ASSUME Types, IssueInv, Next, NEW n \in Numbers, Edited(n),
                      repo \notin stale'
               PROVE  /\ issues'[n].author = issues[n].author
                      /\ \E p \in Requests : ChangedBy(p, n)
    BY DEF vars, Edited, Numbers
  <2>1. ASSUME NEW p \in Requests, Serve(p) \/ Fail(p)
        PROVE  /\ issues'[n].author = issues[n].author
               /\ ChangedBy(p, n)
    <3>1. Updates(p) /\ req[p].number = n
      BY <2>1, ServeWrites DEF Edited, Inserts, Updates
    <3>2. req[p].seen = repo /\ repo # 0
      BY <3>1 DEF Updates, Touch, IssueInv, Grows
    <3>3. Authorized(req[p])
      BY <3>1, <3>2 DEF Updates, IssueInv, EditInv, At
    <3> QED BY <3>1, <3>3 DEF Updates, Authorized, ChangedBy
  <2>2. CASE CreateRepository \/ DeleteRepository
    BY <2>2 DEF CreateRepository, DeleteRepository, TableUnchanged, Edited,
                Numbers
  <2>3. ASSUME NEW p \in Requests, NEW op \in Operations, NEW u \in Actors,
               NEW k \in 0..MaxIssues,
               NEW input \in IssueState \cup {"undefined"},
               Start(p, op, u, k, input)
        PROVE  FALSE
    BY <2>3 DEF Start, DataUnchanged, TableUnchanged, Edited
  <2> QED BY <2>1, <2>2, <2>3 DEF Next
<1> QED BY <1>1, TypesInvariant, Invariant, PTL DEF Spec, EditIsAuthorized
-----------------------------------------------------------------------------
(***************************************************************************)
(* The inductive invariant behind IssuesAudited: an issue without its      *)
(* entry has a request that is about to write it in the author's name.     *)
(***************************************************************************)
Entered(n) ==
  \E e \in audit : /\ e.action = "issue.create"
                   /\ e.actor = issues[n].author
                   /\ e.number = n
                   /\ e.incarnation = repo

Entering(p, n) ==
  /\ At(p, "create_audit")
  /\ req[p].number = n
  /\ req[p].seen = repo
  /\ req[p].actor = issues[n].author

AuditInv ==
  repo \notin stale =>
    \A n \in Numbers \ lost :
       Entered(n) \/ \E p \in Requests : Entering(p, n)

(* After the INSERT the request is about to write its entry.               *)
LEMMA InsertEnters ==
  ASSUME Types, NEW p \in Requests, CreateInsert(p), repo # 0,
         NEW n, n = req[p].number, n \notin Numbers, repo \notin stale'
  PROVE  Entering(p, n)'
<1> DEFINE record == [req[p] EXCEPT !.step = "create_audit"]
<1>1. /\ record.step = "create_audit" /\ record.number = req[p].number
      /\ record.seen = req[p].seen /\ record.actor = req[p].actor
  BY DEF Types, TypeOK, Request
<1>2. req' = [req EXCEPT ![p] = record]
  BY DEF CreateInsert, GoTo, Becomes
<1> HIDE DEF record
<1>3. req'[p] = record
  BY <1>2 DEF Types, TypeOK
<1>4. repo' = repo /\ req[p].seen = repo
  BY DEF CreateInsert, RepoUnchanged, Touch
<1>5. issues'[n] = [author |-> req[p].actor, state |-> "open"]
  BY InsertTable
<1>6. issues'[n].author = req[p].actor
  BY <1>5
<1> QED BY <1>1, <1>3, <1>4, <1>6 DEF Entering, At

(* Every step of a request keeps issues entered, or about to be.           *)
LEMMA AuditStep ==
  ASSUME Types, IssueInv, AuditInv, NEW p \in Requests, Serve(p) \/ Fail(p)
  PROVE  AuditInv'
<1> USE DEF At
<1> SUFFICES ASSUME repo' \notin stale', NEW n \in Numbers', n \notin lost'
             PROVE  Entered(n)' \/ \E q \in Requests : Entering(q, n)'
  BY DEF AuditInv
<1>1. /\ repo' = repo
      /\ \A q \in Requests \ {p} : req'[q] = req[q]
  BY ServeMoves DEF Moves, Types, TypeOK
<1>2. repo \notin stale
  BY <1>1, ServeWrites DEF Inserts, Updates, Touch
<1>3. /\ audit \subseteq audit' /\ lost \subseteq lost'
      /\ req[p].step = "create_audit" => CreateAudit(p) \/ Fail(p)
  BY DEF Serve, Create, Update, Fail, Visible, ReadIssues, ReadNextNumber,
         CreateInsert, CreateAudit, UpdateFind, UpdateWritable, UpdateRow,
         UpdateRefind, UpdateAudit, OnlyRequests, DataUnchanged, LogUnchanged
<1>4. CASE n \notin Numbers
  <2>1. Inserts(p)
    BY <1>4, ServeWrites DEF Updates, Numbers
  <2>2. n = req[p].number /\ repo # 0 /\ req[p].number \notin Numbers
        /\ req[p].step = "create_insert"
    BY <1>4, <2>1 DEF Inserts
  <2>3. CreateInsert(p)
    <3>1. issues' # issues
      BY <2>1, <2>2 DEF Inserts, Numbers
    <3> QED BY <2>2, <3>1 DEF Serve, Create, Update, Fail, Visible,
               ReadIssues, ReadNextNumber, CreateAudit, UpdateFind,
               UpdateWritable, UpdateRow, UpdateRefind, UpdateAudit,
               TableUnchanged
  <2>4. Entering(p, n)'
    BY <1>1, <1>4, <2>2, <2>3, InsertEnters
  <2> QED BY <2>4
<1>5. CASE n \in Numbers
  <2>1. issues'[n].author = issues[n].author
    BY <1>5, ServeWrites DEF Inserts, Updates
  <2>2. Entered(n) \/ \E q \in Requests : Entering(q, n)
    BY <1>2, <1>3, <1>5 DEF AuditInv
  <2>3. CASE Entered(n)
    BY <1>1, <1>3, <2>1, <2>3 DEF Entered
  <2>4. ASSUME NEW q \in Requests, Entering(q, n), q # p
        PROVE  Entering(q, n)'
    BY <1>1, <2>1, <2>4 DEF Entering
  <2>5. CASE Entering(p, n)
    <3>1. CASE CreateAudit(p)
      <4>1. Entry("issue.create", p) \in audit'
        BY <3>1 DEF CreateAudit
      <4> QED BY <1>1, <2>1, <2>5, <4>1 DEF Entered, Entering, Entry
    <3>2. CASE Fail(p)
      BY <2>5, <3>2 DEF Fail, Entering
    <3> QED BY <1>3, <2>5, <3>1, <3>2 DEF Entering
  <2> QED BY <2>2, <2>3, <2>4, <2>5
<1> QED BY <1>4, <1>5

(* Every issue has its audit entry, naming its author, or its request is   *)
(* about to write it, or that very write failed: no other path of          *)
(* createIssue inserts without recording.                                  *)
THEOREM IssuesAuditedAlways == Spec => []IssuesAudited
<1>1. Init => AuditInv
  BY DEF Init, AuditInv, Numbers
<1>2. Types /\ IssueInv /\ AuditInv /\ [Next]_vars => AuditInv'
  <2> SUFFICES ASSUME Types, IssueInv, AuditInv, [Next]_vars
               PROVE  AuditInv'
    OBVIOUS
  <2>1. CASE CreateRepository \/ DeleteRepository
    <3>1. Numbers' = {}
      BY <2>1 DEF CreateRepository, DeleteRepository, TableUnchanged, Numbers,
                  IssueInv, Grows
    <3> QED BY <3>1 DEF AuditInv
  <2>2. ASSUME NEW p \in Requests, NEW op \in Operations, NEW u \in Actors,
               NEW k \in 0..MaxIssues,
               NEW input \in IssueState \cup {"undefined"},
               Start(p, op, u, k, input)
        PROVE  AuditInv'
    <3>1. /\ UNCHANGED <<repo, issues, stale, audit, lost>>
          /\ req[p].step = "idle"
          /\ \A q \in Requests \ {p} : req'[q] = req[q]
      BY <2>2 DEF Start, DataUnchanged, RepoUnchanged, TableUnchanged,
                  LogUnchanged, Becomes, At, Types, TypeOK
    <3> QED BY <3>1 DEF AuditInv, Entered, Entering, At, Numbers
  <2>3. CASE UNCHANGED vars
    BY <2>3 DEF vars, AuditInv, Entered, Entering, At, Numbers
  <2> QED BY <2>1, <2>2, <2>3, AuditStep DEF Next
<1>3. AuditInv => IssuesAudited
  BY DEF AuditInv, Entered, Entering, IssuesAudited
<1> QED BY <1>1, <1>2, <1>3, TypesInvariant, Invariant, PTL DEF Spec
-----------------------------------------------------------------------------
(***************************************************************************)
(* The refinement: the issues are a numbered log.                          *)
(***************************************************************************)
(* SELECT MAX(number) + 1 when the numbers are 1..k.                       *)
LEMMA MaxOfRange ==
  ASSUME NEW S, NEW k \in Nat, S = 1..k
  PROVE  1 + (CHOOSE m \in S \cup {0} : \A j \in S : j <= m) = k + 1
<1> DEFINE max == CHOOSE m \in S \cup {0} : \A j \in S : j <= m
<1>1. \E m \in S \cup {0} : \A j \in S : j <= m
  <2>1. k \in S \cup {0} /\ \A j \in S : j <= k
    OBVIOUS
  <2> QED BY <2>1
<1>2. max \in S \cup {0} /\ \A j \in S : j <= max
  BY <1>1
<1> HIDE DEF max
<1>3. max = k
  BY <1>2
<1> QED BY <1>3 DEF max

(* Numbers without gaps are the numbers below the next one.                *)
LEMMA DenseIsRange ==
  ASSUME Types, Dense(Numbers)
  PROVE  /\ NextNumber - 1 \in Nat
         /\ Numbers = 1..(NextNumber - 1)
<1>1. NextNumber \in Nat \ {0} /\ NextNumber - 1 \in Numbers \cup {0}
  BY NextNumberIsNext DEF Types
<1>2. 1..(NextNumber - 1) \subseteq Numbers
  BY DenseBelowNext
<1>3. \A k \in Numbers : k \in Nat \ {0} /\ k < NextNumber
  BY NextNumberIsNext DEF Types, TypeOK
<1>4. NextNumber - 1 \in Nat /\ \A k \in Numbers : k \in 1..(NextNumber - 1)
  BY <1>1, <1>3
<1> HIDE DEF NextNumber
<1> QED BY <1>2, <1>4

(* The log of k numbered issues.                                           *)
Authors(k) == [n \in 1..k |-> issues[n].author]

(* The log of a repository with k issues without gaps ...                  *)
LEMMA LogOfRange ==
  ASSUME NEW k \in Nat, Numbers = 1..k, repo \notin stale
  PROVE  AuthorLog = Authors(k)
<1>1. NextNumber = k + 1
  BY MaxOfRange DEF NextNumber
<1>2. NextNumber - 1 = k
  BY <1>1
<1> QED BY <1>2 DEF AuthorLog, Authors

(* ... before a step and after it.                                         *)
LEMMA LogOfRangeNext ==
  ASSUME NEW k \in Nat, Numbers' = 1..k, repo' \notin stale'
  PROVE  AuthorLog' = Authors(k)'
<1>1. NextNumber' = k + 1
  BY MaxOfRange DEF NextNumber
<1>2. (NextNumber - 1)' = k
  BY <1>1
<1> QED BY <1>2 DEF AuthorLog, Authors

(* Such a log is a sequence of registered users.                           *)
LEMMA AuthorsIsSeq ==
  ASSUME TypeOK, NEW k \in Nat, Numbers = 1..k
  PROVE  Authors(k) \in Seq(Users) /\ Len(Authors(k)) = k
<1>1. \A n \in 1..k : issues[n].author \in Users
  BY DEF TypeOK, Issue
<1>2. Authors(k) \in [1..k -> Users]
  BY <1>1 DEF Authors
<1>3. Authors(k) \in Seq(Users)
  BY <1>2, SeqDef
<1>4. DOMAIN Authors(k) = 1..k
  BY DEF Authors
<1>5. Len(Authors(k)) \in Nat /\ 1..Len(Authors(k)) = 1..k
  BY <1>3, <1>4, LenProperties
<1>6. Len(Authors(k)) = k
  BY <1>5
<1> QED BY <1>3, <1>6

(* The log without issues.                                                 *)
LEMMA EmptyLog == ASSUME NEW f PROVE [n \in 1..0 |-> f[n].author] = << >>
<1>1. 1..0 = {}
  OBVIOUS
<1>2. [n \in 1..0 |-> f[n].author] \in [1..0 -> {}]
  BY <1>1
<1>3. [n \in 1..0 |-> f[n].author] \in Seq({})
  BY <1>2, SeqDef
<1>4. /\ Len([n \in 1..0 |-> f[n].author]) \in Nat
      /\ DOMAIN [n \in 1..0 |-> f[n].author]
           = 1..Len([n \in 1..0 |-> f[n].author])
  BY <1>3, LenProperties
<1>5. Len([n \in 1..0 |-> f[n].author]) = 0
  BY <1>4
<1> QED BY <1>3, <1>5, EmptySeq

(* An INSERT that is not stale appends its author to the log.              *)
LEMMA InsertExtendsLog ==
  ASSUME Types, IssueInv, NEW p \in Requests, Inserts(p), repo' = repo,
         repo \notin stale',
         issues'[req[p].number].author = req[p].actor
  PROVE  req[p].actor \in Users /\ AuthorLog' = Append(AuthorLog, req[p].actor)
<1> DEFINE n == req[p].number
<1>1. repo \notin stale /\ req[p].seen = repo /\ repo # 0
  BY DEF Inserts, Touch
<1>2. Dense(Numbers) /\ 1..(n - 1) \subseteq Numbers
  BY <1>1 DEF IssueInv, NumberInv, Inserts
<1>3. PICK k \in Nat : Numbers = 1..k
  BY <1>2, DenseIsRange
<1>4. n \in Nat \ {0} /\ req[p].actor \in Users
  BY DEF Types, TypeOK, PendingType, Request, Inserts, At
<1>5. n = k + 1
  <2>1. n \notin 1..k
    BY <1>3 DEF Inserts
  <2>2. n - 1 \in 1..k \/ n = 1
    BY <1>2, <1>3, <1>4
  <2> QED BY <1>3, <1>4, <2>1, <2>2
<1>6. Numbers' = 1..(k + 1)
  <2>1. Numbers' = 1..k \cup {k + 1}
    BY <1>3, <1>5 DEF Inserts
  <2> HIDE DEF n
  <2> QED BY <1>3, <2>1
<1>7. AuthorLog = Authors(k)
  BY <1>1, <1>3, LogOfRange
<1>8. AuthorLog' = Authors(k + 1)'
  BY <1>3, <1>6, LogOfRangeNext
<1>9. Authors(k) \in Seq(Users) /\ Len(Authors(k)) = k
  BY <1>3, AuthorsIsSeq DEF Types
<1>10. \A j \in 1..k : issues'[j].author = Authors(k)[j]
  BY <1>3 DEF Inserts, Authors
<1>11. issues'[k + 1].author = req[p].actor
  BY <1>5
<1> DEFINE longer == Append(Authors(k), req[p].actor)
<1>12. /\ longer \in Seq(Users) /\ Len(longer) = k + 1
       /\ \A j \in 1..k : longer[j] = Authors(k)[j]
       /\ longer[k + 1] = req[p].actor
  BY <1>4, <1>9, AppendProperties
<1>13. longer \in [1..(k + 1) -> Users]
  BY <1>12, LenProperties
<1> HIDE DEF longer
<1>14. \A j \in 1..(k + 1) : longer[j] = issues'[j].author
  BY <1>3, <1>10, <1>11, <1>12
<1>15. Authors(k + 1)' = longer
  BY <1>13, <1>14 DEF Authors
<1> QED BY <1>4, <1>7, <1>8, <1>15 DEF longer

(* A step that keeps the numbers and the authors keeps the log.            *)
LEMMA SameLog ==
  ASSUME Types, IssueInv, repo' = repo, repo \notin stale, repo \notin stale',
         Numbers' = Numbers, Dense(Numbers),
         \A j \in Numbers : issues'[j].author = issues[j].author
  PROVE  AuthorLog' = AuthorLog
<1>1. PICK k \in Nat : Numbers = 1..k
  BY DenseIsRange
<1>2. AuthorLog = Authors(k) /\ AuthorLog' = Authors(k)'
  BY <1>1, LogOfRange, LogOfRangeNext
<1>3. Authors(k)' = Authors(k)
  BY <1>1 DEF Authors
<1> QED BY <1>2, <1>3

(* Without issues there is no log, stale or not.                           *)
LEMMA NoNumbersNoLog ==
  ASSUME Numbers' = {}
  PROVE  AuthorLog' = << >>
<1>1. CASE repo' \in stale'
  BY <1>1 DEF AuthorLog
<1>2. CASE repo' \notin stale'
  <2>1. 1..0 = {}
    OBVIOUS
  <2>2. AuthorLog' = Authors(0)'
    BY <1>2, <2>1, LogOfRangeNext
  <2> QED BY <2>2, EmptyLog DEF Authors
<1> QED BY <1>1, <1>2

(* Every step of a request appends to the log, clears it or leaves it.     *)
LEMMA ServeKeepsLog ==
  ASSUME Types, IssueInv, NEW p \in Requests, Serve(p) \/ Fail(p)
  PROVE  [Log!Next]_AuthorLog
<1>1. repo' = repo
  BY ServeMoves DEF Moves
<1>2. CASE repo \in stale'
  BY <1>1, <1>2 DEF AuthorLog, Log!Next, Log!Clear
<1>3. CASE repo \notin stale'
  <2>1. repo \notin stale /\ Dense(Numbers)
    BY <1>3, ServeWrites DEF Inserts, Updates, Touch, IssueInv, NumberInv, Grows, Dense
  <2>2. CASE Inserts(p)
    <3>1. issues'[req[p].number].author = req[p].actor
      BY <2>2 DEF Inserts
    <3>2. req[p].actor \in Users /\ AuthorLog' = Append(AuthorLog, req[p].actor)
      BY <1>1, <1>3, <2>2, <3>1, InsertExtendsLog
    <3> QED BY <3>2 DEF Log!Next, Log!Submit
  <2>3. CASE ~Inserts(p)
    <3>1. Numbers' = Numbers
          /\ \A j \in Numbers : issues'[j].author = issues[j].author
      BY <2>3, ServeWrites DEF Updates, Numbers
    <3> QED BY <1>1, <1>3, <2>1, <3>1, SameLog
  <2> QED BY <2>2, <2>3
<1> QED BY <1>2, <1>3

(* The issues of a repository implement the abstract numbered log: a       *)
(* creation appends exactly one item, edits leave it, and it disappears    *)
(* only with the repository or when a stale request spoils it.             *)
THEOREM LogImplemented == Spec => ImplementsLog
<1>1. Init => Log!Init
  <2> SUFFICES ASSUME Init PROVE AuthorLog = << >>
    BY DEF Log!Init
  <2>1. Numbers = 1..0 /\ repo \notin stale
    BY DEF Init, Numbers
  <2>2. AuthorLog = Authors(0)
    BY <2>1, LogOfRange
  <2> QED BY <2>2, EmptyLog DEF Authors
<1>2. Types /\ IssueInv /\ [Next]_vars => [Log!Next]_AuthorLog
  <2> SUFFICES ASSUME Types, IssueInv, [Next]_vars
               PROVE  [Log!Next]_AuthorLog
    OBVIOUS
  <2>1. CASE CreateRepository \/ DeleteRepository
    <3>1. Numbers' = {}
      BY <2>1 DEF CreateRepository, DeleteRepository, TableUnchanged, Numbers,
                  IssueInv, Grows
    <3> QED BY <3>1, NoNumbersNoLog DEF Log!Next, Log!Clear
  <2>2. CASE UNCHANGED <<repo, issues, stale>>
    BY <2>2 DEF AuthorLog, NextNumber, Numbers
  <2>3. ASSUME NEW p \in Requests, NEW op \in Operations, NEW u \in Actors,
               NEW k \in 0..MaxIssues,
               NEW input \in IssueState \cup {"undefined"},
               Start(p, op, u, k, input)
        PROVE  UNCHANGED <<repo, issues, stale>>
    BY <2>3 DEF Start, DataUnchanged, RepoUnchanged, TableUnchanged
  <2> QED BY <2>1, <2>2, <2>3, ServeKeepsLog DEF Next, vars
<1> QED BY <1>1, <1>2, TypesInvariant, Invariant, PTL
        DEF Spec, ImplementsLog, Log!Spec
=============================================================================
