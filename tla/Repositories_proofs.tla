------------------------ MODULE Repositories_proofs ------------------------
(***************************************************************************)
(* Proofs about Repositories, for every number of requests, repositories,  *)
(* users, organizations and faults.                                        *)
(***************************************************************************)
EXTENDS Repositories, TLAPS

(* Whoever may write an owner namespace may also read it, so the read      *)
(* check that precedes every write check (requireWritableRepository calls  *)
(* requireVisibleRepository first) never refuses a writer.                 *)
LEMMA WriterIsReader ==
  ASSUME NEW m, NEW owner, NEW u \in Users, CanWriteOwner(m, owner, u)
  PROVE  CanReadOwner(m, owner, u)
  BY AccessAssumption DEF CanWriteOwner, CanReadOwner, IsMember, Roles

(* A permission to write survives every further membership.                *)
LEMMA WriteIsMonotone ==
  ASSUME NEW m, NEW n, m \subseteq n, NEW owner, NEW u,
         CanWriteOwner(m, owner, u)
  PROVE  CanWriteOwner(n, owner, u)
  BY DEF CanWriteOwner
-----------------------------------------------------------------------------
(* The arrival of a request keeps the types.                               *)
LEMMA StartType ==
  ASSUME TypeOK, NEW p \in Requests, NEW op \in Operations, NEW u \in Actors,
         NEW r \in Repos, NEW v \in Visibilities, Start(p, op, u, r, v)
  PROVE  TypeOK'
  BY DEF TypeOK, Start, Becomes, DbUnchanged, DiskUnchanged, NoFault, Request,
         Steps

(* What Becomes, GoTo and Answer leave behind.                             *)
LEMMA BecomesType ==
  ASSUME TypeOK, NEW p \in Requests, NEW record \in Request,
         Becomes(p, record)
  PROVE  req' \in [Requests -> Request] /\ raced' \subseteq Repos
  BY DEF TypeOK, Becomes

(* ... for a request that moves on.                                        *)
LEMMA GoToType ==
  ASSUME TypeOK, NEW p \in Requests, NEW step \in Steps, GoTo(p, step)
  PROVE  req' \in [Requests -> Request] /\ raced' \subseteq Repos
<1>1. [req[p] EXCEPT !.step = step] \in Request
  BY DEF TypeOK, Request
<1> QED BY <1>1, BecomesType DEF GoTo

(* The record of a request that is over.                                   *)
LEMMA EndedType ==
  ASSUME TypeOK, NEW p \in Requests
  PROVE  Ended(req[p]) \in Request
  BY DEF TypeOK, Ended, NoRequest, Request, Steps, Operations, Actors,
         Visibilities

(* ... for a request that is answered.                                     *)
LEMMA AnswerType ==
  ASSUME TypeOK, NEW p \in Requests, Answer(p)
  PROVE  req' \in [Requests -> Request] /\ raced' \subseteq Repos
  BY EndedType, BecomesType DEF Answer

(* Audit entries name an action, a repository and an incarnation.          *)
LEMMA RecordType ==
  ASSUME TypeOK, NEW p \in Requests,
         NEW action \in {"repository.create", "repository.visibility.update",
                         "repository.delete"},
         Record(action, p)
  PROVE  audit' \subseteq AuditEntry
  BY DEF TypeOK, Record, Entry, AuditEntry, Request

(* Every step of a request keeps the types.                                *)
LEMMA ServeType ==
  ASSUME TypeOK, NEW p \in Requests, Serve(p)
  PROVE  TypeOK'
<1> USE DEF DbUnchanged, DiskUnchanged, NoFault
<1>0. req[p] \in Request /\ req[p].repo \in Repos /\ req[p].seen \in Nat
      /\ req[p].visibility \in Visibilities
  BY DEF TypeOK, Request
<1>1. CASE CreateAccess(p)
  BY <1>1, GoToType, AnswerType DEF CreateAccess, TypeOK, Steps
<1>2. CASE CreateInit(p)
  BY <1>0, <1>2, GoToType DEF CreateInit, TypeOK, Steps
<1>3. CASE CreateHead(p)
  BY <1>0, <1>3, GoToType, AnswerType DEF CreateHead, TypeOK, Steps
<1>4. CASE CreateInsert(p)
  <2> DEFINE inserted == [req[p] EXCEPT !.step = "create_audit",
                                        !.seen = made[req[p].repo] + 1]
  <2>0. made[req[p].repo] + 1 \in Nat
    BY <1>0 DEF TypeOK
  <2>1. inserted \in Request
    BY <1>0, <2>0 DEF Request, Steps
  <2>2. req' \in [Requests -> Request] /\ raced' \subseteq Repos
    BY <1>4, <2>1, BecomesType, AnswerType DEF CreateInsert
  <2> QED BY <1>0, <1>4, <2>2 DEF CreateInsert, TypeOK
<1>5. CASE CreateAudit(p)
  BY <1>5, AnswerType, RecordType DEF CreateAudit, TypeOK
<1>6. CASE Find(p)
  <2>1. ASSUME NEW step \in Steps
        PROVE  [req[p] EXCEPT !.seen = row[req[p].repo], !.step = step]
                 \in Request
    BY <1>0 DEF Request, TypeOK
  <2>2. req' \in [Requests -> Request] /\ raced' \subseteq Repos
    BY <1>6, <2>1, BecomesType, AnswerType DEF Find, Steps
  <2> QED BY <1>6, <2>2 DEF Find, TypeOK
<1>7. CASE CheckRead(p)
  BY <1>7, GoToType, AnswerType DEF CheckRead, TypeOK, Steps
<1>8. CASE CheckWrite(p)
  <2>1. FirstStep(req[p].op) \in Steps
    BY DEF FirstStep, Steps
  <2> QED
    BY <1>8, <2>1, GoToType, AnswerType DEF CheckWrite, TypeOK
<1>9. CASE ReadGit(p)
  BY <1>9, AnswerType DEF ReadGit, TypeOK
<1>10. CASE PushGit(p)
  <2>1. req' \in [Requests -> Request]
    BY <1>10, EndedType DEF PushGit, TypeOK
  <2> QED BY <1>0, <1>10, <2>1 DEF PushGit, TypeOK
<1>11. CASE UpdateRow(p)
  BY <1>0, <1>11, GoToType DEF UpdateRow, TypeOK, Steps
<1>12. CASE UpdateFind(p)
  BY <1>12, GoToType, AnswerType DEF UpdateFind, TypeOK, Steps
<1>13. CASE UpdateAudit(p)
  BY <1>13, AnswerType, RecordType DEF UpdateAudit, TypeOK
<1>14. CASE DeleteRow(p)
  BY <1>0, <1>14, GoToType DEF DeleteRow, TypeOK, Visibilities, Steps
<1>15. CASE DeleteStorage(p)
  BY <1>0, <1>15, GoToType DEF DeleteStorage, TypeOK, Steps
<1>16. CASE DeleteAudit(p)
  BY <1>16, AnswerType, RecordType DEF DeleteAudit, TypeOK
<1> QED
  BY <1>1, <1>2, <1>3, <1>4, <1>5, <1>6, <1>7, <1>8, <1>9, <1>10, <1>11,
     <1>12, <1>13, <1>14, <1>15, <1>16
     DEF Serve, Create, Check, Git, Update, Delete

(* A failing await and a crash keep the types.                             *)
LEMMA OtherType ==
  ASSUME TypeOK, NEW p \in Requests, Fail(p) \/ Crash
  PROVE  TypeOK'
<1> USE DEF DbUnchanged, DiskUnchanged
<1>0. ASSUME NEW S \in SUBSET Requests
      PROVE  interrupted \cup DeletingIn(S) \subseteq Repos
  BY DEF TypeOK, DeletingIn, Request
<1>1. CASE Fail(p)
  BY <1>0, <1>1, AnswerType DEF Fail, TypeOK
<1>2. CASE Crash
  BY <1>0, <1>2, EndedType DEF Crash, TypeOK
<1> QED BY <1>1, <1>2

(* A new membership keeps the types.                                       *)
LEMMA AddMemberType ==
  ASSUME TypeOK, NEW org \in Organizations, NEW u \in Users,
         NEW role \in Roles, AddMember(org, u, role)
  PROVE  TypeOK'
  BY DEF TypeOK, AddMember, DiskUnchanged, NoFault, Memberships

(* Every state has the types TypeOK gives: rows and directories per id,    *)
(* request records with a known next step, well-formed audit entries.      *)
THEOREM Typing == Spec => []TypeOK
<1>1. Init => TypeOK
  BY RepositoriesAssumption
     DEF Init, NoRequest, TypeOK, Request, Steps, Operations, Visibilities, Actors
<1>2. TypeOK /\ [Next]_vars => TypeOK'
  <2> SUFFICES ASSUME TypeOK, [Next]_vars PROVE TypeOK'
    OBVIOUS
  <2>1. CASE UNCHANGED vars
    BY <2>1 DEF vars, TypeOK
  <2>2. CASE Next
    BY <2>2, StartType, ServeType, OtherType, AddMemberType DEF Next, Crash
  <2> QED BY <2>1, <2>2
<1> QED BY <1>1, <1>2, PTL DEF Spec
-----------------------------------------------------------------------------
(* What a step of a request does to the request itself: its repository     *)
(* stays, the other requests are not touched, and a mutating step is       *)
(* entered, for the same actor, from a mutating step or from a successful  *)
(* write check.                                                            *)
Advances(p) ==
  \E record \in Request :
    /\ req' = [req EXCEPT ![p] = record]
    /\ record.repo = req[p].repo
    /\ record.step \in MutatingSteps =>
         /\ record.actor = req[p].actor
         /\ \/ req[p].step \in MutatingSteps
            \/ CanWriteOwner(members, RepoOwner[req[p].repo], req[p].actor)

(* A request that moves on keeps its actor and its repository.             *)
LEMMA GoToAdvances ==
  ASSUME TypeOK, NEW p \in Requests, NEW step \in Steps, GoTo(p, step),
         step \in MutatingSteps =>
           \/ req[p].step \in MutatingSteps
           \/ CanWriteOwner(members, RepoOwner[req[p].repo], req[p].actor)
  PROVE  Advances(p)
<1> DEFINE record == [req[p] EXCEPT !.step = step]
<1>1. /\ record \in Request
      /\ record.actor = req[p].actor
      /\ record.repo = req[p].repo
      /\ record.step = step
  BY DEF TypeOK, Request
<1>2. req' = [req EXCEPT ![p] = record]
  BY DEF GoTo, Becomes
<1> HIDE DEF record
<1> QED BY <1>1, <1>2 DEF Advances

(* An answered request changes nothing any more.                           *)
LEMMA AnswerAdvances ==
  ASSUME TypeOK, NEW p \in Requests, req' = [req EXCEPT ![p] = Ended(req[p])]
  PROVE  Advances(p)
<1>1. /\ Ended(req[p]) \in Request
      /\ Ended(req[p]).repo = req[p].repo
      /\ Ended(req[p]).step = "idle"
  BY EndedType DEF Ended, NoRequest
<1> HIDE DEF Ended
<1> QED BY <1>1 DEF Advances, MutatingSteps

(* A step of a request enters the changing steps by a write check.         *)
LEMMA ServeAdvances ==
  ASSUME TypeOK, NEW p \in Requests, Serve(p)
  PROVE  Advances(p) /\ members' = members
<1> USE DEF DbUnchanged, At
<1>0. req[p] \in Request /\ row[req[p].repo] \in Nat
      /\ made[req[p].repo] + 1 \in Nat
  BY DEF TypeOK, Request
<1>a. Answer(p) => Advances(p)
  BY AnswerAdvances DEF Answer, Becomes
<1>1. CASE CreateAccess(p)
  BY <1>1, <1>a, GoToAdvances DEF CreateAccess, Steps
<1>2. CASE CreateInit(p)
  BY <1>2, GoToAdvances DEF CreateInit, Steps, MutatingSteps
<1>3. CASE CreateHead(p)
  BY <1>3, <1>a, GoToAdvances DEF CreateHead, Steps, MutatingSteps
<1>4. CASE CreateInsert(p)
  <2> DEFINE record == [req[p] EXCEPT !.step = "create_audit",
                                      !.seen = made[req[p].repo] + 1]
  <2>1. CASE row[req[p].repo] # 0
    BY <1>4, <1>a, <2>1 DEF CreateInsert
  <2>2. CASE row[req[p].repo] = 0
    <3>1. /\ record \in Request
          /\ record.actor = req[p].actor
          /\ record.repo = req[p].repo
          /\ record.step = "create_audit"
      BY <1>0 DEF Request, Steps
    <3>2. req' = [req EXCEPT ![p] = record]
      BY <1>4, <2>2 DEF CreateInsert, Becomes
    <3> HIDE DEF record
    <3>3. Advances(p)
      BY <3>1, <3>2 DEF Advances, MutatingSteps
    <3> QED BY <1>4, <3>3 DEF CreateInsert
  <2> QED BY <1>4, <2>1, <2>2 DEF CreateInsert
<1>5. CASE CreateAudit(p)   BY <1>5, <1>a DEF CreateAudit
<1>6. CASE Find(p)
  <2> DEFINE step == IF visibility[req[p].repo] = "private"
                       THEN "check_read"
                     ELSE IF req[p].op = "read"
                       THEN "read_git" ELSE "check_write"
             record == [req[p] EXCEPT !.seen = row[req[p].repo],
                                      !.step = step]
  <2>1. CASE row[req[p].repo] = 0
    BY <1>6, <1>a, <2>1 DEF Find
  <2>2. CASE row[req[p].repo] # 0
    <3>1. step \in {"check_read", "read_git", "check_write"}
      OBVIOUS
    <3> HIDE DEF step
    <3>2. /\ record \in Request
          /\ record.actor = req[p].actor
          /\ record.repo = req[p].repo
          /\ record.step = step
      BY <1>0, <3>1 DEF Request, Steps
    <3>3. req' = [req EXCEPT ![p] = record]
      BY <1>6, <2>2 DEF Find, Becomes, step
    <3> HIDE DEF record
    <3>4. Advances(p)
      BY <3>1, <3>2, <3>3 DEF Advances, MutatingSteps
    <3> QED BY <1>6, <3>4 DEF Find
  <2> QED BY <1>6, <2>1, <2>2 DEF Find
<1>7. CASE CheckRead(p)
  BY <1>7, <1>a, GoToAdvances DEF CheckRead, Steps, MutatingSteps
<1>8. CASE CheckWrite(p)
  <2>1. FirstStep(req[p].op) \in Steps
    BY DEF FirstStep, Steps
  <2> QED
    BY <1>8, <1>a, <2>1, GoToAdvances DEF CheckWrite
<1>9. CASE ReadGit(p)       BY <1>9, <1>a DEF ReadGit
<1>10. CASE PushGit(p)      BY <1>10, AnswerAdvances DEF PushGit
<1>11. CASE UpdateRow(p)
  BY <1>11, GoToAdvances DEF UpdateRow, Steps, MutatingSteps
<1>12. CASE UpdateFind(p)
  BY <1>12, <1>a, GoToAdvances DEF UpdateFind, Steps, MutatingSteps
<1>13. CASE UpdateAudit(p)  BY <1>13, <1>a DEF UpdateAudit
<1>14. CASE DeleteRow(p)
  BY <1>14, GoToAdvances DEF DeleteRow, Steps, MutatingSteps
<1>15. CASE DeleteStorage(p)
  BY <1>15, GoToAdvances DEF DeleteStorage, Steps, MutatingSteps
<1>16. CASE DeleteAudit(p)  BY <1>16, <1>a DEF DeleteAudit
<1> QED
  BY <1>1, <1>2, <1>3, <1>4, <1>5, <1>6, <1>7, <1>8, <1>9, <1>10, <1>11,
     <1>12, <1>13, <1>14, <1>15, <1>16
     DEF Serve, Create, Check, Git, Update, Delete

(* A request that changes a repository belongs to someone who may write    *)
(* its owner namespace at that very moment, although the permission was    *)
(* checked some awaits earlier.                                            *)
THEOREM MutatorsMayWriteAlways == Spec => []MutatorsMayWrite
<1>1. Init => MutatorsMayWrite
  BY DEF Init, NoRequest, MutatorsMayWrite, MutatingSteps
<1>2. TypeOK /\ MutatorsMayWrite /\ [Next]_vars => MutatorsMayWrite'
  <2> SUFFICES ASSUME TypeOK, MutatorsMayWrite, [Next]_vars
               PROVE  MutatorsMayWrite'
    OBVIOUS
  <2>1. ASSUME NEW p \in Requests, Advances(p), members' = members
        PROVE  MutatorsMayWrite'
    BY <2>1 DEF Advances, MutatorsMayWrite, TypeOK
  <2>2. ASSUME NEW p \in Requests, NEW op \in Operations, NEW u \in Actors,
               NEW r \in Repos, NEW v \in Visibilities, Start(p, op, u, r, v)
        PROVE  MutatorsMayWrite'
    BY <2>2 DEF Start, Becomes, DbUnchanged, MutatorsMayWrite, MutatingSteps,
                TypeOK
  <2>3. ASSUME NEW p \in Requests, Serve(p)
        PROVE  MutatorsMayWrite'
    BY <2>1, <2>3, ServeAdvances
  <2>4. ASSUME NEW p \in Requests, Fail(p)
        PROVE  MutatorsMayWrite'
    BY <2>1, <2>4, AnswerAdvances DEF Fail, Answer, Becomes, DbUnchanged
  <2>5. ASSUME NEW org \in Organizations, NEW u \in Users, NEW role \in Roles,
               AddMember(org, u, role)
        PROVE  MutatorsMayWrite'
    <3>1. req' = req /\ members \subseteq members'
      BY <2>5 DEF AddMember
    <3> QED BY <3>1, WriteIsMonotone DEF MutatorsMayWrite
  <2>6. CASE Crash
    BY <2>6 DEF Crash, Ended, NoRequest, MutatorsMayWrite, MutatingSteps, TypeOK, Request
  <2>7. CASE UNCHANGED vars
    BY <2>7 DEF vars, MutatorsMayWrite
  <2> QED BY <2>2, <2>3, <2>4, <2>5, <2>6, <2>7 DEF Next
<1> QED BY <1>1, <1>2, Typing, PTL DEF Spec
-----------------------------------------------------------------------------
(***************************************************************************)
(* The inductive invariant behind RowHasStorage: outside the repositories  *)
(* where a delete met a create,                                            *)
(*   - a create that is about to insert has a ready directory,             *)
(*   - no create is about to insert while a delete is about to remove,     *)
(*   - a delete that is about to remove the directory finds no row.        *)
(***************************************************************************)
StorageInv ==
  \A r \in Repos \ raced :
     /\ row[r] # 0 => storage[r] = "ready"
     /\ \A p \in Requests :
          req[p].repo = r =>
             /\ req[p].step = "create_insert" => storage[r] = "ready"
             /\ req[p].step = "delete_storage" => row[r] = 0
     /\ ~Overlap(req, r)

(* The step of a request that moved on.                                    *)
LEMMA GoToStep ==
  ASSUME TypeOK, NEW p \in Requests, NEW step, GoTo(p, step)
  PROVE  req'[p].step = step /\ req'[p].seen = req[p].seen
  BY DEF TypeOK, Request, GoTo, Becomes

(* The step of an answered request.                                        *)
LEMMA AnswerStep ==
  ASSUME TypeOK, NEW p \in Requests, req' = [req EXCEPT ![p] = Ended(req[p])]
  PROVE  req'[p].step = "idle" /\ req'[p].seen = 0
  BY DEF TypeOK, Request, Ended, NoRequest

(* The INSERT of a creation that finds the id free.                        *)
LEMMA InsertStep ==
  ASSUME TypeOK, NEW p \in Requests, CreateInsert(p), row[req[p].repo] = 0
  PROVE  /\ row' = [row EXCEPT ![req[p].repo] = made[req[p].repo] + 1]
         /\ made' = [made EXCEPT ![req[p].repo] = made[req[p].repo] + 1]
         /\ req'[p].step = "create_audit"
         /\ req'[p].seen = made[req[p].repo] + 1
<1> DEFINE record == [req[p] EXCEPT !.step = "create_audit",
                                    !.seen = made[req[p].repo] + 1]
<1>1. req[p] \in Request /\ made[req[p].repo] + 1 \in Nat
  BY DEF TypeOK, Request
<1>2. record.step = "create_audit" /\ record.seen = made[req[p].repo] + 1
  BY <1>1 DEF Request, Steps
<1>3. req' = [req EXCEPT ![p] = record]
  BY DEF CreateInsert, Becomes
<1> HIDE DEF record
<1>4. req'[p] = record
  BY <1>3 DEF TypeOK
<1> QED BY <1>2, <1>4 DEF CreateInsert

(* The steps that leave rows and directories alone and do not open one of  *)
(* the two windows.                                                        *)
Quiet(p) ==
  /\ UNCHANGED <<row, storage>>
  /\ req'[p].step \notin {"create_insert", "delete_storage"}

(* All steps are quiet but those around the two windows.                   *)
LEMMA QuietSteps ==
  ASSUME TypeOK, NEW p \in Requests,
         Serve(p), ~CreateInit(p), ~CreateHead(p), ~CreateInsert(p),
         ~DeleteRow(p), ~DeleteStorage(p)
  PROVE  Quiet(p)
<1> USE DEF DbUnchanged, DiskUnchanged, Quiet
<1>a. Answer(p) => req'[p].step = "idle"
  BY AnswerStep DEF Answer, Becomes
<1>1. CASE CreateAccess(p)  BY <1>1, <1>a, GoToStep DEF CreateAccess
<1>2. CASE CreateAudit(p)   BY <1>2, <1>a DEF CreateAudit
<1>3. CASE Find(p)
  BY <1>3, <1>a DEF Find, Becomes, TypeOK, Request
<1>4. CASE CheckRead(p)     BY <1>4, <1>a, GoToStep DEF CheckRead
<1>5. CASE CheckWrite(p)
  BY <1>5, <1>a, GoToStep DEF CheckWrite, FirstStep
<1>6. CASE ReadGit(p)       BY <1>6, <1>a DEF ReadGit
<1>7. CASE PushGit(p)       BY <1>7, AnswerStep DEF PushGit
<1>8. CASE UpdateRow(p)     BY <1>8, GoToStep DEF UpdateRow
<1>9. CASE UpdateFind(p)    BY <1>9, <1>a, GoToStep DEF UpdateFind
<1>10. CASE UpdateAudit(p)  BY <1>10, <1>a DEF UpdateAudit
<1>11. CASE DeleteAudit(p)  BY <1>11, <1>a DEF DeleteAudit
<1> QED
  BY <1>1, <1>2, <1>3, <1>4, <1>5, <1>6, <1>7, <1>8, <1>9, <1>10, <1>11
     DEF Serve, Create, Check, Git, Update, Delete

(* A step of a request never takes two requests of r from no overlap to an *)
(* overlap without adding r to raced.                                      *)
LEMMA ServeNotesOverlap ==
  ASSUME TypeOK, StorageInv, NEW p \in Requests, Serve(p),
         NEW r \in Repos \ raced'
  PROVE  r \in Repos \ raced /\ ~Overlap(req', r)
<1>1. CASE PushGit(p)
  <2>1. r \in Repos \ raced
    BY <1>1 DEF PushGit
  <2>2. \A q \in Requests :
          /\ req'[q].repo = req[q].repo
          /\ req'[q].step = req[q].step \/ req'[q].step = "idle"
    BY <1>1 DEF PushGit, Ended, NoRequest, TypeOK, Request
  <2> QED BY <2>1, <2>2 DEF StorageInv, Overlap
<1>2. CASE ~PushGit(p)
  <2>1. raced' = raced \cup {x \in Repos : Overlap(req', x)}
    BY <1>2 DEF Serve, Create, Check, Git, Update, Delete,
         CreateAccess, CreateInit, CreateHead, CreateInsert, CreateAudit,
         Find, CheckRead, CheckWrite, ReadGit, UpdateRow, UpdateFind,
         UpdateAudit, DeleteRow, DeleteStorage, DeleteAudit,
         GoTo, Answer, Becomes
  <2> QED BY <2>1
<1> QED BY <1>1, <1>2

(* Every step of a request keeps rows backed by directories.               *)
LEMMA ServeKeepsStorageInv ==
  ASSUME TypeOK, StorageInv, NEW p \in Requests, Serve(p)
  PROVE  StorageInv'
<1> SUFFICES ASSUME NEW r \in Repos \ raced'
             PROVE  /\ row'[r] # 0 => storage'[r] = "ready"
                    /\ \A q \in Requests :
                         req'[q].repo = r =>
                           /\ req'[q].step = "create_insert" =>
                                storage'[r] = "ready"
                           /\ req'[q].step = "delete_storage" => row'[r] = 0
  BY ServeNotesOverlap DEF StorageInv
<1>1. r \in Repos \ raced /\ ~Overlap(req, r)
  BY ServeNotesOverlap DEF StorageInv
<1>2. /\ row[r] # 0 => storage[r] = "ready"
      /\ \A q \in Requests :
           req[q].repo = r =>
             /\ req[q].step = "create_insert" => storage[r] = "ready"
             /\ req[q].step = "delete_storage" => row[r] = 0
  BY <1>1 DEF StorageInv
<1>3. /\ req'[p].repo = req[p].repo
      /\ \A q \in Requests \ {p} : req'[q] = req[q]
  BY ServeAdvances DEF Advances, TypeOK
<1>4. row \in [Repos -> Nat] /\ storage \in [Repos -> {"absent", "bare", "ready"}]
  BY DEF TypeOK
<1> USE DEF At, DbUnchanged, DiskUnchanged
<1>5. CASE CreateInit(p)
  BY <1>2, <1>3, <1>4, <1>5, GoToStep DEF CreateInit
<1>6. CASE CreateHead(p)
  <2>1. CASE storage[req[p].repo] = "absent"
    <3>1. req'[p].step = "idle" /\ row' = row /\ storage' = storage
      BY <1>6, <2>1, AnswerStep DEF CreateHead, Answer, Becomes
    <3> QED BY <1>2, <1>3, <3>1
  <2>2. CASE storage[req[p].repo] # "absent"
    BY <1>2, <1>3, <1>4, <1>6, <2>2, GoToStep DEF CreateHead
  <2> QED BY <2>1, <2>2
<1>7. CASE CreateInsert(p)
  <2>1. CASE row[req[p].repo] # 0
    <3>1. req'[p].step = "idle" /\ row' = row /\ storage' = storage
      BY <1>7, <2>1, AnswerStep DEF CreateInsert, Answer, Becomes
    <3> QED BY <1>2, <1>3, <3>1
  <2>2. CASE row[req[p].repo] = 0
    <3>1. req'[p].step = "create_audit" /\ storage' = storage
      BY <1>7, <2>2, InsertStep DEF CreateInsert
    <3>2. \A x \in Repos : x # req[p].repo => row'[x] = row[x]
      BY <1>4, <1>7, <2>2 DEF CreateInsert
    <3>3. req[p].repo = r =>
            \A q \in Requests : req[q].repo = r => req[q].step # "delete_storage"
      BY <1>1, <1>7 DEF CreateInsert, Overlap
    <3> QED BY <1>2, <1>3, <1>7, <3>1, <3>2, <3>3 DEF CreateInsert
  <2> QED BY <2>1, <2>2
<1>8. CASE DeleteRow(p)
  BY <1>2, <1>3, <1>4, <1>8, GoToStep DEF DeleteRow
<1>9. CASE DeleteStorage(p)
  <2>1. req[p].repo = r =>
          \A q \in Requests : req[q].repo = r => req[q].step # "create_insert"
    BY <1>1, <1>9 DEF DeleteStorage, Overlap
  <2>2. req'[p].step = "delete_audit" /\ row' = row
    BY <1>9, GoToStep DEF DeleteStorage
  <2>3. req[p].repo # r => storage'[r] = storage[r]
    BY <1>4, <1>9 DEF DeleteStorage
  <2> QED BY <1>2, <1>3, <1>9, <2>1, <2>2, <2>3 DEF DeleteStorage
<1>10. CASE Quiet(p)
  BY <1>2, <1>3, <1>10 DEF Quiet
<1> QED BY <1>5, <1>6, <1>7, <1>8, <1>9, <1>10, QuietSteps

(* The inductive invariant holds in every reachable state.                 *)
LEMMA StorageInvariant == Spec => []StorageInv
<1>1. Init => StorageInv
  BY DEF Init, NoRequest, StorageInv, Overlap
<1>2. TypeOK /\ StorageInv /\ [Next]_vars => StorageInv'
  <2> SUFFICES ASSUME TypeOK, StorageInv, [Next]_vars
               PROVE  StorageInv'
    OBVIOUS
  <2>1. ASSUME NEW p \in Requests, NEW op \in Operations, NEW u \in Actors,
               NEW r \in Repos, NEW v \in Visibilities, Start(p, op, u, r, v)
        PROVE  StorageInv'
    <3>1. /\ row' = row /\ storage' = storage
          /\ req'[p].step \in {"create_access", "find"}
          /\ \A q \in Requests \ {p} : req'[q] = req[q]
          /\ raced \subseteq raced'
          /\ \A x \in Repos \ raced' : ~Overlap(req', x)
      BY <2>1 DEF Start, Becomes, DbUnchanged, DiskUnchanged, TypeOK
    <3> QED BY <3>1 DEF StorageInv
  <2>2. ASSUME NEW p \in Requests, Serve(p)
        PROVE  StorageInv'
    BY <2>2, ServeKeepsStorageInv
  <2>3. ASSUME NEW p \in Requests, Fail(p)
        PROVE  StorageInv'
    <3>1. /\ row' = row /\ storage' = storage
          /\ req'[p].step = "idle"
          /\ \A q \in Requests \ {p} : req'[q] = req[q]
          /\ raced \subseteq raced'
          /\ \A x \in Repos \ raced' : ~Overlap(req', x)
      BY <2>3, AnswerStep
         DEF Fail, Answer, Becomes, DbUnchanged, DiskUnchanged, TypeOK
    <3> QED BY <3>1 DEF StorageInv
  <2>4. ASSUME NEW org \in Organizations, NEW u \in Users, NEW role \in Roles,
               AddMember(org, u, role)
        PROVE  StorageInv'
    BY <2>4 DEF AddMember, DiskUnchanged, StorageInv, Overlap
  <2>5. CASE Crash
    <3>1. /\ row' = row /\ storage' = storage /\ raced' = raced
          /\ \A q \in Requests : req'[q].step = "idle"
      BY <2>5 DEF Crash, DbUnchanged, DiskUnchanged, Ended, NoRequest, TypeOK, Request
    <3> QED BY <3>1 DEF StorageInv, Overlap
  <2>6. CASE UNCHANGED vars
    BY <2>6 DEF vars, StorageInv, Overlap
  <2> QED BY <2>1, <2>2, <2>3, <2>4, <2>5, <2>6 DEF Next
<1> QED BY <1>1, <1>2, Typing, PTL DEF Spec

(* Every row has a usable directory, outside the repositories where a      *)
(* delete met a create: for any number of requests and faults.             *)
THEOREM RowHasStorageAlways == Spec => []RowHasStorage
<1>1. StorageInv => RowHasStorage
  BY DEF StorageInv, RowHasStorage
<1> QED BY <1>1, StorageInvariant, PTL
-----------------------------------------------------------------------------
(***************************************************************************)
(* The inductive invariant behind AuditedDeleteIsFinal: incarnation        *)
(* numbers only grow, a request that found a row remembers an incarnation  *)
(* that was really made, and between the DELETE and the audit entry that   *)
(* incarnation has no row, whoever inserted a newer one meanwhile.         *)
(***************************************************************************)
FoundSteps ==
  {"check_read", "check_write", "push_git",
   "delete_row", "delete_storage", "delete_audit"}

Deleted(p) == req[p].step \in {"delete_storage", "delete_audit"}

DeleteInv ==
  /\ \A r \in Repos : row[r] <= made[r]
  /\ \A p \in Requests :
       /\ req[p].seen <= made[req[p].repo]
       /\ req[p].step \in FoundSteps => req[p].seen > 0
       /\ Deleted(p) => row[req[p].repo] # req[p].seen
  /\ \A e \in audit :
       e.action = "repository.delete" =>
          /\ e.incarnation \in 1..made[e.repo]
          /\ row[e.repo] # e.incarnation

(* The steps that change neither rows nor the audit log: the request keeps *)
(* or forgets its incarnation and does not become a finished deletion.     *)
Harmless(p) ==
  /\ UNCHANGED <<row, made, audit>>
  /\ \/ req'[p].seen = 0 /\ req'[p].step \notin FoundSteps
     \/ /\ req'[p].seen = req[p].seen
        /\ req'[p].step \in FoundSteps => req[p].step \in FoundSteps
        /\ Deleted(p)' => Deleted(p)
     \/ /\ req'[p].seen = row[req[p].repo]
        /\ row[req[p].repo] # 0
        /\ ~Deleted(p)'

(* All steps but the INSERT, the DELETE and the audit are harmless.        *)
LEMMA HarmlessSteps ==
  ASSUME TypeOK, NEW p \in Requests,
         Serve(p), ~CreateInsert(p), ~CreateAudit(p), ~UpdateAudit(p),
         ~DeleteRow(p), ~DeleteAudit(p)
  PROVE  Harmless(p)
<1> USE DEF DbUnchanged, Harmless, FoundSteps, Deleted, At
<1>a. Answer(p) => req'[p].step = "idle" /\ req'[p].seen = 0
  BY AnswerStep DEF Answer, Becomes
<1>1. CASE CreateAccess(p)  BY <1>1, <1>a, GoToStep DEF CreateAccess
<1>2. CASE CreateInit(p)    BY <1>2, GoToStep DEF CreateInit
<1>3. CASE CreateHead(p)    BY <1>3, <1>a, GoToStep DEF CreateHead
<1>4. CASE Find(p)
  <2>1. CASE row[req[p].repo] = 0
    BY <1>4, <1>a, <2>1 DEF Find
  <2>2. CASE row[req[p].repo] # 0
    <3> DEFINE step == IF visibility[req[p].repo] = "private"
                         THEN "check_read"
                       ELSE IF req[p].op = "read"
                         THEN "read_git" ELSE "check_write"
    <3>1. step \in {"check_read", "read_git", "check_write"}
      OBVIOUS
    <3>2. req' = [req EXCEPT ![p] = [req[p] EXCEPT !.seen = row[req[p].repo],
                                                   !.step = step]]
      BY <1>4, <2>2 DEF Find, Becomes
    <3> HIDE DEF step
    <3>3. req'[p].seen = row[req[p].repo] /\ req'[p].step = step
      BY <3>2 DEF TypeOK, Request
    <3> QED BY <1>4, <2>2, <3>1, <3>3 DEF Find
  <2> QED BY <2>1, <2>2
<1>5. CASE CheckRead(p)     BY <1>5, <1>a, GoToStep DEF CheckRead
<1>6. CASE CheckWrite(p)
  BY <1>6, <1>a, GoToStep DEF CheckWrite, FirstStep
<1>7. CASE ReadGit(p)       BY <1>7, <1>a DEF ReadGit
<1>8. CASE PushGit(p)       BY <1>8, AnswerStep DEF PushGit
<1>9. CASE UpdateRow(p)     BY <1>9, GoToStep DEF UpdateRow
<1>10. CASE UpdateFind(p)   BY <1>10, <1>a, GoToStep DEF UpdateFind
<1>11. CASE DeleteStorage(p) BY <1>11, GoToStep DEF DeleteStorage
<1> QED
  BY <1>1, <1>2, <1>3, <1>4, <1>5, <1>6, <1>7, <1>8, <1>9, <1>10, <1>11
     DEF Serve, Create, Check, Git, Update, Delete

(* Every step of a request keeps audited deletions final.                  *)
LEMMA ServeKeepsDeleteInv ==
  ASSUME TypeOK, DeleteInv, NEW p \in Requests, Serve(p)
  PROVE  DeleteInv'
<1>1. /\ req'[p].repo = req[p].repo
      /\ \A q \in Requests \ {p} : req'[q] = req[q]
  BY ServeAdvances DEF Advances, TypeOK
<1>2. /\ row \in [Repos -> Nat] /\ made \in [Repos -> Nat]
      /\ audit \subseteq AuditEntry
      /\ \A q \in Requests : req[q].repo \in Repos /\ req[q].seen \in Nat
  BY DEF TypeOK, Request
<1> USE DEF At, FoundSteps, Deleted
<1>3. CASE Harmless(p)
  BY <1>1, <1>2, <1>3 DEF Harmless, DeleteInv
<1>4. CASE CreateInsert(p)
  <2>1. CASE row[req[p].repo] # 0
    <3>1. Harmless(p)
      BY <1>4, <2>1, AnswerStep
         DEF CreateInsert, Answer, Becomes, Harmless
    <3> QED BY <1>3, <3>1
  <2>2. CASE row[req[p].repo] = 0
    <3> DEFINE r == req[p].repo
    <3>1. req'[p].step = "create_audit" /\ req'[p].seen = made[r] + 1
      BY <1>4, <2>2, InsertStep
    <3>2. /\ row' = [row EXCEPT ![r] = made[r] + 1]
          /\ made' = [made EXCEPT ![r] = @ + 1]
          /\ audit' = audit
      BY <1>4, <2>2 DEF CreateInsert
    <3>3. r \in Repos
      BY <1>2
    <3>4. \A x \in Repos : row'[x] <= made'[x] /\ made[x] <= made'[x]
                          /\ (row'[x] = row[x] \/ row'[x] > made[x])
      BY <1>2, <3>2, <3>3 DEF DeleteInv
    <3>5. \A q \in Requests :
            /\ req'[q].seen <= made'[req'[q].repo]
            /\ req'[q].step \in FoundSteps => req'[q].seen > 0
            /\ Deleted(q)' => row'[req'[q].repo] # req'[q].seen
      <4> TAKE q \in Requests
      <4>1. CASE q = p
        BY <1>1, <1>2, <3>1, <3>2, <3>3, <4>1
      <4>2. CASE q # p
        <5>1. req'[q] = req[q] /\ req[q].repo \in Repos /\ req[q].seen \in Nat
          BY <1>1, <1>2, <4>2
        <5>2. /\ req[q].seen <= made[req[q].repo]
              /\ req[q].step \in FoundSteps => req[q].seen > 0
              /\ Deleted(q) => row[req[q].repo] # req[q].seen
          BY DEF DeleteInv
        <5>3. /\ made[req[q].repo] <= made'[req[q].repo]
              /\ \/ row'[req[q].repo] = row[req[q].repo]
                 \/ row'[req[q].repo] > made[req[q].repo]
              /\ made[req[q].repo] \in Nat /\ made'[req[q].repo] \in Nat
          BY <1>2, <3>2, <3>4, <5>1
        <5> QED BY <5>1, <5>2, <5>3
      <4> QED BY <4>1, <4>2
    <3>6. \A e \in audit' :
            e.action = "repository.delete" =>
              /\ e.incarnation \in 1..made'[e.repo]
              /\ row'[e.repo] # e.incarnation
      <4> TAKE e \in audit'
      <4>1. e \in audit /\ e.repo \in Repos /\ e.incarnation \in Nat
        BY <1>2, <3>2 DEF AuditEntry
      <4> QED BY <1>2, <3>2, <3>4, <4>1 DEF DeleteInv
    <3> QED BY <3>4, <3>5, <3>6 DEF DeleteInv
  <2> QED BY <2>1, <2>2
<1>5. CASE CreateAudit(p) \/ UpdateAudit(p)
  <2>1. /\ row' = row /\ made' = made
        /\ req'[p].step = "idle" /\ req'[p].seen = 0
        /\ \A e \in audit' : e.action = "repository.delete" => e \in audit
    BY <1>5, AnswerStep
       DEF CreateAudit, UpdateAudit, Answer, Becomes, Record, Entry
  <2> QED BY <1>1, <1>2, <2>1 DEF DeleteInv
<1>6. CASE DeleteRow(p)
  <2>1. /\ row' = [row EXCEPT ![req[p].repo] = 0]
        /\ made' = made /\ audit' = audit
        /\ req'[p].step = "delete_storage" /\ req'[p].seen = req[p].seen
        /\ req[p].step = "delete_row"
    BY <1>6, GoToStep DEF DeleteRow
  <2>2. \A x \in Repos : row'[x] = row[x] \/ row'[x] = 0
    BY <1>2, <2>1
  <2>3. row'[req[p].repo] = 0 /\ req[p].seen > 0
    BY <1>2, <2>1 DEF DeleteInv
  <2>4. \A q \in Requests :
          /\ req'[q].seen <= made'[req'[q].repo]
          /\ req'[q].step \in FoundSteps => req'[q].seen > 0
          /\ Deleted(q)' => row'[req'[q].repo] # req'[q].seen
    <3> TAKE q \in Requests
    <3>1. CASE q = p
      BY <1>1, <1>2, <2>1, <2>3, <3>1 DEF DeleteInv
    <3>2. CASE q # p
      BY <1>1, <1>2, <2>1, <2>2, <3>2 DEF DeleteInv
    <3> QED BY <3>1, <3>2
  <2>5. \A e \in audit' :
          e.action = "repository.delete" =>
            /\ e.incarnation \in 1..made'[e.repo]
            /\ row'[e.repo] # e.incarnation
    BY <1>2, <2>1, <2>2 DEF DeleteInv, AuditEntry
  <2>6. \A x \in Repos : row'[x] <= made'[x]
    BY <1>2, <2>1, <2>2 DEF DeleteInv
  <2> QED BY <2>4, <2>5, <2>6 DEF DeleteInv
<1>7. CASE DeleteAudit(p)
  <2>1. /\ row' = row /\ made' = made
        /\ req'[p].step = "idle" /\ req'[p].seen = 0
        /\ audit' = audit \cup
                      {Entry("repository.delete", req[p].repo, req[p].seen)}
    BY <1>7, AnswerStep DEF DeleteAudit, Answer, Becomes, Record
  <2>2. req[p].seen \in 1..made[req[p].repo] /\ row[req[p].repo] # req[p].seen
    BY <1>2, <1>7 DEF DeleteAudit, DeleteInv
  <2>3. \A e \in audit' :
          e.action = "repository.delete" =>
            /\ e.incarnation \in 1..made[e.repo]
            /\ row[e.repo] # e.incarnation
    BY <2>1, <2>2 DEF DeleteInv, Entry
  <2> QED BY <1>1, <1>2, <2>1, <2>3 DEF DeleteInv
<1> QED BY <1>3, <1>4, <1>5, <1>6, <1>7, HarmlessSteps

(* The inductive invariant holds in every reachable state.                 *)
LEMMA DeleteInvariant == Spec => []DeleteInv
<1> USE DEF FoundSteps, Deleted
<1>1. Init => DeleteInv
  BY RepositoriesAssumption DEF Init, NoRequest, DeleteInv
<1>2. TypeOK /\ DeleteInv /\ [Next]_vars => DeleteInv'
  <2> SUFFICES ASSUME TypeOK, DeleteInv, [Next]_vars
               PROVE  DeleteInv'
    OBVIOUS
  <2>0. /\ row \in [Repos -> Nat] /\ made \in [Repos -> Nat]
        /\ \A q \in Requests : req[q].repo \in Repos
    BY DEF TypeOK, Request
  <2>1. ASSUME UNCHANGED <<row, made, audit>>,
               \A q \in Requests :
                 \/ req'[q] = req[q]
                 \/ /\ req'[q].seen = 0 /\ req'[q].repo \in Repos
                    /\ req'[q].step \notin FoundSteps
        PROVE  DeleteInv'
    BY <2>0, <2>1 DEF DeleteInv
  <2>2. ASSUME NEW p \in Requests, NEW op \in Operations, NEW u \in Actors,
               NEW r \in Repos, NEW v \in Visibilities, Start(p, op, u, r, v)
        PROVE  DeleteInv'
    BY <2>1, <2>2 DEF Start, Becomes, DbUnchanged, TypeOK
  <2>3. ASSUME NEW p \in Requests, Serve(p)
        PROVE  DeleteInv'
    BY <2>3, ServeKeepsDeleteInv
  <2>4. ASSUME NEW p \in Requests, Fail(p)
        PROVE  DeleteInv'
    <3>1. /\ req'[p].step = "idle" /\ req'[p].seen = 0
          /\ req'[p].repo \in Repos
          /\ \A q \in Requests \ {p} : req'[q] = req[q]
          /\ UNCHANGED <<row, made, audit>>
      BY <2>4, AnswerStep, EndedType
         DEF Fail, Answer, Becomes, DbUnchanged, TypeOK, Request
    <3> QED BY <2>1, <3>1
  <2>5. ASSUME NEW org \in Organizations, NEW u \in Users, NEW role \in Roles,
               AddMember(org, u, role)
        PROVE  DeleteInv'
    BY <2>1, <2>5 DEF AddMember
  <2>6. CASE Crash
    <3>1. \A q \in Requests : /\ req'[q].seen = 0 /\ req'[q].repo \in Repos
                              /\ req'[q].step = "idle"
      BY <2>6 DEF Crash, Ended, NoRequest, TypeOK, Request
    <3> QED BY <2>1, <2>6, <3>1 DEF Crash, DbUnchanged
  <2>7. CASE UNCHANGED vars
    BY <2>1, <2>7 DEF vars
  <2> QED BY <2>2, <2>3, <2>4, <2>5, <2>6, <2>7 DEF Next
<1> QED BY <1>1, <1>2, Typing, PTL DEF Spec

(* Once the audit log says that an incarnation was deleted, it never has a *)
(* row again.                                                              *)
THEOREM AuditedDeleteIsFinalAlways == Spec => []AuditedDeleteIsFinal
<1>1. DeleteInv => AuditedDeleteIsFinal
  BY DEF DeleteInv, AuditedDeleteIsFinal
<1> QED BY <1>1, DeleteInvariant, PTL
-----------------------------------------------------------------------------
(***************************************************************************)
(* What is left of the directory of a repository, and of its audit trail,  *)
(* while requests are between two of their steps.                          *)
(***************************************************************************)

(* The steps that touch neither rows nor directories, and that belong to   *)
(* no request with a row, a directory or an audit entry half done.         *)
PendingSteps == {"create_head", "create_insert", "create_audit",
                 "delete_storage"}

Aside(p) ==
  /\ UNCHANGED <<row, made, storage, content>>
  /\ audit \subseteq audit'
  /\ req[p].step \notin PendingSteps

(* All steps but those on rows and directories, and the entry of a         *)
(* creation, are aside.                                                    *)
LEMMA AsideSteps ==
  ASSUME NEW p \in Requests,
         Serve(p), ~CreateInit(p), ~CreateHead(p), ~CreateInsert(p),
         ~CreateAudit(p), ~PushGit(p), ~DeleteRow(p), ~DeleteStorage(p)
  PROVE  Aside(p)
  BY DEF Serve, Create, Check, Git, Update, Delete,
     CreateAccess, Find, CheckRead, CheckWrite, ReadGit, UpdateRow,
     UpdateFind, UpdateAudit, DeleteAudit, Record, DbUnchanged,
     DiskUnchanged, At, Aside, PendingSteps

(* What an arrival, a failure, a crash or a new membership changes: no     *)
(* row, no directory and no audit entry; a request with something half     *)
(* done stops only by a fault, which notes a directory left behind.        *)
Outside ==
  /\ UNCHANGED <<row, made, storage, content, audit>>
  /\ raced \subseteq raced' /\ interrupted \subseteq interrupted'
  /\ faults' = faults \/ faults' > 0
  /\ \A q \in Requests :
       \/ req'[q] = req[q]
       \/ req[q].step \notin PendingSteps
       \/ /\ faults' > 0
          /\ req[q].step = "delete_storage" => req[q].repo \in interrupted'

(* ... and nothing but them is outside the service.                        *)
LEMMA OutsideSteps ==
  ASSUME TypeOK, [Next]_vars
  PROVE  Outside \/ \E p \in Requests : Serve(p)
<1> USE DEF DbUnchanged, DiskUnchanged, NoFault, Outside
<1>0. faults \in Nat
  BY DEF TypeOK
<1>1. ASSUME NEW p \in Requests, NEW op \in Operations, NEW u \in Actors,
             NEW r \in Repos, NEW v \in Visibilities, Start(p, op, u, r, v)
      PROVE  Outside
  BY <1>1 DEF Start, Becomes, At, PendingSteps, TypeOK
<1>2. ASSUME NEW p \in Requests, Fail(p)
      PROVE  Outside
  BY <1>0, <1>2 DEF Fail, Answer, Becomes, DeletingIn, At, TypeOK
<1>3. ASSUME NEW org \in Organizations, NEW u \in Users, NEW role \in Roles,
             AddMember(org, u, role)
      PROVE  Outside
  BY <1>3 DEF AddMember
<1>4. CASE Crash
  BY <1>0, <1>4 DEF Crash, DeletingIn, At
<1>5. CASE UNCHANGED vars
  BY <1>5 DEF vars
<1> QED BY <1>1, <1>2, <1>3, <1>4, <1>5 DEF Next

(* A step of a request is not a fault.                                     *)
LEMMA ServeHasNoFault ==
  ASSUME NEW p \in Requests, Serve(p)
  PROVE  UNCHANGED <<faults, interrupted>>
  BY DEF Serve, Create, Check, Git, Update, Delete,
     CreateAccess, CreateInit, CreateHead, CreateInsert, CreateAudit,
     Find, CheckRead, CheckWrite, ReadGit, PushGit, UpdateRow, UpdateFind,
     UpdateAudit, DeleteRow, DeleteStorage, DeleteAudit, NoFault

(* Every creation has its audit entry, or its request is still about to    *)
(* write it, or something failed: no path of createRepository inserts the  *)
(* row and returns without recording it.                                   *)
THEOREM CreationsAuditedAlways == Spec => []CreationsAudited
<1>1. Init => CreationsAudited
  BY DEF Init, CreationsAudited
<1>2. TypeOK /\ CreationsAudited /\ [Next]_vars => CreationsAudited'
  <2> SUFFICES ASSUME TypeOK, CreationsAudited, [Next]_vars
               PROVE  CreationsAudited'
    OBVIOUS
  <2> USE DEF At
  <2>0. /\ made \in [Repos -> Nat]
        /\ \A q \in Requests : req[q].repo \in Repos
    BY DEF TypeOK, Request
  <2>1. CASE Outside
    BY <2>1 DEF Outside, CreationsAudited, PendingSteps
  <2>2. ASSUME NEW p \in Requests, Serve(p)
        PROVE  CreationsAudited'
    <3>0. /\ faults' = faults
          /\ req'[p].repo = req[p].repo
          /\ \A q \in Requests \ {p} : req'[q] = req[q]
      BY <2>2, ServeHasNoFault, ServeAdvances DEF Advances, TypeOK
    <3>1. ASSUME made' = made, audit \subseteq audit',
                 req[p].step # "create_audit"
          PROVE  CreationsAudited'
      BY <3>0, <3>1 DEF CreationsAudited
    <3>2. CASE CreateInsert(p) /\ row[req[p].repo] = 0
      <4>1. /\ made' = [made EXCEPT ![req[p].repo] = made[req[p].repo] + 1]
            /\ req'[p].step = "create_audit"
            /\ req'[p].seen = made[req[p].repo] + 1
            /\ audit' = audit /\ req[p].step = "create_insert"
        BY <3>2, InsertStep DEF CreateInsert
      <4> SUFFICES ASSUME NEW r \in Repos, NEW i \in 1..made'[r]
                   PROVE  \/ Entry("repository.create", r, i) \in audit'
                          \/ \E q \in Requests :
                               /\ req'[q].step = "create_audit"
                               /\ req'[q].repo = r /\ req'[q].seen = i
                          \/ faults' > 0
        BY DEF CreationsAudited
      <4>2. CASE r = req[p].repo /\ i = made[r] + 1
        BY <3>0, <4>1, <4>2
      <4>3. CASE ~(r = req[p].repo /\ i = made[r] + 1)
        <5>1. i \in 1..made[r]
          BY <2>0, <4>1, <4>3
        <5> QED BY <3>0, <4>1, <5>1 DEF CreationsAudited
      <4> QED BY <4>2, <4>3
    <3>3. CASE CreateAudit(p)
      <4>1. /\ made' = made
            /\ audit' = audit \cup {Entry("repository.create",
                                          req[p].repo, req[p].seen)}
        BY <3>3 DEF CreateAudit, Record
      <4> QED BY <3>0, <4>1 DEF CreationsAudited
    <3>4. CASE /\ ~CreateAudit(p)
               /\ ~(CreateInsert(p) /\ row[req[p].repo] = 0)
      <4>1. made' = made /\ audit \subseteq audit'
            /\ req[p].step # "create_audit"
        BY <2>2, <3>4, AsideSteps
           DEF Aside, PendingSteps, CreateInit, CreateHead, CreateInsert,
               PushGit, DeleteRow, DeleteStorage, DbUnchanged
      <4> QED BY <3>1, <4>1
    <3> QED BY <3>2, <3>3, <3>4
  <2> QED BY <2>1, <2>2, OutsideSteps
<1> QED BY <1>1, <1>2, Typing, PTL DEF Spec

(* Without failures no directory is left without a row: whoever prepared   *)
(* it, or deleted its row, is still running and will insert the row or     *)
(* remove the directory.                                                   *)
THEOREM NoLeakedStorageAlways == Spec => []NoLeakedStorage
<1>1. Init => NoLeakedStorage
  BY DEF Init, NoLeakedStorage
<1>2. TypeOK /\ NoLeakedStorage /\ [Next]_vars => NoLeakedStorage'
  <2> SUFFICES ASSUME TypeOK, NoLeakedStorage, [Next]_vars
               PROVE  NoLeakedStorage'
    OBVIOUS
  <2>0. /\ row \in [Repos -> Nat] /\ made \in [Repos -> Nat]
        /\ storage \in [Repos -> {"absent", "bare", "ready"}]
        /\ faults \in Nat
        /\ \A q \in Requests : req[q].repo \in Repos
    BY DEF TypeOK, Request
  <2>1. CASE Outside
    BY <2>0, <2>1 DEF Outside, NoLeakedStorage, PendingSteps
  <2>2. ASSUME NEW p \in Requests, Serve(p)
        PROVE  NoLeakedStorage'
    <3> USE DEF At, DbUnchanged, DiskUnchanged
    <3>0. /\ faults' = faults
          /\ req'[p].repo = req[p].repo
          /\ \A q \in Requests \ {p} : req'[q] = req[q]
      BY <2>2, ServeHasNoFault, ServeAdvances DEF Advances, TypeOK
    <3>1. ASSUME UNCHANGED <<row, storage>>,
                 req[p].step \notin {"create_head", "create_insert",
                                     "delete_storage"}
          PROVE  NoLeakedStorage'
      BY <3>0, <3>1 DEF NoLeakedStorage
    <3>2. ASSUME \A x \in Repos \ {req[p].repo} :
                   row'[x] = row[x] /\ storage'[x] = storage[x],
                 \/ storage'[req[p].repo] = "absent"
                 \/ row'[req[p].repo] # 0
                 \/ req'[p].step \in {"create_head", "create_insert",
                                      "delete_storage"}
          PROVE  NoLeakedStorage'
      BY <3>0, <3>2 DEF NoLeakedStorage
    <3>3. CASE CreateInit(p)
      BY <2>0, <3>2, <3>3, GoToStep DEF CreateInit
    <3>4. CASE CreateHead(p)
      BY <2>0, <3>2, <3>4, GoToStep DEF CreateHead
    <3>5. CASE CreateInsert(p)
      <4>1. CASE row[req[p].repo] # 0
        <5>1. row' = row /\ storage' = storage
          BY <3>5, <4>1 DEF CreateInsert
        <5> QED BY <3>2, <4>1, <5>1
      <4>2. CASE row[req[p].repo] = 0
        <5>1. row' = [row EXCEPT ![req[p].repo] = made[req[p].repo] + 1]
              /\ storage' = storage
          BY <3>5, <4>2, InsertStep DEF CreateInsert
        <5>2. row'[req[p].repo] # 0
              /\ \A x \in Repos \ {req[p].repo} : row'[x] = row[x]
          BY <2>0, <5>1
        <5> QED BY <3>2, <5>1, <5>2
      <4> QED BY <4>1, <4>2
    <3>6. CASE DeleteRow(p)
      BY <2>0, <3>2, <3>6, GoToStep DEF DeleteRow
    <3>7. CASE DeleteStorage(p)
      BY <2>0, <3>2, <3>7 DEF DeleteStorage
    <3>8. CASE CreateAudit(p) \/ PushGit(p)
      BY <3>1, <3>8 DEF CreateAudit, PushGit
    <3>9. CASE Aside(p)
      BY <3>1, <3>9 DEF Aside, PendingSteps
    <3> QED
      BY <2>2, <3>3, <3>4, <3>5, <3>6, <3>7, <3>8, <3>9, AsideSteps
  <2> QED BY <2>1, <2>2, OutsideSteps
<1> QED BY <1>1, <1>2, Typing, PTL DEF Spec
-----------------------------------------------------------------------------
(***************************************************************************)
(* The inductive invariant behind ContentIsOwn, outside the repositories   *)
(* with an overlap or an interrupted delete: what a directory holds        *)
(* belongs to the row of its id, and when there is no row it is empty or a *)
(* delete is still about to remove it.  A push that reaches the directory  *)
(* of its own row needs that it saw a row at all (DeleteInv), and a create *)
(* that inserts a new row needs that no delete is pending (StorageInv).    *)
(***************************************************************************)
OwnInv ==
  \A r \in Repos \ (raced \cup interrupted) :
     /\ row[r] # 0 => content[r] \subseteq {row[r]}
     /\ row[r] = 0 =>
          \/ content[r] = {}
          \/ \E p \in Requests :
               req[p].repo = r /\ req[p].step = "delete_storage"

(* A directory that belongs to its row, or is about to be removed, is left *)
(* so by every step of a request.                                          *)
LEMMA ServeKeepsOwnInv ==
  ASSUME TypeOK, StorageInv, DeleteInv, OwnInv, NEW p \in Requests, Serve(p)
  PROVE  OwnInv'
<1> USE DEF At, DbUnchanged, DiskUnchanged
<1> SUFFICES ASSUME NEW r \in Repos, r \notin raced' \cup interrupted'
             PROVE  /\ row'[r] # 0 => content'[r] \subseteq {row'[r]}
                    /\ row'[r] = 0 =>
                         \/ content'[r] = {}
                         \/ \E q \in Requests :
                              /\ req'[q].repo = r
                              /\ req'[q].step = "delete_storage"
  BY DEF OwnInv
<1>1. /\ r \notin raced \cup interrupted
      /\ ~Overlap(req, r)
  BY ServeNotesOverlap, ServeHasNoFault DEF StorageInv
<1>2. /\ row[r] # 0 => content[r] \subseteq {row[r]}
      /\ row[r] = 0 =>
           \/ content[r] = {}
           \/ \E q \in Requests :
                req[q].repo = r /\ req[q].step = "delete_storage"
  BY <1>1 DEF OwnInv
<1>3. /\ req'[p].repo = req[p].repo
      /\ \A q \in Requests \ {p} : req'[q] = req[q]
  BY ServeAdvances DEF Advances, TypeOK
<1>4. /\ row \in [Repos -> Nat] /\ made \in [Repos -> Nat]
      /\ content \in [Repos -> SUBSET Nat]
      /\ req[p].repo \in Repos /\ req[p].seen \in Nat
  BY DEF TypeOK, Request
<1>5. ASSUME row'[r] = row[r], content'[r] = content[r],
             req[p].step # "delete_storage" \/ req[p].repo # r
      PROVE  /\ row'[r] # 0 => content'[r] \subseteq {row'[r]}
             /\ row'[r] = 0 =>
                  \/ content'[r] = {}
                  \/ \E q \in Requests :
                       req'[q].repo = r /\ req'[q].step = "delete_storage"
  BY <1>2, <1>3, <1>5
<1>6. CASE req[p].repo # r
  <2>1. row'[r] = row[r] /\ content'[r] = content[r]
    BY <1>4, <1>6 DEF Serve, Create, Check, Git, Update, Delete,
       CreateAccess, CreateInit, CreateHead, CreateInsert, CreateAudit,
       Find, CheckRead, CheckWrite, ReadGit, PushGit, UpdateRow,
       UpdateFind, UpdateAudit, DeleteRow, DeleteStorage, DeleteAudit
  <2> QED BY <1>5, <1>6, <2>1
<1>7. CASE req[p].repo = r /\ CreateInsert(p)
  <2>1. CASE row[r] # 0
    BY <1>5, <1>7, <2>1 DEF CreateInsert
  <2>2. CASE row[r] = 0
    <3>1. content[r] = {}
      BY <1>1, <1>2, <1>7, <2>2 DEF CreateInsert, Overlap
    <3>2. content' = content /\ row'[r] = made[r] + 1
      BY <1>4, <1>7, <2>2, InsertStep DEF CreateInsert
    <3> QED BY <1>4, <3>1, <3>2
  <2> QED BY <2>1, <2>2
<1>8. CASE req[p].repo = r /\ PushGit(p)
  <2>1. req[p].seen > 0 /\ req[p].seen = row[r] /\ row' = row
        /\ (content'[r] = content[r]
            \/ content'[r] = content[r] \cup {req[p].seen})
    BY <1>4, <1>8 DEF PushGit, DeleteInv, FoundSteps
  <2> QED BY <1>2, <1>4, <2>1
<1>9. CASE req[p].repo = r /\ DeleteRow(p)
  <2>1. row'[r] = 0 /\ req'[p].step = "delete_storage"
    BY <1>4, <1>9, GoToStep DEF DeleteRow
  <2> QED BY <1>3, <1>9, <2>1
<1>10. CASE req[p].repo = r /\ DeleteStorage(p)
  BY <1>4, <1>10 DEF DeleteStorage
<1>11. CASE CreateInit(p) \/ CreateHead(p) \/ CreateAudit(p)
  BY <1>5, <1>11 DEF CreateInit, CreateHead, CreateAudit
<1>12. CASE Aside(p)
  BY <1>5, <1>12 DEF Aside, PendingSteps
<1> QED
  BY <1>6, <1>7, <1>8, <1>9, <1>10, <1>11, <1>12, AsideSteps

(* A repository holds only what was pushed to it: a new repository of the  *)
(* same name never shows the content of the one deleted before it, unless  *)
(* a delete overlapped a create or a push, or stopped before the removal.  *)
THEOREM ContentIsOwnAlways == Spec => []ContentIsOwn
<1>1. Init => OwnInv
  BY DEF Init, OwnInv
<1>2. TypeOK /\ StorageInv /\ DeleteInv /\ OwnInv /\ [Next]_vars => OwnInv'
  <2> SUFFICES ASSUME TypeOK, StorageInv, DeleteInv, OwnInv, [Next]_vars
               PROVE  OwnInv'
    OBVIOUS
  <2>1. CASE Outside
    BY <2>1 DEF Outside, OwnInv, PendingSteps
  <2>2. ASSUME NEW p \in Requests, Serve(p)
        PROVE  OwnInv'
    BY <2>2, ServeKeepsOwnInv
  <2> QED BY <2>1, <2>2, OutsideSteps
<1>3. OwnInv => ContentIsOwn
  BY DEF OwnInv, ContentIsOwn
<1> QED BY <1>1, <1>2, <1>3, Typing, StorageInvariant, DeleteInvariant, PTL
        DEF Spec
=============================================================================
