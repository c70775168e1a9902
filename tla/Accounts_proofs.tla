-------------------------- MODULE Accounts_proofs --------------------------
(***************************************************************************)
(* Proofs about Accounts, for every number of requests and every set of    *)
(* names.                                                                  *)
(***************************************************************************)
EXTENDS Accounts, FiniteSetTheorems, TLAPS

(***************************************************************************)
(* What is true of a request wherever it stands.  What an earlier          *)
(* statement found out about its actor, its organization and the member to *)
(* add stays true, because rows are never removed and roles never change.  *)
(***************************************************************************)
MayAdd(r) == IsAdmin(r.actor) \/ MemberAs(r.name, r.actor, "owner")

Registering == {"org_exists", "any_user", "insert_user"}
Adding == {"writable", "find_member", "insert_member"}

Standing(r) ==
  /\ r \in Request
  /\ r.actor # Anonymous => Registered(r.actor)
  /\ r.step \in Steps \ (Registering \cup {"idle", "audit"})
       => r.actor # Anonymous
  /\ r.step \in Registering => r.as \in UserRoles
  /\ r.step \in Registering \cup {"readable"} \cup Adding => r.op # "create_org"
  /\ r.step = "readable" /\ r.op # "read_org" => r.as \in MemberRoles
  /\ r.step \in Adding => r.as \in MemberRoles /\ r.name \in orgs
  /\ r.step \in {"find_member", "insert_member"} => MayAdd(r)
  /\ r.step = "insert_member" => Registered(r.user)

Types == TypeOK /\ \A p \in Requests : Standing(req[p])

(***************************************************************************)
(* What a step does to its request: it stands where the statement has put  *)
(* it.  The conjuncts before the last two are what a registration and a    *)
(* creation find out, each in the other's table; the last two say that     *)
(* whoever is to become the owner is the creator of the organization, and  *)
(* that a creation is recorded only once the owner's row is in.            *)
(***************************************************************************)
Checking == {"any_user", "insert_user"}

NobodyRegistered == \A n \in Names : ~Registered(n)

Becoming(p, record) ==
  /\ Standing(record)
  /\ record.step \in Checking =>
       /\ UNCHANGED <<role, orgs>>
       /\ \/ record.name \notin orgs
          \/ At(p, "any_user") /\ record.name = req[p].name
  /\ record.step = "insert_org" =>
       UNCHANGED <<role, orgs>> /\ ~Registered(record.name)
  /\ record.step = "insert_user" /\ record.as = "admin" =>
       IsAdmin(record.actor) \/ NobodyRegistered
  /\ record.step = "insert_owner" =>
       record.name \in orgs' /\ created_by'[record.name] = record.actor
  /\ record.step = "audit" /\ record.op = "create_org" =>
       /\ At(p, "insert_owner") /\ record.name = req[p].name
       /\ UNCHANGED <<orgs, created_by>>
       /\ <<record.name, req[p].actor, "owner">> \in members'

Moves(p) == \E record : Becomes(p, record) /\ Becoming(p, record)

(* What it does to the tables: nothing, or one of the four INSERTs.  A     *)
(* creation that ends without the owner's row has stopped or was refused.  *)
Stays(p) ==
  /\ UNCHANGED <<role, orgs, created_by, members, bootstraps>>
  /\ interrupted \subseteq interrupted'
  /\ At(p, "insert_owner") =>
       \/ req[p].name \in interrupted'
       \/ IsMember(req[p].name, req[p].actor)

InsertsUser(p) ==
  /\ At(p, "insert_user")
  /\ ~Registered(req[p].name)
  /\ role' = [role EXCEPT ![req[p].name] = req[p].as]
  /\ bootstraps' = IF req[p].as = "admin" /\ ~IsAdmin(req[p].actor)
                     THEN bootstraps \cup {req[p].name} ELSE bootstraps
  /\ UNCHANGED <<orgs, created_by, members, interrupted>>

InsertsOrganization(p) ==
  /\ At(p, "insert_org")
  /\ req[p].name \notin orgs
  /\ orgs' = orgs \cup {req[p].name}
  /\ created_by' = [created_by EXCEPT ![req[p].name] = req[p].actor]
  /\ GoTo(p, "insert_owner")
  /\ UNCHANGED <<role, members, bootstraps, interrupted>>

InsertsOwner(p) ==
  /\ At(p, "insert_owner")
  /\ members' = members \cup {<<req[p].name, req[p].actor, "owner">>}
  /\ UNCHANGED <<role, orgs, created_by, bootstraps, interrupted>>

InsertsMember(p) ==
  /\ At(p, "insert_member")
  /\ members' = members \cup {<<req[p].name, req[p].user, req[p].as>>}
  /\ UNCHANGED <<role, orgs, created_by, bootstraps, interrupted>>

(* Only a recorded creation adds a creation to the log.                    *)
Records(p) ==
  \A n \in Names : <<"organization.create", n>> \in audit' =>
     \/ <<"organization.create", n>> \in audit
     \/ At(p, "audit") /\ req[p].op = "create_org" /\ req[p].name = n

Writes(p) ==
  /\ \/ Stays(p) \/ InsertsUser(p) \/ InsertsOrganization(p)
     \/ InsertsOwner(p) \/ InsertsMember(p)
  /\ audit' \subseteq {Action(op) : op \in Operations} \X Names
  /\ started' \in Nat
  /\ interrupted' \subseteq Names
  /\ Records(p)
-----------------------------------------------------------------------------
(* A request that moves on keeps everything but its step.                  *)
LEMMA StepOf ==
  ASSUME TypeOK, NEW p \in Requests, NEW step \in Steps
  PROVE  LET record == [req[p] EXCEPT !.step = step]
         IN  /\ record \in Request /\ record.step = step
             /\ record.op = req[p].op /\ record.actor = req[p].actor
             /\ record.name = req[p].name /\ record.user = req[p].user
             /\ record.as = req[p].as
  BY DEF TypeOK, Request

(* An answered request keeps no credentials.                               *)
LEMMA AnswerMoves ==
  ASSUME Types, NEW p \in Requests, Answer(p)
  PROVE  Moves(p)
<1> DEFINE record == Ended(req[p])
<1>1. /\ record \in Request /\ record.step = "idle"
      /\ record.actor = Anonymous
  BY DEF Types, TypeOK, Request, Ended, Steps, Operations, MemberRoles
<1>2. Becomes(p, record)
  BY DEF Answer
<1> HIDE DEF record
<1>3. Standing(record)
  BY <1>1 DEF Standing, Registering, Adding
<1> QED BY <1>1, <1>2, <1>3 DEF Moves, Becoming, Checking

(* A request goes on to a statement with what the one before has found.    *)
LEMMA GoToMoves ==
  ASSUME Types, NEW p \in Requests,
         NEW step \in Steps \ {"idle", "org_exists", "readable"},
         GoTo(p, step),
         step \notin Checking \cup {"audit"} => req[p].actor # Anonymous,
         step \in Checking =>
           /\ At(p, "org_exists") \/ At(p, "any_user")
           /\ UNCHANGED <<role, orgs>>
           /\ req[p].name \notin orgs \/ At(p, "any_user"),
         step = "insert_user" /\ req[p].as = "admin" =>
           IsAdmin(req[p].actor) \/ NobodyRegistered,
         step = "insert_org" =>
           UNCHANGED <<role, orgs>> /\ ~Registered(req[p].name),
         step = "insert_owner" =>
           req[p].name \in orgs' /\ created_by'[req[p].name] = req[p].actor,
         step \in Registering \cup Adding => req[p].op # "create_org",
         step = "audit" /\ req[p].op = "create_org" =>
           /\ At(p, "insert_owner")
           /\ UNCHANGED <<orgs, created_by>>
           /\ <<req[p].name, req[p].actor, "owner">> \in members',
         step \in Adding => req[p].as \in MemberRoles /\ req[p].name \in orgs,
         step \in {"find_member", "insert_member"} => MayAdd(req[p]),
         step = "insert_member" => Registered(req[p].user)
  PROVE  Moves(p)
<1> DEFINE record == [req[p] EXCEPT !.step = step]
<1>1. /\ record \in Request /\ record.step = step
      /\ record.op = req[p].op /\ record.actor = req[p].actor
      /\ record.name = req[p].name /\ record.user = req[p].user
      /\ record.as = req[p].as
  BY StepOf DEF Types
<1>2. Becomes(p, record)
  BY DEF GoTo
<1> HIDE DEF record
<1>3. /\ req[p].actor # Anonymous => Registered(req[p].actor)
      /\ step \in Checking => req[p].as \in UserRoles
  BY DEF Types, Standing, Registering, At
<1>4. MayAdd(record) <=> MayAdd(req[p])
  BY <1>1 DEF MayAdd
<1>5. Standing(record)
  BY <1>1, <1>3, <1>4 DEF Standing, Registering, Checking, Adding
<1>6. Becoming(p, record)
  BY <1>1, <1>5 DEF Becoming, Checking
<1> QED BY <1>2, <1>6 DEF Moves

(* Every step of a request is such a move.                                 *)
LEMMA ServeMoves ==
  ASSUME Types, NEW p \in Requests, Serve(p) \/ Fail(p)
  PROVE  Moves(p)
<1> USE DEF OnlyRequests, TablesUnchanged, HistoryUnchanged
<1> DEFINE r == req[p]
<1>0. /\ Standing(r)
      /\ At(p, r.step)
      /\ \A step : At(p, step) <=> r.step = step
      /\ r.step \in Registering \cup {"readable"} \cup Adding =>
           r.op # "create_org"
  BY DEF Types, Standing, At
<1>1. CASE OrganizationExists(p)
  <2>1. Answer(p) \/ \E step \in {"any_user", "insert_user"} :
          /\ GoTo(p, step) /\ r.name \notin orgs
          /\ step = "insert_user" => r.as # "admin"
    BY <1>1 DEF OrganizationExists
  <2> QED
    BY <1>0, <1>1, <2>1, AnswerMoves, GoToMoves
       DEF OrganizationExists, Checking, Registering, Adding, Steps
<1>2. CASE AnyUser(p)
  <2>1. Answer(p) \/ (/\ GoTo(p, "insert_user")
                      /\ IsAdmin(r.actor) \/ NobodyRegistered)
    BY <1>2 DEF AnyUser, NobodyRegistered
  <2> QED
    BY <1>0, <1>2, <2>1, AnswerMoves, GoToMoves
       DEF AnyUser, Checking, Registering, Adding, Steps
<1>3. CASE InsertUser(p)
  BY <1>0, <1>3, AnswerMoves, GoToMoves
     DEF InsertUser, Checking, Registering, Adding, Steps
<1>4. CASE FindUser(p)
  BY <1>0, <1>4, AnswerMoves, GoToMoves
     DEF FindUser, Checking, Adding, Steps, Standing, Registering
<1>5. CASE InsertOrganization(p)
  <2>1. r.name \in Names /\ created_by \in [Names -> Names \cup {Anonymous}]
    BY DEF Types, TypeOK, Request
  <2> QED
    BY <1>0, <1>5, <2>1, AnswerMoves, GoToMoves
       DEF InsertOrganization, Checking, Adding, Steps, Standing, Registering
<1>6. CASE InsertOwner(p)
  BY <1>0, <1>6, AnswerMoves, GoToMoves
     DEF InsertOwner, Checking, Registering, Adding, Steps
<1>7. CASE Readable(p)
  <2>1. r.actor # Anonymous /\ (r.op # "read_org" => r.as \in MemberRoles)
    BY <1>0, <1>7 DEF Readable, Standing, Registering, Steps
  <2>2. Answer(p) \/ \E step \in {"read", "writable"} :
          /\ GoTo(p, step) /\ r.name \in orgs
          /\ step = "writable" => r.op # "read_org"
    BY <1>7 DEF Readable
  <2> QED
    BY <1>0, <1>7, <2>1, <2>2, AnswerMoves, GoToMoves
       DEF Readable, Checking, Registering, Adding, Steps
<1>8. CASE Writable(p)
  BY <1>0, <1>8, AnswerMoves, GoToMoves
     DEF Writable, Checking, Adding, Steps, Standing, Registering, MayAdd
<1>9. CASE FindMember(p)
  BY <1>0, <1>9, AnswerMoves, GoToMoves
     DEF FindMember, Checking, Adding, Steps, Standing, Registering
<1>10. CASE InsertMember(p)
  BY <1>0, <1>10, AnswerMoves, GoToMoves
     DEF InsertMember, Checking, Registering, Adding, Steps
<1>11. CASE Read(p) \/ Audit(p) \/ Fail(p)
  BY <1>11, AnswerMoves DEF Read, Audit, Fail
<1> QED
  BY <1>1, <1>2, <1>3, <1>4, <1>5, <1>6, <1>7, <1>8, <1>9, <1>10, <1>11
     DEF Serve, Register, CreateOrganization, AddMember

(* The arrival of a request is one too, and leaves the tables alone.       *)
LEMMA StartMoves ==
  ASSUME Types, NEW p \in Requests, NEW op \in Operations,
         NEW u \in Names \cup {Anonymous}, NEW n \in Names, NEW m \in Names,
         NEW as \in UserRoles \cup MemberRoles, Start(p, op, u, n, m, as)
  PROVE  Moves(p) /\ Writes(p)
<1> DEFINE record == [step |-> FirstStep(op), op |-> op, actor |-> u,
                      name |-> n, user |-> m, as |-> as]
<1>1. /\ FirstStep(op) \in {"org_exists", "find_user", "readable"}
      /\ FirstStep(op) = "org_exists" <=> op = "register"
      /\ FirstStep(op) = "readable" => op # "create_org"
  BY DEF FirstStep
<1>2. /\ record \in Request /\ record.step = FirstStep(op)
      /\ record.op = op /\ record.actor = u /\ record.as = as
  BY <1>1 DEF Request, Steps
<1>3. Becomes(p, record)
  BY DEF Start
<1> HIDE DEF record
<1>4. /\ u # Anonymous => Registered(u)
      /\ op # "register" => u # Anonymous
      /\ op = "register" => as \in UserRoles
      /\ op = "add_member" => as \in MemberRoles
  BY DEF Start
<1>5. op \in {"create_org", "register", "read_org", "add_member"}
  BY DEF Operations
<1>6. Standing(record)
  BY <1>1, <1>2, <1>4, <1>5 DEF Standing, Registering, Adding
<1>7. Moves(p)
  BY <1>1, <1>2, <1>3, <1>6 DEF Moves, Becoming, Checking
<1>8. Writes(p)
  BY DEF Start, TablesUnchanged, Writes, Records, Stays, At, Types, TypeOK
<1> QED BY <1>7, <1>8

(* The tables change only by one of the four INSERTs.                      *)
LEMMA ServeWrites ==
  ASSUME Types, NEW p \in Requests, Serve(p) \/ Fail(p)
  PROVE  Writes(p)
<1> USE DEF OnlyRequests, TablesUnchanged, HistoryUnchanged
<1>1. /\ audit \subseteq {Action(op) : op \in Operations} \X Names
      /\ <<Action(req[p].op), req[p].name>>
           \in {Action(op) : op \in Operations} \X Names
      /\ started \in Nat /\ interrupted \subseteq Names
      /\ req[p].name \in Names
      /\ Action(req[p].op) = "organization.create" <=> req[p].op = "create_org"
  BY DEF Types, TypeOK, Request, Action
<1>2. CASE InsertUser(p)
  BY <1>1, <1>2 DEF InsertUser, InsertsUser, Writes, Records, Stays, At
<1>3. CASE InsertOrganization(p)
  BY <1>1, <1>3 DEF InsertOrganization, InsertsOrganization, Writes, Records,
                    Stays, At
<1>4. CASE InsertOwner(p)
  BY <1>1, <1>4 DEF InsertOwner, InsertsOwner, Writes, Records, Stays
<1>5. CASE InsertMember(p)
  BY <1>1, <1>5 DEF InsertMember, InsertsMember, Writes, Records, Stays, At
<1>6. CASE Audit(p)
  BY <1>1, <1>6 DEF Audit, Writes, Records, Stays, At
<1>7. CASE Fail(p)
  BY <1>1, <1>7 DEF Fail, Writes, Records, Stays, At
<1>8. CASE OrganizationExists(p) \/ AnyUser(p) \/ FindUser(p) \/ Readable(p)
           \/ Read(p) \/ Writable(p) \/ FindMember(p)
  BY <1>1, <1>8 DEF OrganizationExists, AnyUser, FindUser, Readable, Read,
                    Writable, FindMember, Writes, Records, Stays, At
<1> QED
  BY <1>2, <1>3, <1>4, <1>5, <1>6, <1>7, <1>8
     DEF Serve, Register, CreateOrganization, AddMember
-----------------------------------------------------------------------------
(* Rows are only added: a registered user keeps the role, an organization  *)
(* its name and its creator, a member the membership.                      *)
TablesGrow ==
  /\ \A n \in Names : Registered(n) => role'[n] = role[n]
  /\ orgs \subseteq orgs'
  /\ \A n \in orgs : created_by'[n] = created_by[n]
  /\ members \subseteq members'

(* The tables a write leaves behind are typed, and larger.                 *)
LEMMA WritesTables ==
  ASSUME Types, NEW p \in Requests, Writes(p)
  PROVE  /\ TablesGrow
         /\ role' \in [Names -> UserRoles \cup {"none"}]
         /\ orgs' \subseteq Names
         /\ created_by' \in [Names -> Names \cup {Anonymous}]
         /\ members' \subseteq Names \X Names \X MemberRoles
         /\ bootstraps' \subseteq Names
<1> DEFINE r == req[p]
<1>1. r.name \in Names /\ r.user \in Names
  BY DEF Types, TypeOK, Request
<1>2. CASE Stays(p)
  BY <1>2 DEF Stays, TablesGrow, Types, TypeOK
<1>3. CASE InsertsUser(p)
  <2>1. r.as \in UserRoles
    BY <1>3 DEF InsertsUser, Types, Standing, Registering, At
  <2> QED BY <1>1, <1>3, <2>1 DEF InsertsUser, TablesGrow, Types, TypeOK
<1>4. CASE InsertsOrganization(p)
  <2>1. r.actor \in Names \cup {Anonymous}
    BY DEF Types, TypeOK, Request
  <2> QED
    BY <1>1, <1>4, <2>1 DEF InsertsOrganization, TablesGrow, Types, TypeOK
<1>5. CASE InsertsOwner(p)
  <2>1. r.actor # Anonymous
    BY <1>5 DEF InsertsOwner, Types, Standing, Registering, At, Steps
  <2>2. r.actor \in Names /\ "owner" \in MemberRoles
    BY <2>1 DEF Types, TypeOK, Request, MemberRoles
  <2> QED BY <1>1, <1>5, <2>2 DEF InsertsOwner, TablesGrow, Types, TypeOK
<1>6. CASE InsertsMember(p)
  <2>1. r.as \in MemberRoles
    BY <1>6 DEF InsertsMember, Types, Standing, Adding, At
  <2> QED BY <1>1, <1>6, <2>1 DEF InsertsMember, TablesGrow, Types, TypeOK
<1> QED BY <1>2, <1>3, <1>4, <1>5, <1>6 DEF Writes

(* What a request has found out stays true while the tables grow.          *)
LEMMA StandingStays ==
  ASSUME TablesGrow, NEW record, Standing(record)
  PROVE  Standing(record)'
<1>1. record.actor # Anonymous => record.actor \in Names
  BY DEF Standing, Request
<1>2. record.user \in Names
  BY DEF Standing, Request
<1>3. \A u \in Names : Registered(u) => Registered(u)'
  BY DEF TablesGrow, Registered
<1>4. MayAdd(record) => MayAdd(record)'
  BY <1>1 DEF MayAdd, IsAdmin, MemberAs, TablesGrow, Registered
<1> QED BY <1>1, <1>2, <1>3, <1>4 DEF Standing, TablesGrow

(* The record of a moving request takes its place, the others stay.        *)
LEMMA MovesRequests ==
  ASSUME Types, NEW p \in Requests, NEW record, Standing(record),
         Becomes(p, record)
  PROVE  /\ req' \in [Requests -> Request]
         /\ req'[p] = record
         /\ \A q \in Requests \ {p} : req'[q] = req[q]
  BY DEF Becomes, Types, TypeOK, Standing

(* Every move of a request keeps the types.                                *)
LEMMA MovesTypes ==
  ASSUME Types, NEW p \in Requests, Moves(p), Writes(p)
  PROVE  Types'
<1>1. PICK record : Becomes(p, record) /\ Becoming(p, record)
  BY DEF Moves
<1>2. Standing(record)
  BY <1>1 DEF Becoming
<1>3. /\ req' \in [Requests -> Request]
      /\ \A q \in Requests : req'[q] = record \/ req'[q] = req[q]
  BY <1>1, <1>2, MovesRequests
<1>4. \A q \in Requests : Standing(req'[q])
  BY <1>2, <1>3 DEF Types
<1>5. ASSUME NEW q \in Requests PROVE Standing(req[q])'
  <2> DEFINE next == req'[q]
  <2>1. Standing(next)
    BY <1>4
  <2> QED BY <2>1, StandingStays, WritesTables DEF Standing, MayAdd
<1>6. rushed' \in BOOLEAN /\ raced' \subseteq Names
  BY <1>1 DEF Becomes, Types, TypeOK
<1> QED BY <1>3, <1>5, <1>6, WritesTables DEF Writes, Types, TypeOK

(* The type invariant and the standing of the requests hold in every state.*)
LEMMA TypesInvariant == Spec => []Types
<1>1. Init => Types
  <2> SUFFICES ASSUME Init PROVE Types
    OBVIOUS
  <2>1. \A p \in Requests : /\ req[p] \in Request
                            /\ req[p].step = "idle"
                            /\ req[p].actor = Anonymous
    BY DEF Init, Request, Steps, Operations, MemberRoles
  <2>2. req \in [Requests -> Request]
    BY <2>1 DEF Init
  <2>3. \A p \in Requests : Standing(req[p])
    BY <2>1 DEF Standing, Registering, Adding
  <2> QED BY <2>2, <2>3 DEF Init, Types, TypeOK
<1>2. Types /\ [Next]_vars => Types'
  <2> SUFFICES ASSUME Types, [Next]_vars PROVE Types'
    OBVIOUS
  <2>1. CASE UNCHANGED vars
    BY <2>1 DEF vars, Types, TypeOK, Standing, MayAdd, IsAdmin, MemberAs,
                Registered
  <2> QED
    BY <2>1, StartMoves, ServeMoves, ServeWrites, MovesTypes DEF Next
<1> QED BY <1>1, <1>2, PTL DEF Spec

(* Every state has the types TypeOK gives: users with a role, memberships  *)
(* and organizations under valid names, well-formed requests.              *)
THEOREM Typing == Spec => []TypeOK
<1>1. Types => TypeOK
  BY DEF Types
<1> QED BY <1>1, TypesInvariant, PTL
-----------------------------------------------------------------------------
(***************************************************************************)
(* The inductive invariant behind NamesDisjoint: outside the raced names,  *)
(* a registration that has found no organization is still right about it,  *)
(* and so is a creation that has found no user.                            *)
(***************************************************************************)
NameInv ==
  /\ \A n \in Names : NamesOverlap(req, n) => n \in raced
  /\ \A n \in Names \ raced :
       /\ ~(Registered(n) /\ n \in orgs)
       /\ \A p \in Requests : req[p].name = n =>
            /\ req[p].step \in Checking => n \notin orgs
            /\ At(p, "insert_org") => ~Registered(n)

(* A step of a request keeps it: whoever inserts into one table while the  *)
(* name is being checked for the other has raced.                          *)
LEMMA NameStep ==
  ASSUME Types, NameInv, NEW p \in Requests, Moves(p), Writes(p)
  PROVE  NameInv'
<1>1. PICK record : Becomes(p, record) /\ Becoming(p, record)
  BY DEF Moves
<1>2. /\ req'[p] = record
      /\ \A q \in Requests \ {p} : req'[q] = req[q]
  BY <1>1, MovesRequests DEF Becoming
<1>3. raced' = raced \cup {n \in Names : NamesOverlap(req', n)}
  BY <1>1 DEF Becomes
<1>4. \A n \in Names : NamesOverlap(req, n)' => n \in raced'
  BY <1>3 DEF NamesOverlap
<1>5. ASSUME NEW n \in Names \ raced'
      PROVE  /\ ~(Registered(n)' /\ n \in orgs')
             /\ \A q \in Requests : req'[q].name = n =>
                  /\ req'[q].step \in Checking => n \notin orgs'
                  /\ req'[q].step = "insert_org" => ~Registered(n)'
  <2>1. n \in Names \ raced /\ ~NamesOverlap(req, n)
    BY <1>3, <1>5 DEF NameInv
  <2>2. InsertsUser(p) /\ req[p].name = n =>
          /\ n \notin orgs
          /\ \A q \in Requests : ~(req[q].name = n /\ req[q].step = "insert_org")
    BY <2>1 DEF InsertsUser, At, NameInv, Checking, NamesOverlap
  <2>3. InsertsOrganization(p) /\ req[p].name = n =>
          /\ ~Registered(n)
          /\ \A q \in Requests : ~(req[q].name = n /\ req[q].step \in Checking)
    BY <2>1 DEF InsertsOrganization, At, NameInv, Checking, NamesOverlap
  <2>4. Registered(n)' =>
          Registered(n) \/ (InsertsUser(p) /\ req[p].name = n)
    BY DEF Writes, Stays, InsertsUser, InsertsOrganization, InsertsOwner,
           InsertsMember, Registered, Types, TypeOK
  <2>5. n \in orgs' => n \in orgs \/ (InsertsOrganization(p) /\ req[p].name = n)
    BY DEF Writes, Stays, InsertsUser, InsertsOrganization, InsertsOwner,
           InsertsMember
  <2>6. ~(InsertsUser(p) /\ InsertsOrganization(p))
    BY DEF InsertsUser, InsertsOrganization, At
  <2>7. ~(Registered(n)' /\ n \in orgs')
    BY <2>1, <2>2, <2>3, <2>4, <2>5, <2>6 DEF NameInv
  <2>8. ASSUME NEW q \in Requests \ {p}, req[q].name = n
        PROVE  /\ req[q].step \in Checking => n \notin orgs'
               /\ req[q].step = "insert_org" => ~Registered(n)'
    BY <2>1, <2>2, <2>3, <2>4, <2>5, <2>8 DEF NameInv, At
  <2>9. ASSUME record.name = n, record.step \in Checking
        PROVE  n \notin orgs'
    <3>1. orgs' = orgs /\ (n \notin orgs \/ (At(p, "any_user") /\ req[p].name = n))
      BY <1>1, <2>9 DEF Becoming
    <3> QED BY <2>1, <3>1 DEF NameInv, Checking, At
  <2>10. ASSUME record.name = n, record.step = "insert_org"
         PROVE  ~Registered(n)'
    BY <1>1, <2>10 DEF Becoming, Registered
  <2> QED BY <1>2, <2>7, <2>8, <2>9, <2>10
<1> QED BY <1>4, <1>5 DEF NameInv, At

(* The inductive invariant holds in every state.                           *)
LEMMA NameInvariant == Spec => []NameInv
<1>1. Init => NameInv
  BY DEF Init, NameInv, NamesOverlap, Registered, Checking, At
<1>2. Types /\ NameInv /\ [Next]_vars => NameInv'
  <2> SUFFICES ASSUME Types, NameInv, [Next]_vars PROVE NameInv'
    OBVIOUS
  <2>1. CASE UNCHANGED vars
    BY <2>1 DEF vars, NameInv, NamesOverlap, Registered, At
  <2> QED
    BY <2>1, StartMoves, ServeMoves, ServeWrites, NameStep DEF Next
<1> QED BY <1>1, <1>2, TypesInvariant, PTL DEF Spec

(* A name is a user or an organization, never both, unless its two         *)
(* creations passed each other between check and INSERT: each looks into   *)
(* the other's table, and no constraint joins them.                        *)
THEOREM NamesDisjointAlways == Spec => []NamesDisjoint
<1>1. NameInv => NamesDisjoint
  BY DEF NameInv, NamesDisjoint
<1> QED BY <1>1, NameInvariant, PTL
-----------------------------------------------------------------------------
(***************************************************************************)
(* The inductive invariant behind OneBootstrap: as long as no registration *)
(* rushed, an admin who is about to be inserted without an admin's         *)
(* credentials still is the first user, and so was the one who has been.   *)
(***************************************************************************)
BootInv ==
  /\ Rush(req) => rushed
  /\ \A n \in bootstraps : Registered(n)
  /\ ~rushed =>
       /\ \E n : bootstraps \subseteq {n}
       /\ \A p \in Requests :
            At(p, "insert_user") /\ req[p].as = "admin" =>
              IsAdmin(req[p].actor) \/ NobodyRegistered

(* A step of a request keeps it.                                           *)
LEMMA BootStep ==
  ASSUME Types, BootInv, NEW p \in Requests, Moves(p), Writes(p)
  PROVE  BootInv'
<1>1. PICK record : Becomes(p, record) /\ Becoming(p, record)
  BY DEF Moves
<1>2. /\ req'[p] = record
      /\ \A q \in Requests \ {p} : req'[q] = req[q]
  BY <1>1, MovesRequests DEF Becoming
<1>3. Rush(req') => rushed'
  BY <1>1 DEF Becomes
<1>4. ~rushed' => ~rushed /\ ~Rush(req) /\ ~Rush(req')
  BY <1>1 DEF Becomes, BootInv
<1>5. /\ \A n \in Names : Registered(n) => Registered(n)'
      /\ req[p].name \in Names /\ bootstraps \subseteq Names
  BY WritesTables DEF TablesGrow, Registered, Types, TypeOK, Request
<1>6. InsertsUser(p) => role'[req[p].name] # "none"
  BY <1>5 DEF InsertsUser, Registered, Types, TypeOK, Standing, Registering,
              At, UserRoles
<1>7. \A n \in bootstraps' : Registered(n)'
  <2>1. \/ bootstraps' = bootstraps
        \/ InsertsUser(p) /\ bootstraps' = bootstraps \cup {req[p].name}
    BY DEF Writes, Stays, InsertsUser, InsertsOrganization, InsertsOwner,
           InsertsMember
  <2>2. \A n \in bootstraps : Registered(n)'
    BY <1>5 DEF BootInv
  <2> QED BY <1>6, <2>1, <2>2 DEF Registered
<1>8. ASSUME ~rushed' PROVE \E n : bootstraps' \subseteq {n}
  <2>1. CASE bootstraps' = bootstraps
    BY <1>4, <1>8, <2>1 DEF BootInv
  <2>2. CASE bootstraps' # bootstraps
    <3>1. /\ InsertsUser(p) /\ req[p].as = "admin" /\ ~IsAdmin(req[p].actor)
          /\ bootstraps' = bootstraps \cup {req[p].name}
      BY <2>2 DEF Writes, Stays, InsertsUser, InsertsOrganization,
                  InsertsOwner, InsertsMember
    <3>2. NobodyRegistered
      BY <1>4, <1>8, <3>1 DEF BootInv, InsertsUser
    <3>3. bootstraps = {}
      BY <1>5, <3>2 DEF BootInv, NobodyRegistered
    <3> QED BY <1>5, <3>1, <3>3
  <2> QED BY <2>1, <2>2
<1>9. ASSUME ~rushed', NEW q \in Requests, req'[q].step = "insert_user",
             req'[q].as = "admin"
      PROVE  \/ req'[q].actor # Anonymous /\ role'[req'[q].actor] = "admin"
             \/ NobodyRegistered'
  <2> DEFINE u == req'[q].actor
  <2>1. u # Anonymous => u \in Names
    BY <1>1, <1>2 DEF Becoming, Standing, Types, TypeOK, Request
  <2>2. IsAdmin(u) => role'[u] = "admin"
    BY <2>1, WritesTables DEF IsAdmin, TablesGrow, Registered
  <2>3. CASE q = p
    BY <1>1, <1>2, <1>9, <2>2, <2>3
       DEF Becoming, Checking, NobodyRegistered, Registered, IsAdmin
  <2>4. CASE q # p
    <3>1. req[q] = req'[q] /\ At(q, "insert_user")
      BY <1>2, <1>9, <2>4 DEF At
    <3>2. IsAdmin(u) \/ NobodyRegistered
      BY <1>4, <1>9, <3>1 DEF BootInv
    <3>3. ~At(p, "insert_user")
      BY <1>4, <1>9, <2>4, <3>1 DEF Rush, At
    <3>4. role' = role
      BY <3>3 DEF Writes, Stays, InsertsUser, InsertsOrganization,
                  InsertsOwner, InsertsMember
    <3> QED BY <2>2, <3>2, <3>4 DEF NobodyRegistered, Registered, IsAdmin
  <2> QED BY <2>3, <2>4
<1> QED BY <1>3, <1>7, <1>8, <1>9 DEF BootInv, Rush, At, IsAdmin

(* The inductive invariant holds in every state.                           *)
LEMMA BootInvariant == Spec => []BootInv
<1>1. Init => BootInv
  BY DEF Init, BootInv, Rush, At
<1>2. Types /\ BootInv /\ [Next]_vars => BootInv'
  <2> SUFFICES ASSUME Types, BootInv, [Next]_vars PROVE BootInv'
    OBVIOUS
  <2>1. CASE UNCHANGED vars
    BY <2>1 DEF vars, BootInv, Rush, Registered, At, IsAdmin, NobodyRegistered
  <2> QED
    BY <2>1, StartMoves, ServeMoves, ServeWrites, BootStep DEF Next
<1> QED BY <1>1, <1>2, TypesInvariant, PTL DEF Spec

(* Only one admin ever registers without an admin's credentials, unless    *)
(* two registrations passed each other between hasAnyUser and the INSERT.  *)
THEOREM OneBootstrapAlways == Spec => []OneBootstrap
<1>1. BootInv => OneBootstrap
  <2> SUFFICES ASSUME BootInv, ~rushed PROVE Cardinality(bootstraps) <= 1
    BY DEF OneBootstrap
  <2>1. PICK n : bootstraps \subseteq {n}
    BY DEF BootInv
  <2>2. bootstraps = {} \/ bootstraps = {n}
    BY <2>1
  <2>3. Cardinality({}) = 0 /\ Cardinality({n}) = 1
    BY FS_EmptySet, FS_Singleton
  <2> QED BY <2>2, <2>3
<1> QED BY <1>1, BootInvariant, PTL
-----------------------------------------------------------------------------
(***************************************************************************)
(* The inductive invariant behind OrganizationsHaveOwner: the owner's row  *)
(* that is about to be inserted is the creator's, and where a creation is  *)
(* recorded, or about to be, that row is there.                            *)
(***************************************************************************)
Owned(n) == n \in orgs /\ MemberAs(n, created_by[n], "owner")

OwnerInv ==
  /\ OrganizationsHaveOwner
  /\ \A n \in Names : <<"organization.create", n>> \in audit => Owned(n)
  /\ \A p \in Requests :
       /\ At(p, "insert_owner") =>
            /\ req[p].name \in orgs
            /\ created_by[req[p].name] = req[p].actor
       /\ At(p, "audit") /\ req[p].op = "create_org" => Owned(req[p].name)

(* What a step leaves an organization with: its creator as owner, or the   *)
(* request that will insert that row, or the mark of a failure, or the     *)
(* creator as the plain member an admin made of him.                       *)
LEMMA OwnerOrPending ==
  ASSUME Types, OwnerInv, NEW p \in Requests, NEW record,
         Becomes(p, record), Becoming(p, record), Writes(p),
         NEW n \in orgs'
  PROVE  \/ <<n, created_by'[n], "owner">> \in members'
         \/ n \in interrupted'
         \/ <<n, created_by'[n], "member">> \in members'
         \/ \E q \in Requests : /\ req'[q].step = "insert_owner"
                                /\ req'[q].name = n
<1>1. \A q \in Requests \ {p} : req'[q] = req[q]
  BY MovesRequests DEF Becoming
<1>2. CASE n \notin orgs
  <2>1. InsertsOrganization(p) /\ req[p].name = n
    BY <1>2 DEF Writes, Stays, InsertsUser, InsertsOrganization,
                InsertsOwner, InsertsMember
  <2> DEFINE next == [req[p] EXCEPT !.step = "insert_owner"]
  <2>2. next.step = "insert_owner" /\ next.name = n
    BY <2>1, StepOf DEF Types, Steps
  <2>3. Becomes(p, next)
    BY <2>1 DEF InsertsOrganization, GoTo
  <2> HIDE DEF next
  <2>4. req'[p] = next
    BY <2>3 DEF Becomes, Types, TypeOK
  <2> QED BY <2>2, <2>4
<1>3. CASE n \in orgs
  <2>1. /\ created_by'[n] = created_by[n] /\ members \subseteq members'
        /\ interrupted \subseteq interrupted'
    BY <1>3, WritesTables
       DEF TablesGrow, Writes, Stays, InsertsUser, InsertsOrganization,
           InsertsOwner, InsertsMember
  <2>2. CASE At(p, "insert_owner") /\ req[p].name = n
    <3>1. created_by[n] = req[p].actor
      BY <2>2 DEF OwnerInv
    <3>2. InsertsOwner(p) \/ Stays(p)
      BY <2>2 DEF Writes, InsertsUser, InsertsOrganization, InsertsMember, At
    <3>3. \/ <<n, created_by[n], "owner">> \in members'
          \/ n \in interrupted'
          \/ IsMember(n, created_by[n])
      BY <2>2, <3>1, <3>2 DEF InsertsOwner, Stays
    <3> QED BY <2>1, <3>3 DEF IsMember, MemberAs, MemberRoles
  <2>3. CASE \E q \in Requests \ {p} : At(q, "insert_owner") /\ req[q].name = n
    BY <1>1, <2>3 DEF At
  <2> QED
    BY <1>3, <2>1, <2>2, <2>3 DEF OwnerInv, OrganizationsHaveOwner, MemberAs
<1> QED BY <1>2, <1>3

(* A step of a request keeps the invariant.                                *)
LEMMA OwnerStep ==
  ASSUME Types, OwnerInv, NEW p \in Requests, Moves(p), Writes(p)
  PROVE  OwnerInv'
<1>1. PICK record : Becomes(p, record) /\ Becoming(p, record)
  BY DEF Moves
<1>2. /\ req'[p] = record
      /\ \A q \in Requests \ {p} : req'[q] = req[q]
  BY <1>1, MovesRequests DEF Becoming
<1>3. \A n \in Names : Owned(n) => Owned(n)'
  BY WritesTables DEF TablesGrow, Owned, MemberAs
<1>4. ASSUME NEW n \in Names, <<"organization.create", n>> \in audit'
      PROVE  Owned(n)'
  BY <1>3, <1>4 DEF Writes, Records, OwnerInv
<1>5. ASSUME NEW q \in Requests, req'[q].step = "insert_owner"
      PROVE  req'[q].name \in orgs' /\ created_by'[req'[q].name] = req'[q].actor
  <2>1. CASE q = p
    BY <1>1, <1>2, <1>5, <2>1 DEF Becoming
  <2>2. CASE q # p
    <3>1. req'[q] = req[q] /\ At(q, "insert_owner")
      BY <1>2, <1>5, <2>2 DEF At
    <3>2. req[q].name \in orgs /\ created_by[req[q].name] = req[q].actor
      BY <3>1 DEF OwnerInv
    <3> QED BY <3>1, <3>2, WritesTables DEF TablesGrow
  <2> QED BY <2>1, <2>2
<1>6. ASSUME NEW q \in Requests, req'[q].step = "audit",
             req'[q].op = "create_org"
      PROVE  /\ req'[q].name \in orgs'
             /\ <<req'[q].name, created_by'[req'[q].name], "owner">> \in members'
  <2>1. CASE q = p
    <3>1. /\ At(p, "insert_owner") /\ record.name = req[p].name
          /\ orgs' = orgs /\ created_by' = created_by
          /\ <<record.name, req[p].actor, "owner">> \in members'
      BY <1>1, <1>2, <1>6, <2>1 DEF Becoming
    <3> QED BY <1>2, <2>1, <3>1 DEF OwnerInv
  <2>2. CASE q # p
    <3>1. req'[q] = req[q] /\ At(q, "audit")
      BY <1>2, <1>6, <2>2 DEF At
    <3>2. req[q].name \in Names /\ Owned(req[q].name)
      BY <1>6, <3>1 DEF OwnerInv, Types, TypeOK, Request
    <3> QED BY <1>3, <3>1, <3>2 DEF Owned, MemberAs
  <2> QED BY <2>1, <2>2
<1>7. ASSUME NEW n \in orgs'
      PROVE  \/ <<n, created_by'[n], "owner">> \in members'
             \/ /\ <<"organization.create", n>> \notin audit'
                /\ \/ \E q \in Requests : /\ req'[q].step = "insert_owner"
                                           /\ req'[q].name = n
                   \/ n \in interrupted'
                   \/ <<n, created_by'[n], "member">> \in members'
  <2>1. n \in Names
    BY <1>7, WritesTables
  <2> QED BY <1>1, <1>4, <1>7, <2>1, OwnerOrPending DEF Owned, MemberAs
<1> QED
  BY <1>4, <1>5, <1>6, <1>7
     DEF OwnerInv, OrganizationsHaveOwner, Owned, MemberAs, At

(* The inductive invariant holds in every state.                           *)
LEMMA OwnerInvariant == Spec => []OwnerInv
<1>1. Init => OwnerInv
  BY DEF Init, OwnerInv, OrganizationsHaveOwner, At
<1>2. Types /\ OwnerInv /\ [Next]_vars => OwnerInv'
  <2> SUFFICES ASSUME Types, OwnerInv, [Next]_vars PROVE OwnerInv'
    OBVIOUS
  <2>1. CASE UNCHANGED vars
    BY <2>1 DEF vars, OwnerInv, OrganizationsHaveOwner, Owned, MemberAs, At
  <2> QED
    BY <2>1, StartMoves, ServeMoves, ServeWrites, OwnerStep DEF Next
<1> QED BY <1>1, <1>2, TypesInvariant, PTL DEF Spec

(* Whoever created an organization is its owner.  Where that is not so,    *)
(* the creation is not recorded, and its request is about to insert the    *)
(* owner's row, or stopped before it, or was refused it because an admin   *)
(* had added the creator as a plain member between the two INSERTs of      *)
(* createWithOwner.                                                        *)
THEOREM OrganizationsHaveOwnerAlways == Spec => []OrganizationsHaveOwner
<1>1. OwnerInv => OrganizationsHaveOwner
  BY DEF OwnerInv
<1> QED BY <1>1, OwnerInvariant, PTL

(* A membership comes from the creation of its organization, or from       *)
(* someone who is an admin or an owner of it at that moment, although that *)
(* was checked two statements earlier: nobody loses a role.                *)
THEOREM MembershipIsGrantedAlways == Spec => MembershipIsGranted
<1> DEFINE Granted(row) ==
             \E p \in Requests :
                /\ req[p].name = row[1] /\ row[1] \in orgs
                /\ \/ At(p, "insert_owner") /\ row[2] = req[p].actor
                   \/ /\ At(p, "insert_member") /\ Registered(row[2])
                      /\ \/ IsAdmin(req[p].actor)
                         \/ MemberAs(row[1], req[p].actor, "owner")
           Step == \A row \in members' \ members : Granted(row)
<1>1. Types /\ OwnerInv /\ [Next]_vars => [Step]_vars
  <2> SUFFICES ASSUME Types, OwnerInv, Next, NEW row \in members' \ members
               PROVE  Granted(row)
    BY DEF vars
  <2>1. PICK p \in Requests : Writes(p)
    BY StartMoves, ServeWrites DEF Next
  <2>2. CASE InsertsOwner(p)
    BY <2>2 DEF InsertsOwner, OwnerInv
  <2>3. CASE InsertsMember(p)
    <3>1. row = <<req[p].name, req[p].user, req[p].as>>
      BY <2>3 DEF InsertsMember
    <3>2. /\ req[p].name \in orgs /\ Registered(req[p].user)
          /\ MayAdd(req[p])
      BY <2>3 DEF InsertsMember, Types, Standing, Adding, At
    <3> QED BY <2>3, <3>1, <3>2 DEF InsertsMember, MayAdd
  <2> QED
    BY <2>1, <2>2, <2>3 DEF Writes, Stays, InsertsUser, InsertsOrganization
<1> QED BY <1>1, TypesInvariant, OwnerInvariant, PTL
        DEF Spec, MembershipIsGranted
=============================================================================
