-------------------------- MODULE Registry_proofs --------------------------
(***************************************************************************)
(* Proofs about Registry, for every number of requests, scopes, packages   *)
(* and members: versions are permanent, lists are exact.                   *)
(***************************************************************************)
EXTENDS Registry, TLAPS

(* The records of the two kinds of request by their steps.                 *)
LEMMA ScopedRecord ==
  ASSUME RegistryTypeOK, NEW p \in Requests,
         req[p].step \in Steps
  PROVE  req[p] \in ScopedRequest
  BY DEF RegistryTypeOK, Request, ScopedRequest, ListRequest, Idle, Steps

LEMMA ListRecord ==
  ASSUME RegistryTypeOK, NEW p \in Requests,
         req[p].step \in {"list", "filter"}
  PROVE  req[p] \in ListRequest
  BY DEF RegistryTypeOK, Request, ScopedRequest, ListRequest, Idle, Steps

(* A step of a request changes its own slot.                               *)
LEMMA BecomesSlot ==
  ASSUME RegistryTypeOK, NEW p \in Requests, NEW record \in Request,
         Becomes(p, record)
  PROVE  /\ req' \in [Requests -> Request]
         /\ req'[p] = record
         /\ \A q \in Requests \ {p} : req'[q] = req[q]
  BY DEF RegistryTypeOK, Becomes

(* Moving on keeps everything but the step.                                *)
LEMMA GoToSlot ==
  ASSUME RegistryTypeOK, NEW p \in Requests, req[p].step \in Steps,
         NEW step \in Steps, GoTo(p, step)
  PROVE  /\ req' \in [Requests -> Request]
         /\ req'[p] = [req[p] EXCEPT !.step = step]
         /\ req'[p].step = step
         /\ req'[p].op = req[p].op
         /\ req'[p].actor = req[p].actor
         /\ req'[p].scope = req[p].scope
         /\ \A q \in Requests \ {p} : req'[q] = req[q]
<1> DEFINE record == [req[p] EXCEPT !.step = step]
<1>1. /\ record \in ScopedRequest /\ record.step = step
      /\ record.op = req[p].op /\ record.actor = req[p].actor
      /\ record.scope = req[p].scope
  BY ScopedRecord DEF ScopedRequest
<1>2. record \in Request
  BY <1>1 DEF Request
<1>3. Becomes(p, record)
  BY DEF GoTo
<1>4. record = [req[p] EXCEPT !.step = step]
  OBVIOUS
<1> HIDE DEF record
<1> QED BY <1>1, <1>2, <1>3, <1>4, BecomesSlot
-----------------------------------------------------------------------------
(* Memberships are never taken away, so neither are the rights they give.  *)
Grows == members \subseteq members'

LEMMA JoinGrows == JoinOrganization => Grows
  BY DEF JoinOrganization, AddMember, Grows

LEMMA RightsGrow ==
  ASSUME Grows, NEW u, NEW scope
  PROVE  /\ MayReadScope(u, scope) => MayReadScope(u, scope)'
         /\ MayWriteScope(u, scope) => MayWriteScope(u, scope)'
  BY DEF Grows, MayReadScope, MayWriteScope, OwnScope, MayReadOrganization,
         MayWriteOrganization, IsMember

(***************************************************************************)
(* The inductive invariant: whoever is past the scope check of a           *)
(* publication may write to the scope, and a list starts empty and knows   *)
(* packages its reader may read.                                           *)
(***************************************************************************)
Publishing(q) ==
  \/ q.step = "insert_version"
  \/ q.step = "find_package" /\ q.op = "publish"

PublishersMayWrite ==
  \A p \in Requests :
    Publishing(req[p]) => MayWriteScope(req[p].actor, req[p].scope)

ListsKnowReadable ==
  \A p \in Requests :
    /\ At(p, "list") => req[p].kept = {}
    /\ At(p, "filter") =>
         \A k \in req[p].could : MayReadScope(req[p].actor, k[1])

RegistryInv ==
  RegistryTypeOK /\ PublishersMayWrite /\ ListsKnowReadable /\ ListingIsExact

LEMMA InitInv == RegistryInit => RegistryInv
<1> SUFFICES ASSUME RegistryInit PROVE RegistryInv
  OBVIOUS
<1> USE DEF RegistryInit, ServingInit, Idle
<1>1. RegistryTypeOK
  BY OrganizationServingAssumption DEF RegistryTypeOK, Request
<1>2. PublishersMayWrite /\ ListsKnowReadable /\ ListingIsExact
  BY DEF PublishersMayWrite, Publishing, ListsKnowReadable, ListingIsExact, At
<1> QED BY <1>1, <1>2 DEF RegistryInv

(* A step of one request keeps the invariant when the tables stay typed    *)
(* and its new record is as the invariant wants it.                        *)
LEMMA SlotStep ==
  ASSUME RegistryInv, NEW p \in Requests,
         req' \in [Requests -> Request],
         \A q \in Requests \ {p} : req'[q] = req[q],
         UNCHANGED members,
         packages' \subseteq Packages,
         DOMAIN versions' \subseteq VersionKeys,
         versions' \in [DOMAIN versions' -> Users \X Sources],
         started' \in Nat,
         audit' \subseteq {Action(op) : op \in Changes \cup Reads},
         Publishing(req'[p]) => MayWriteScope(req'[p].actor, req'[p].scope),
         req'[p].step # "filter",
         req'[p].step = "list" => req'[p].kept = {}
  PROVE  RegistryInv'
<1> USE DEF RegistryInv
<1>1. RegistryTypeOK'
  BY DEF RegistryTypeOK
<1>2. \A u, scope : /\ MayReadScope(u, scope)' = MayReadScope(u, scope)
                    /\ MayWriteScope(u, scope)' = MayWriteScope(u, scope)
  BY DEF MayReadScope, MayWriteScope, OwnScope, MayReadOrganization,
         MayWriteOrganization, IsMember
<1>3. PublishersMayWrite'
  BY <1>2 DEF PublishersMayWrite, Publishing
<1>4. ListsKnowReadable'
  BY <1>2 DEF ListsKnowReadable, At
<1>5. ListingIsExact'
  BY <1>2 DEF ListingIsExact, At
<1> QED BY <1>1, <1>3, <1>4, <1>5

(* A request that is answered.                                             *)
LEMMA AnswerStep ==
  ASSUME RegistryInv, NEW p \in Requests, Answer(p),
         UNCHANGED <<members, packages, versions>>,
         started' \in Nat,
         audit' \subseteq {Action(op) : op \in Changes \cup Reads}
  PROVE  RegistryInv'
<1>1. RegistryTypeOK
  BY DEF RegistryInv
<1>2. /\ Idle \in Request /\ ~Publishing(Idle)
      /\ Idle.step \notin {"filter", "list"}
  BY DEF Idle, Request, Publishing
<1>3. /\ req' \in [Requests -> Request] /\ req'[p] = Idle
      /\ \A q \in Requests \ {p} : req'[q] = req[q]
  BY <1>1, <1>2, BecomesSlot DEF Answer
<1>4. /\ packages' \subseteq Packages
      /\ DOMAIN versions' \subseteq VersionKeys
      /\ versions' \in [DOMAIN versions' -> Users \X Sources]
  BY <1>1 DEF RegistryTypeOK
<1> QED BY <1>2, <1>3, <1>4, SlotStep

(* A request that moves on, and may write when it has come to publish.     *)
LEMMA GoToStep ==
  ASSUME RegistryInv, NEW p \in Requests, req[p].step \in Steps,
         NEW step \in Steps, GoTo(p, step),
         step = "insert_version" \/ (step = "find_package" /\ req[p].op = "publish")
           => MayWriteScope(req[p].actor, req[p].scope),
         UNCHANGED members,
         packages' \subseteq Packages,
         DOMAIN versions' \subseteq VersionKeys,
         versions' \in [DOMAIN versions' -> Users \X Sources],
         UNCHANGED <<started, audit>>
  PROVE  RegistryInv'
<1>1. RegistryTypeOK
  BY DEF RegistryInv
<1>2. /\ req' \in [Requests -> Request]
      /\ req'[p].step = step
      /\ req'[p].op = req[p].op
      /\ req'[p].actor = req[p].actor
      /\ req'[p].scope = req[p].scope
      /\ \A q \in Requests \ {p} : req'[q] = req[q]
  BY <1>1, GoToSlot
<1>3. started' \in Nat /\ audit' \subseteq {Action(op) : op \in Changes \cup Reads}
  BY <1>1 DEF RegistryTypeOK
<1>4. step \notin {"filter", "list"}
  BY DEF Steps
<1> QED BY <1>2, <1>3, <1>4, SlotStep DEF Publishing

(* Where a request goes after its scope check.                             *)
LEMMA AfterScopeStep ==
  ASSUME NEW op
  PROVE  /\ AfterScope(op) \in {"insert_package", "list_scope", "find_package"}
         /\ AfterScope(op) \in Steps
  BY DEF AfterScope, Steps

(* The tables of a step that leaves them alone.                            *)
LEMMA TablesTyped ==
  ASSUME RegistryTypeOK, UNCHANGED <<packages, versions>>
  PROVE  /\ packages' \subseteq Packages
         /\ DOMAIN versions' \subseteq VersionKeys
         /\ versions' \in [DOMAIN versions' -> Users \X Sources]
  BY DEF RegistryTypeOK

(* A request about a scope arrives.                                        *)
LEMMA StartStep ==
  ASSUME RegistryInv, NEW p \in Requests, NEW op \in Changes \cup Reads,
         NEW u \in Users, NEW scope \in Scopes, NEW name \in Names,
         NEW version \in Versions, NEW source \in Sources,
         Start(p, op, u, scope, name, version, source)
  PROVE  RegistryInv'
<1> DEFINE step == IF OwnScope(u, scope) THEN AfterScope(op) ELSE "readable"
           record == [step |-> step, op |-> op, actor |-> u, scope |-> scope,
                      name |-> name, version |-> version, source |-> source]
<1>1. RegistryTypeOK
  BY DEF RegistryInv
<1>2. step \in Steps /\ step \notin {"insert_version", "filter", "list"}
  BY AfterScopeStep DEF Steps
<1>3. step = "find_package" => MayWriteScope(u, scope)
  BY DEF MayWriteScope
<1>4. /\ Becomes(p, record) /\ started' \in Nat
      /\ UNCHANGED <<audit, members, packages, versions>>
  BY <1>1 DEF Start, Arrive, TablesUnchanged, RegistryTypeOK
<1> HIDE DEF step
<1>5. record \in ScopedRequest
  BY <1>2 DEF ScopedRequest
<1>6. /\ record \in Request /\ record.step = step
      /\ record.actor = u /\ record.scope = scope
  BY <1>5 DEF Request
<1> HIDE DEF record
<1>7. Publishing(record) => MayWriteScope(record.actor, record.scope)
  BY <1>2, <1>3, <1>6 DEF Publishing
<1>8. audit' \subseteq {Action(o) : o \in Changes \cup Reads}
  BY <1>1, <1>4 DEF RegistryTypeOK
<1> QED
  BY <1>1, <1>2, <1>4, <1>6, <1>7, <1>8, BecomesSlot, TablesTyped, SlotStep

(* A request for the list of all packages arrives.                         *)
LEMMA StartListStep ==
  ASSUME RegistryInv, NEW p \in Requests, NEW u \in Users, StartList(p, u)
  PROVE  RegistryInv'
<1> DEFINE record == [step |-> "list", actor |-> u,
                      todo |-> {}, kept |-> {}, could |-> {}]
<1>1. RegistryTypeOK
  BY DEF RegistryInv
<1>2. /\ Becomes(p, record) /\ started' \in Nat
      /\ UNCHANGED <<audit, members, packages, versions>>
  BY <1>1 DEF StartList, Arrive, TablesUnchanged, RegistryTypeOK
<1>3. record \in ListRequest /\ record.step = "list" /\ record.kept = {}
  BY DEF ListRequest
<1>4. record \in Request
  BY <1>3 DEF Request
<1> HIDE DEF record
<1>5. audit' \subseteq {Action(o) : o \in Changes \cup Reads}
  BY <1>1, <1>2 DEF RegistryTypeOK
<1> QED
  BY <1>1, <1>2, <1>3, <1>4, <1>5, BecomesSlot, TablesTyped, SlotStep
     DEF Publishing

(* requireScopeRead and requireScopeWrite.                                 *)
LEMMA ScopeStep ==
  ASSUME RegistryInv, NEW p \in Requests, ScopeReadable(p) \/ ScopeWritable(p)
  PROVE  RegistryInv'
<1>1. RegistryTypeOK /\ started \in Nat
      /\ audit \subseteq {Action(op) : op \in Changes \cup Reads}
  BY DEF RegistryInv, RegistryTypeOK
<1>2. UNCHANGED <<members, packages, versions, started, audit>>
  BY DEF ScopeReadable, ScopeWritable, ReadableOrganization,
         WritableOrganization, Quietly
<1>3. req[p].step \in Steps
  BY DEF ScopeReadable, ScopeWritable, ReadableOrganization,
         WritableOrganization, At, Steps
<1>4. CASE Answer(p)
  BY <1>1, <1>2, <1>4, AnswerStep
<1>5. CASE GoTo(p, "writable")
  <2>1. "writable" \in Steps
    BY DEF Steps
  <2> QED BY <1>1, <1>2, <1>3, <1>5, <2>1, TablesTyped, GoToStep
<1>6. CASE ScopeReadable(p) /\ req[p].op \notin Changes
           /\ GoTo(p, AfterScope(req[p].op))
  <2>1. req[p].op # "publish" /\ AfterScope(req[p].op) # "insert_version"
    BY <1>6, AfterScopeStep DEF Changes
  <2> QED
    BY <1>1, <1>2, <1>3, <1>6, <2>1, AfterScopeStep, TablesTyped, GoToStep
<1>7. CASE MayWriteOrganization(req[p].actor, req[p].scope)
           /\ GoTo(p, AfterScope(req[p].op))
  BY <1>1, <1>2, <1>3, <1>7, AfterScopeStep, TablesTyped, GoToStep
     DEF MayWriteScope
<1> QED
  BY <1>4, <1>5, <1>6, <1>7
     DEF ScopeReadable, ScopeWritable, ReadableOrganization,
         WritableOrganization

(* createRegistryPackage inserts.                                          *)
LEMMA InsertPackageStep ==
  ASSUME RegistryInv, NEW p \in Requests, InsertPackage(p)
  PROVE  RegistryInv'
<1>1. RegistryTypeOK /\ started \in Nat
      /\ audit \subseteq {Action(op) : op \in Changes \cup Reads}
  BY DEF RegistryInv, RegistryTypeOK
<1>2. /\ req[p].step \in Steps /\ "audit" \in Steps
      /\ UNCHANGED <<members, versions, started, audit>>
  BY DEF InsertPackage, At, Steps, Quietly
<1>3. Package(req[p]) \in Packages
  BY <1>1, <1>2, ScopedRecord DEF ScopedRequest, Package, Packages
<1>4. CASE Answer(p) /\ UNCHANGED packages
  BY <1>1, <1>2, <1>4, AnswerStep
<1>5. CASE packages' = packages \cup {Package(req[p])} /\ GoTo(p, "audit")
  <2>1. /\ packages' \subseteq Packages
        /\ DOMAIN versions' \subseteq VersionKeys
        /\ versions' \in [DOMAIN versions' -> Users \X Sources]
    BY <1>1, <1>2, <1>3, <1>5 DEF RegistryTypeOK
  <2> QED BY <1>1, <1>2, <1>5, <2>1, GoToStep
<1> QED BY <1>4, <1>5 DEF InsertPackage

(* The table of versions after a publication.                              *)
LEMMA InsertVersionTable ==
  ASSUME RegistryInv, NEW p \in Requests, InsertVersion(p),
         VersionKey(req[p]) \notin DOMAIN versions
  PROVE  /\ VersionKey(req[p]) \in VersionKeys
         /\ req[p].actor \in Users /\ req[p].source \in Sources
         /\ MayWriteScope(req[p].actor, req[p].scope)
         /\ versions' = [j \in DOMAIN versions \cup {VersionKey(req[p])} |->
                           IF j = VersionKey(req[p])
                             THEN <<req[p].actor, req[p].source>>
                             ELSE versions[j]]
         /\ DOMAIN versions' \subseteq VersionKeys
         /\ versions' \in [DOMAIN versions' -> Users \X Sources]
<1> DEFINE k == VersionKey(req[p])
           row == <<req[p].actor, req[p].source>>
<1>1. RegistryTypeOK /\ req[p].step = "insert_version"
  BY DEF RegistryInv, InsertVersion, At
<1>2. req[p] \in ScopedRequest
  BY <1>1, ScopedRecord DEF Steps
<1>3. k \in VersionKeys /\ req[p].actor \in Users /\ req[p].source \in Sources
  BY <1>2 DEF ScopedRequest, VersionKey, VersionKeys
<1>4. MayWriteScope(req[p].actor, req[p].scope)
  BY <1>1 DEF RegistryInv, PublishersMayWrite, Publishing
<1>5. versions' = [j \in DOMAIN versions \cup {k} |->
                     IF j = k THEN row ELSE versions[j]]
  BY DEF InsertVersion
<1>6. /\ row \in Users \X Sources
      /\ DOMAIN versions \subseteq VersionKeys
      /\ \A j \in DOMAIN versions : versions[j] \in Users \X Sources
  BY <1>1, <1>3 DEF RegistryTypeOK
<1> HIDE DEF k, row
<1>7. DOMAIN versions' = DOMAIN versions \cup {k}
  BY <1>5
<1>8. /\ DOMAIN versions' \subseteq VersionKeys
      /\ versions' \in [DOMAIN versions' -> Users \X Sources]
  BY <1>3, <1>5, <1>6, <1>7
<1> QED BY <1>3, <1>4, <1>5, <1>8 DEF k, row

(* publishRegistryVersion inserts.                                         *)
LEMMA InsertVersionStep ==
  ASSUME RegistryInv, NEW p \in Requests, InsertVersion(p)
  PROVE  RegistryInv'
<1>1. RegistryTypeOK /\ started \in Nat
      /\ audit \subseteq {Action(op) : op \in Changes \cup Reads}
  BY DEF RegistryInv, RegistryTypeOK
<1>2. /\ req[p].step \in Steps /\ "audit" \in Steps
      /\ UNCHANGED <<members, packages, started, audit>>
  BY DEF InsertVersion, At, Steps, Quietly
<1>3. CASE VersionKey(req[p]) \in DOMAIN versions
  <2>1. Answer(p) /\ UNCHANGED versions
    BY <1>3 DEF InsertVersion
  <2> QED BY <1>1, <1>2, <2>1, AnswerStep
<1>4. CASE VersionKey(req[p]) \notin DOMAIN versions
  <2>1. GoTo(p, "audit")
    BY <1>4 DEF InsertVersion
  <2>2. packages' \subseteq Packages
    BY <1>1, <1>2 DEF RegistryTypeOK
  <2> QED BY <1>2, <1>4, <2>1, <2>2, InsertVersionTable, GoToStep
<1> QED BY <1>3, <1>4

(* requireRegistryPackage and findRegistryVersion look before they go on.  *)
LEMMA FindStep ==
  ASSUME RegistryInv, NEW p \in Requests, FindPackage(p) \/ FindVersion(p)
  PROVE  RegistryInv'
<1>1. RegistryTypeOK /\ started \in Nat
      /\ audit \subseteq {Action(op) : op \in Changes \cup Reads}
  BY DEF RegistryInv, RegistryTypeOK
<1>2. /\ req[p].step \in Steps
      /\ UNCHANGED <<members, packages, versions, started, audit>>
  BY DEF FindPackage, FindVersion, At, Steps, TablesUnchanged, Quietly
<1>3. CASE Answer(p)
  BY <1>1, <1>2, <1>3, AnswerStep
<1>4. CASE GoTo(p, "audit")
  BY <1>1, <1>2, <1>4, TablesTyped, GoToStep DEF Steps
<1>5. CASE At(p, "find_package") /\ GoTo(p, AfterPackage(req[p].op))
  <2>1. /\ AfterPackage(req[p].op) \in Steps \ {"find_package"}
        /\ AfterPackage(req[p].op) = "insert_version" => req[p].op = "publish"
    BY DEF AfterPackage, Steps
  <2>2. req[p].op = "publish" => MayWriteScope(req[p].actor, req[p].scope)
    BY <1>5 DEF At, RegistryInv, PublishersMayWrite, Publishing
  <2> QED BY <1>1, <1>2, <1>5, <2>1, <2>2, TablesTyped, GoToStep
<1> QED BY <1>3, <1>4, <1>5 DEF FindPackage, FindVersion

(* The steps that end a request.                                           *)
LEMMA EndStep ==
  ASSUME RegistryInv, NEW p \in Requests,
         ListRows(p) \/ Audit(p) \/ AnswerList(p) \/ Fail(p)
  PROVE  RegistryInv'
<1>1. RegistryTypeOK /\ started \in Nat
      /\ audit \subseteq {Action(op) : op \in Changes \cup Reads}
  BY DEF RegistryInv, RegistryTypeOK
<1>2. /\ Answer(p)
      /\ UNCHANGED <<members, packages, versions, started>>
  BY DEF ListRows, Audit, AnswerList, Fail, Record, Drop, TablesUnchanged,
         Quietly
<1>3. audit' \subseteq {Action(op) : op \in Changes \cup Reads}
  <2>1. CASE Audit(p)
    <3>1. audit' = audit \cup {Action(req[p].op)} /\ req[p].step = "audit"
      BY <2>1 DEF Audit, Record, At
    <3>2. req[p].op \in Changes \cup Reads
      BY <1>1, <3>1, ScopedRecord DEF Steps, ScopedRequest
    <3> QED BY <1>1, <3>1, <3>2
  <2>2. CASE ListRows(p) \/ AnswerList(p) \/ Fail(p)
    BY <1>1, <2>2 DEF ListRows, AnswerList, Fail, Drop, Quietly
  <2> QED BY <2>1, <2>2
<1> QED BY <1>1, <1>2, <1>3, AnswerStep

(* A step of a list, to a record about the same reader that still shows    *)
(* exactly what he may see.                                                *)
LEMMA ListStep ==
  ASSUME RegistryInv, NEW p \in Requests, NEW record \in ListRequest,
         Becomes(p, record), TablesUnchanged, Quietly,
         record.step = "filter",
         record.actor = req[p].actor,
         \A k \in record.could \cup record.kept :
           MayReadScope(record.actor, k[1]),
         record.could \ record.todo \subseteq record.kept
  PROVE  RegistryInv'
<1>1. RegistryTypeOK /\ record \in Request
  BY DEF RegistryInv, Request
<1>2. /\ req' \in [Requests -> Request]
      /\ req'[p] = record
      /\ \A q \in Requests \ {p} : req'[q] = req[q]
  BY <1>1, BecomesSlot
<1>3. UNCHANGED <<members, packages, versions, started, audit>>
  BY DEF TablesUnchanged, Quietly
<1>4. RegistryTypeOK'
  BY <1>1, <1>2, <1>3 DEF RegistryTypeOK
<1>5. \A u, scope : /\ MayReadScope(u, scope)' = MayReadScope(u, scope)
                    /\ MayWriteScope(u, scope)' = MayWriteScope(u, scope)
  BY <1>3 DEF MayReadScope, MayWriteScope, OwnScope, MayReadOrganization,
              MayWriteOrganization, IsMember
<1>6. PublishersMayWrite'
  BY <1>2, <1>5 DEF RegistryInv, PublishersMayWrite, Publishing
<1>7. ListsKnowReadable'
  BY <1>2, <1>5 DEF RegistryInv, ListsKnowReadable, At
<1>8. ListingIsExact'
  BY <1>2, <1>5 DEF RegistryInv, ListingIsExact, At
<1> QED BY <1>4, <1>6, <1>7, <1>8 DEF RegistryInv

(* listRegistryPackages reads all packages.                                *)
LEMMA ListPackagesStep ==
  ASSUME RegistryInv, NEW p \in Requests, ListPackages(p)
  PROVE  RegistryInv'
<1> DEFINE could == {k \in packages : MayReadScope(req[p].actor, k[1])}
           record == [req[p] EXCEPT !.step = "filter", !.todo = packages,
                                    !.could = could]
<1>1. RegistryTypeOK
  BY DEF RegistryInv
<1>2. /\ req[p].step = "list" /\ Becomes(p, record)
      /\ TablesUnchanged /\ Quietly
  BY DEF ListPackages, At
<1>3. /\ req[p] \in ListRequest
      /\ packages \subseteq Packages /\ could \subseteq packages
  BY <1>1, <1>2, ListRecord DEF RegistryTypeOK
<1>4. \A k \in could : MayReadScope(req[p].actor, k[1])
  OBVIOUS
<1>5. req[p].kept = {}
  BY <1>2 DEF RegistryInv, ListsKnowReadable, At
<1> HIDE DEF could
<1>6. /\ record \in ListRequest
      /\ record.step = "filter" /\ record.actor = req[p].actor
      /\ record.could = could /\ record.todo = packages /\ record.kept = {}
  BY <1>3, <1>5 DEF ListRequest
<1> HIDE DEF record
<1> QED BY <1>2, <1>3, <1>4, <1>6, ListStep

(* canReadScope keeps a package or drops it.                               *)
LEMMA FilterStep ==
  ASSUME RegistryInv, NEW p \in Requests, Filter(p)
  PROVE  RegistryInv'
<1> PICK k \in req[p].todo :
      Becomes(p, [req[p] EXCEPT
                    !.todo = @ \ {k},
                    !.kept = IF MayReadScope(req[p].actor, k[1])
                               THEN @ \cup {k} ELSE @])
  BY DEF Filter
<1> DEFINE kept == IF MayReadScope(req[p].actor, k[1])
                     THEN req[p].kept \cup {k} ELSE req[p].kept
           record == [req[p] EXCEPT !.todo = req[p].todo \ {k}, !.kept = kept]
<1>1. /\ RegistryTypeOK /\ ListsKnowReadable /\ ListingIsExact
      /\ At(p, "filter") /\ TablesUnchanged /\ Quietly
  BY DEF RegistryInv, Filter
<1>2. req[p] \in ListRequest
  BY <1>1, ListRecord DEF At
<1>3. /\ \A j \in req[p].could : MayReadScope(req[p].actor, j[1])
      /\ \A j \in req[p].kept : MayReadScope(req[p].actor, j[1])
      /\ req[p].could \ req[p].todo \subseteq req[p].kept
  BY <1>1 DEF ListsKnowReadable, ListingIsExact
<1>4. /\ kept \subseteq req[p].kept \cup {k}
      /\ \A j \in kept : MayReadScope(req[p].actor, j[1])
      /\ req[p].could \ (req[p].todo \ {k}) \subseteq kept
  BY <1>3
<1>5. Becomes(p, record)
  OBVIOUS
<1> HIDE DEF kept
<1>6. /\ record \in ListRequest
      /\ record.step = req[p].step /\ record.actor = req[p].actor
      /\ record.could = req[p].could /\ record.todo = req[p].todo \ {k}
      /\ record.kept = kept
  <2>1. k \in Packages /\ kept \subseteq Packages
    BY <1>2, <1>4 DEF ListRequest
  <2> QED BY <1>2, <2>1 DEF ListRequest
<1> HIDE DEF record
<1> QED BY <1>1, <1>3, <1>4, <1>5, <1>6, ListStep DEF At

(* An organization gains a member: rights only grow, and a list may not    *)
(* yet show what its reader has come to see.                               *)
LEMMA JoinStep ==
  ASSUME RegistryInv, JoinOrganization
  PROVE  RegistryInv'
<1>1. /\ Grows
      /\ members' \subseteq Memberships
      /\ UNCHANGED <<req, started, audit, packages, versions>>
  BY DEF RegistryInv, RegistryTypeOK, JoinOrganization, AddMember, Grows
<1>2. RegistryTypeOK'
  BY <1>1 DEF RegistryInv, RegistryTypeOK
<1>3. \A u, scope : /\ MayReadScope(u, scope) => MayReadScope(u, scope)'
                    /\ MayWriteScope(u, scope) => MayWriteScope(u, scope)'
  BY <1>1, RightsGrow
<1>4. PublishersMayWrite'
  BY <1>1, <1>3 DEF RegistryInv, PublishersMayWrite, Publishing
<1>5. ListsKnowReadable' /\ ListingIsExact'
  BY <1>1, <1>3 DEF RegistryInv, ListsKnowReadable, ListingIsExact, At
<1> QED BY <1>2, <1>4, <1>5 DEF RegistryInv
-----------------------------------------------------------------------------
(* Every step keeps the invariant.                                         *)
LEMMA NextInv == RegistryInv /\ [RegistryNext]_registryVars => RegistryInv'
<1> SUFFICES ASSUME RegistryInv, [RegistryNext]_registryVars
             PROVE  RegistryInv'
  OBVIOUS
<1>1. CASE UNCHANGED registryVars
  <2>1. \A u, scope : /\ MayReadScope(u, scope)' = MayReadScope(u, scope)
                      /\ MayWriteScope(u, scope)' = MayWriteScope(u, scope)
    BY <1>1 DEF registryVars, MayReadScope, MayWriteScope, OwnScope,
                MayReadOrganization, MayWriteOrganization, IsMember
  <2> QED
    BY <1>1, <2>1 DEF registryVars, RegistryInv, RegistryTypeOK,
                      PublishersMayWrite, Publishing, ListsKnowReadable,
                      ListingIsExact, At
<1> QED
  BY <1>1, JoinStep, StartStep, StartListStep, ScopeStep, InsertPackageStep,
     FindStep, InsertVersionStep, EndStep, ListPackagesStep, FilterStep
     DEF RegistryNext, Scoped, List

(* The invariant holds in every state of every execution.                  *)
THEOREM Invariant == RegistrySpec => []RegistryInv
<1> QED BY InitInv, NextInv, PTL DEF RegistrySpec

(* Types of the registry model, for any number of scopes and requests.     *)
THEOREM Typing == RegistrySpec => []RegistryTypeOK
<1>1. RegistryInv => RegistryTypeOK
  BY DEF RegistryInv
<1> QED BY <1>1, Invariant, PTL

(* A list of all packages never shows a package its reader may not see and *)
(* never drops one he could see, whoever joins while it is filtered.       *)
THEOREM ListingIsExactAlways == RegistrySpec => []ListingIsExact
<1>1. RegistryInv => ListingIsExact
  BY DEF RegistryInv
<1> QED BY <1>1, Invariant, PTL
-----------------------------------------------------------------------------
(* A step of the registry is a publication, a grant or nothing to the      *)
(* abstract store.                                                         *)
LEMMA StepMaps ==
  RegistryInv /\ RegistryInv' /\ [RegistryNext]_registryVars =>
    [Published!Write \/ Published!Grant]_<<versions, Publishers>>
<1> SUFFICES ASSUME RegistryInv, RegistryInv', [RegistryNext]_registryVars
             PROVE  [Published!Write \/ Published!Grant]_<<versions, Publishers>>
  OBVIOUS
<1>1. UNCHANGED members => UNCHANGED Publishers
  BY DEF Publishers, MayWriteScope, OwnScope, MayWriteOrganization
<1>2. CASE JoinOrganization
  <2>1. Grows /\ UNCHANGED versions
    BY <1>2, JoinGrows DEF JoinOrganization
  <2>2. \A u, scope : MayWriteScope(u, scope) => MayWriteScope(u, scope)'
    BY <2>1, RightsGrow
  <2>3. /\ Publishers \subseteq Publishers'
        /\ Publishers' \subseteq VersionKeys \X Users
    BY <2>2 DEF Publishers
  <2> QED BY <2>1, <2>3 DEF Published!Grant
<1>3. ASSUME NEW p \in Requests, InsertVersion(p),
             VersionKey(req[p]) \notin DOMAIN versions
      PROVE  Published!Write
  <2> DEFINE k == VersionKey(req[p])
             a == req[p].actor
             c == req[p].source
  <2>1. /\ k \in VersionKeys /\ a \in Users /\ c \in Sources
        /\ MayWriteScope(a, req[p].scope)
        /\ versions' = [j \in DOMAIN versions \cup {k} |->
                          IF j = k THEN <<a, c>> ELSE versions[j]]
    BY <1>3, InsertVersionTable
  <2>2. UNCHANGED Publishers
    BY <1>1, <1>3 DEF InsertVersion
  <2>3. <<k, a>> \in Publishers
    <3>1. k[1] = req[p].scope
      BY DEF VersionKey
    <3> QED BY <2>1, <3>1 DEF Publishers
  <2>4. Published!Put(k, a, c)
    BY <1>3, <2>1, <2>2, <2>3 DEF Published!Put
  <2> QED BY <2>1, <2>4 DEF Published!Write
<1>4. ASSUME NEW p \in Requests, InsertVersion(p),
             VersionKey(req[p]) \in DOMAIN versions
      PROVE  UNCHANGED <<versions, Publishers>>
  BY <1>1, <1>4 DEF InsertVersion
<1>5. CASE UNCHANGED <<members, versions>>
  BY <1>1, <1>5
<1>6. ASSUME NEW p \in Requests,
             \/ \E u \in Users : StartList(p, u)
             \/ \E op \in Changes \cup Reads, u \in Users, scope \in Scopes,
                   name \in Names, version \in Versions, source \in Sources :
                   Start(p, op, u, scope, name, version, source)
             \/ List(p) \/ Fail(p)
             \/ Scoped(p) /\ ~InsertVersion(p)
      PROVE  UNCHANGED <<members, versions>>
  BY <1>6 DEF StartList, Start, List, ListPackages, Filter, AnswerList, Fail,
              Scoped, ScopeReadable, ScopeWritable, ReadableOrganization,
              WritableOrganization, InsertPackage, FindPackage, ListRows,
              FindVersion, Audit, TablesUnchanged
<1> QED
  BY <1>2, <1>3, <1>4, <1>5, <1>6 DEF RegistryNext, Scoped, registryVars

(* Versions are permanent: the registry implements the write-once store,   *)
(* for any number of publishers that race for a version.                   *)
THEOREM VersionsStay == RegistrySpec => VersionsArePermanent
<1>1. RegistryInit => Published!Init
  BY DEF RegistryInit, Published!Init, Published!Empty, Publishers
<1> QED
  BY <1>1, Invariant, StepMaps, PTL
     DEF RegistrySpec, VersionsArePermanent, Published!Spec
=============================================================================
