---------------------------- MODULE Wiki_proofs ----------------------------
(***************************************************************************)
(* Proofs about Wiki, for every number of requests, users, pages and       *)
(* incarnations of the repository.                                         *)
(***************************************************************************)
EXTENDS Wiki, TLAPS

(* The records of requests that are not idle.                              *)
ActiveRequest ==
  [step : Steps, op : {"read", "upsert"}, actor : Actors, slug : Slugs,
   seen : Nat, read : Nat]

(* A step of a request changes its own slot.                               *)
LEMMA BecomesSlot ==
  ASSUME WikiTypeOK, NEW p \in Requests, NEW record \in Request,
         Becomes(p, record)
  PROVE  /\ req' \in [Requests -> Request]
         /\ req'[p] = record
         /\ \A q \in Requests \ {p} : req'[q] = req[q]
  BY DEF WikiTypeOK, Becomes

LEMMA AnswerSlot ==
  ASSUME WikiTypeOK, NEW p \in Requests, Answer(p)
  PROVE  /\ req' \in [Requests -> Request]
         /\ req'[p] = Idle
         /\ \A q \in Requests \ {p} : req'[q] = req[q]
  BY BecomesSlot DEF Answer, Request

(* The record of a slot that is not idle.                                  *)
LEMMA SlotRecord ==
  ASSUME WikiTypeOK, NEW p \in Requests, ~At(p, "idle")
  PROVE  req[p] \in ActiveRequest
  BY DEF WikiTypeOK, At, Request, ActiveRequest, Idle

(* Moving on keeps everything but the step.                                *)
LEMMA GoToSlot ==
  ASSUME WikiTypeOK, NEW p \in Requests, ~At(p, "idle"),
         NEW step \in Steps, GoTo(p, step)
  PROVE  /\ req' \in [Requests -> Request]
         /\ req'[p] \in ActiveRequest
         /\ req'[p].step = step
         /\ req'[p].slug = req[p].slug
         /\ req'[p].seen = req[p].seen
         /\ req'[p].read = req[p].read
         /\ \A q \in Requests \ {p} : req'[q] = req[q]
<1> DEFINE record == [req[p] EXCEPT !.step = step]
<1>1. /\ record \in ActiveRequest /\ record.step = step
      /\ record.slug = req[p].slug /\ record.seen = req[p].seen
      /\ record.read = req[p].read
  BY SlotRecord DEF ActiveRequest
<1>2. record \in Request
  BY <1>1 DEF ActiveRequest, Request
<1>3. Becomes(p, record)
  BY DEF GoTo
<1> HIDE DEF record
<1> QED BY <1>1, <1>2, <1>3, BecomesSlot
-----------------------------------------------------------------------------
(***************************************************************************)
(* The inductive invariant.  Incarnations are not used again, so that a    *)
(* request recognizes the repository it was checked against; what an       *)
(* upsert has read of it is still below the number of writes, and is still *)
(* the version when no other upsert stands between its read and its write. *)
(***************************************************************************)
WriteSteps == {"insert_page", "update_page"}

Checked ==
  \A p \in Requests :
    req[p].step \notin {"idle", "visible"} =>
      req[p].seen # 0 /\ req[p].seen <= made

Incarnations ==
  /\ repo <= made
  /\ repo = 0 => version = NoPages /\ writes = NoPages

(* An upsert that read a page of the present repository.                   *)
Updating(p) == At(p, "update_page") /\ req[p].seen = repo

ReadsAreBounded ==
  repo \notin stale =>
    \A p \in Requests :
      Updating(p) => 0 < req[p].read /\ req[p].read <= writes[req[p].slug]

(* Two upserts between read and write are noticed.                         *)
OverlapsAreNoticed ==
  \A p, q \in Requests :
    /\ p # q
    /\ req[p].step \in WriteSteps
    /\ req[q].step \in WriteSteps
    /\ req[p].slug = req[q].slug
    => req[p].slug \in raced

ReadsAreFresh ==
  repo \notin stale =>
    \A p \in Requests :
      Updating(p) /\ req[p].slug \notin raced => req[p].read = version[req[p].slug]

WikiInv ==
  /\ WikiTypeOK
  /\ Checked
  /\ Incarnations
  /\ VersionIsBounded
  /\ ReadsAreBounded
  /\ OverlapsAreNoticed
  /\ VersionCountsWrites
  /\ ReadsAreFresh

LEMMA InitInv == WikiInit => WikiInv
<1> SUFFICES ASSUME WikiInit PROVE WikiInv
  OBVIOUS
<1> USE DEF WikiInit, ServingInit, RepositoryInit, Idle, NoPages
<1>1. WikiTypeOK
  BY DEF WikiTypeOK, Request
<1>2. Checked /\ Incarnations
  BY DEF Checked, Incarnations
<1>3. ReadsAreBounded /\ OverlapsAreNoticed /\ ReadsAreFresh
  BY DEF ReadsAreBounded, OverlapsAreNoticed, ReadsAreFresh, Updating, At,
         WriteSteps
<1>4. VersionIsBounded /\ VersionCountsWrites
  BY DEF VersionIsBounded, VersionCountsWrites
<1> QED BY <1>1, <1>2, <1>3, <1>4 DEF WikiInv

(* A step that changes one slot and no page, to a record that does not     *)
(* write next or that goes on as it is.                                    *)
LEMMA QuietStep ==
  ASSUME WikiInv, NEW p \in Requests,
         req' \in [Requests -> Request],
         \A q \in Requests \ {p} : req'[q] = req[q],
         req'[p].step \notin WriteSteps,
         req'[p].step \notin {"idle", "visible"} =>
           req'[p].seen # 0 /\ req'[p].seen <= made,
         UNCHANGED <<repo, made, stale, version, writes, raced>>,
         started' \in Nat, audit' \subseteq {"wiki.upsert"}
  PROVE  WikiInv'
<1>1. WikiTypeOK'
  BY DEF WikiInv, WikiTypeOK
<1>2. Checked' /\ Incarnations'
  BY DEF WikiInv, Checked, Incarnations
<1>3. ReadsAreBounded' /\ ReadsAreFresh'
  BY DEF WikiInv, ReadsAreBounded, ReadsAreFresh, Updating, At, WriteSteps
<1>4. OverlapsAreNoticed'
  BY DEF WikiInv, OverlapsAreNoticed
<1>5. VersionIsBounded' /\ VersionCountsWrites'
  BY DEF WikiInv, VersionIsBounded, VersionCountsWrites
<1> QED BY <1>1, <1>2, <1>3, <1>4, <1>5 DEF WikiInv

(* A request that is answered.                                             *)
LEMMA AnswerStep ==
  ASSUME WikiInv, NEW p \in Requests, Answer(p),
         UNCHANGED <<repo, made, stale, version, writes, raced>>,
         started' \in Nat, audit' \subseteq {"wiki.upsert"}
  PROVE  WikiInv'
<1>1. WikiTypeOK
  BY DEF WikiInv
<1> QED BY <1>1, AnswerSlot, QuietStep DEF Idle, WriteSteps

(* A request that moves on without reading the table.                      *)
LEMMA GoToStep ==
  ASSUME WikiInv, NEW p \in Requests, ~At(p, "idle"), ~At(p, "visible"),
         NEW step \in Steps \ (WriteSteps \cup {"visible"}), GoTo(p, step),
         UNCHANGED <<repo, made, stale, version, writes, raced>>,
         started' \in Nat, audit' \subseteq {"wiki.upsert"}
  PROVE  WikiInv'
<1>1. WikiTypeOK /\ Checked
  BY DEF WikiInv
<1>2. req[p].seen # 0 /\ req[p].seen <= made
  BY <1>1 DEF Checked, At
<1> QED BY <1>1, <1>2, GoToSlot, QuietStep

(* A request that arrives.                                                 *)
LEMMA StartStep ==
  ASSUME WikiInv, NEW p \in Requests, NEW op \in {"read", "upsert"},
         NEW u \in Actors, NEW s \in Slugs, Start(p, op, u, s)
  PROVE  WikiInv'
<1> DEFINE record == [step |-> "visible", op |-> op, actor |-> u, slug |-> s,
                      seen |-> 0, read |-> 0]
<1>1. record \in Request /\ record.step = "visible"
  BY DEF Request, Steps
<1>2. Becomes(p, record) /\ started' \in Nat /\ audit' = audit
  BY DEF Start, Arrive, WikiInv, WikiTypeOK
<1> HIDE DEF record
<1>3. WikiTypeOK /\ audit \subseteq {"wiki.upsert"}
  BY DEF WikiInv, WikiTypeOK
<1>4. UNCHANGED <<repo, made, stale, version, writes, raced>>
  BY DEF Start, RepositoryUnchanged, TableUnchanged
<1> QED BY <1>1, <1>2, <1>3, <1>4, BecomesSlot, QuietStep DEF WriteSteps

(* requireVisibleRepository: the request is bound to the repository it     *)
(* sees.                                                                   *)
LEMMA VisibleStep ==
  ASSUME WikiInv, NEW p \in Requests, Visible(p)
  PROVE  WikiInv'
<1> DEFINE next == IF req[p].op = "read" THEN "read_page" ELSE "writable"
           record == [req[p] EXCEPT !.seen = repo, !.step = next]
<1>1. /\ At(p, "visible")
      /\ UNCHANGED <<repo, made, stale, version, writes, raced>>
      /\ started' \in Nat /\ audit' \subseteq {"wiki.upsert"}
  BY DEF Visible, VisibleRepository, RepositoryUnchanged, TableUnchanged,
         Quietly, WikiInv, WikiTypeOK
<1>2. Answer(p) \/ (repo # 0 /\ Becomes(p, record))
  BY DEF Visible, VisibleRepository
<1>3. CASE Answer(p)
  BY <1>1, <1>3, AnswerStep
<1>4. CASE repo # 0 /\ Becomes(p, record)
  <2>1. WikiTypeOK /\ repo \in Nat /\ repo <= made
    BY DEF WikiInv, WikiTypeOK, Incarnations
  <2>2. req[p] \in ActiveRequest /\ next \in {"read_page", "writable"}
    BY <1>1, <2>1, SlotRecord DEF At
  <2>3. record \in Request /\ record.seen = repo /\ record.step = next
    BY <2>1, <2>2 DEF ActiveRequest, Request, Steps
  <2> HIDE DEF record, next
  <2>4. req'[p] = record
    BY <1>4, <2>1, <2>3, BecomesSlot
  <2> QED
    BY <1>1, <1>4, <2>1, <2>2, <2>3, <2>4, BecomesSlot, QuietStep DEF WriteSteps
<1> QED BY <1>2, <1>3, <1>4

(* findWikiPage: the upsert has read the version of the present page, and  *)
(* may find another one on its way to its write.                           *)
LEMMA FindPageStep ==
  ASSUME WikiInv, NEW p \in Requests, FindPage(p)
  PROVE  WikiInv'
<1> DEFINE s == req[p].slug
           next == IF version[s] = 0 THEN "insert_page" ELSE "update_page"
           record == [req[p] EXCEPT !.read = version[s], !.step = next]
<1>1. /\ At(p, "find_page")
      /\ Becomes(p, record)
      /\ raced' = IF Writing(s) = {} THEN raced ELSE raced \cup {s}
      /\ UNCHANGED <<repo, made, stale, version, writes, started, audit>>
  BY DEF FindPage, RepositoryUnchanged, TableUnchanged, Quietly
<1>2. WikiTypeOK
  BY DEF WikiInv
<1>3. req[p] \in ActiveRequest /\ s \in Slugs /\ version[s] \in Nat
  BY <1>1, <1>2, SlotRecord DEF At, ActiveRequest, WikiTypeOK
<1>4. /\ next \in WriteSteps
      /\ next = "update_page" <=> version[s] # 0
  BY DEF WriteSteps
<1>5. /\ record \in Request /\ record.step = next /\ record.slug = s
      /\ record.read = version[s] /\ record.seen = req[p].seen
  BY <1>3, <1>4 DEF ActiveRequest, Request, Steps, WriteSteps
<1> HIDE DEF record, next
<1>6. /\ req' \in [Requests -> Request]
      /\ req'[p] = record
      /\ \A q \in Requests \ {p} : req'[q] = req[q]
  BY <1>1, <1>2, <1>5, BecomesSlot
<1> HIDE DEF s
<1>7. WikiTypeOK'
  BY <1>1, <1>2, <1>3, <1>6 DEF WikiTypeOK
<1>8. Checked' /\ Incarnations'
  BY <1>1, <1>5, <1>6 DEF WikiInv, Checked, Incarnations, At
<1>9. VersionIsBounded' /\ VersionCountsWrites'
  BY <1>1 DEF WikiInv, VersionIsBounded, VersionCountsWrites
<1>10. ReadsAreBounded'
  <2>1. repo \notin stale => version[s] <= writes[s]
    BY <1>3 DEF WikiInv, VersionIsBounded
  <2> QED
    BY <1>1, <1>3, <1>4, <1>5, <1>6, <2>1
       DEF WikiInv, ReadsAreBounded, Updating, At
<1>11. OverlapsAreNoticed'
  <2>1. raced \subseteq raced'
    BY <1>1
  <2>2. ASSUME NEW q \in Requests \ {p}, req[q].step \in WriteSteps,
               req[q].slug = s
        PROVE  s \in raced'
    <3>1. q \in Writing(s)
      BY <2>2 DEF Writing, WriteSteps
    <3> QED BY <1>1, <3>1
  <2> QED
    BY <1>5, <1>6, <2>1, <2>2 DEF WikiInv, OverlapsAreNoticed
<1>12. ReadsAreFresh'
  <2>1. raced \subseteq raced'
    BY <1>1
  <2> QED
    BY <1>1, <1>5, <1>6, <2>1 DEF WikiInv, ReadsAreFresh, Updating, At
<1> QED BY <1>7, <1>8, <1>9, <1>10, <1>11, <1>12 DEF WikiInv

(* A write that reaches the table: its request leaves the steps between    *)
(* read and write, the version of one page is set and its writes counted,  *)
(* within bounds and, where no overlap was noticed, to the number of its   *)
(* writes; or the repository is another one than the request saw.          *)
LEMMA WriteStep ==
  ASSUME WikiInv, NEW p \in Requests, ~At(p, "idle"), ~At(p, "visible"),
         req[p].step \in WriteSteps,
         GoTo(p, "audit"), Touch(p), repo # 0,
         NEW v \in Nat \ {0}, NEW s \in Slugs, s = req[p].slug,
         version' = [version EXCEPT ![s] = v],
         writes' = [writes EXCEPT ![s] = @ + 1],
         UNCHANGED <<raced, started, audit>>,
         repo \notin stale' =>
           v <= writes[s] + 1 /\ (s \notin raced => v = version[s] + 1)
  PROVE  WikiInv'
<1>1. WikiTypeOK /\ repo \in Nat /\ made \in Nat
  BY DEF WikiInv, WikiTypeOK
<1>2. /\ req' \in [Requests -> Request]
      /\ req'[p].step = "audit"
      /\ req'[p].seen = req[p].seen
      /\ \A q \in Requests \ {p} : req'[q] = req[q]
  BY <1>1, GoToSlot DEF Steps
<1>3. /\ UNCHANGED <<repo, made>>
      /\ stale \subseteq stale'
      /\ stale' \subseteq Nat
  BY <1>1 DEF Touch, WikiTypeOK
<1>4. /\ version' \in [Slugs -> Nat] /\ writes' \in [Slugs -> Nat]
      /\ version'[s] = v /\ writes'[s] = writes[s] + 1
      /\ \A t \in Slugs \ {s} : version'[t] = version[t]
                              /\ writes'[t] = writes[t]
      /\ version[s] \in Nat /\ writes[s] \in Nat
  BY <1>1 DEF WikiTypeOK
<1>5. WikiTypeOK'
  BY <1>1, <1>2, <1>3, <1>4 DEF WikiTypeOK
<1>6. Checked' /\ Incarnations'
  BY <1>2, <1>3 DEF WikiInv, Checked, Incarnations, At
<1>7. VersionIsBounded'
  <2> SUFFICES ASSUME repo' \notin stale', NEW t \in Slugs
               PROVE  /\ version'[t] <= writes'[t]
                      /\ version'[t] = 0 <=> writes'[t] = 0
    BY DEF VersionIsBounded
  <2>1. repo \notin stale' /\ repo \notin stale
    BY <1>3
  <2>2. CASE t = s
    <3>1. v <= writes[s] + 1 /\ writes[s] + 1 # 0 /\ v # 0
      BY <1>4, <2>1
    <3> QED BY <1>4, <2>2, <3>1
  <2>3. CASE t # s
    BY <1>4, <2>1, <2>3 DEF WikiInv, VersionIsBounded
  <2> QED BY <2>2, <2>3
<1>8. ReadsAreBounded'
  <2> SUFFICES ASSUME repo' \notin stale', NEW q \in Requests, Updating(q)'
               PROVE  0 < req'[q].read /\ req'[q].read <= writes'[req'[q].slug]
    BY DEF ReadsAreBounded
  <2>1. q # p /\ req'[q] = req[q] /\ Updating(q)
    BY <1>2, <1>3 DEF Updating, At
  <2>2. req[q] \in ActiveRequest
    BY <1>1, <2>1, SlotRecord DEF Updating, At
  <2>3. 0 < req[q].read /\ req[q].read <= writes[req[q].slug]
    BY <1>3, <2>1 DEF WikiInv, ReadsAreBounded
  <2>4. req[q].slug \in Slugs /\ req[q].read \in Nat
    BY <2>2 DEF ActiveRequest
  <2> QED BY <1>4, <2>1, <2>3, <2>4
<1>9. OverlapsAreNoticed'
  BY <1>2 DEF WikiInv, OverlapsAreNoticed, WriteSteps
<1>10. VersionCountsWrites'
  BY <1>3, <1>4 DEF WikiInv, VersionCountsWrites
<1>11. ReadsAreFresh'
  <2> SUFFICES ASSUME repo' \notin stale', NEW q \in Requests, Updating(q)',
                      req'[q].slug \notin raced'
               PROVE  req'[q].read = version'[req'[q].slug]
    BY DEF ReadsAreFresh
  <2>1. q # p /\ req'[q] = req[q] /\ Updating(q)
    BY <1>2, <1>3 DEF Updating, At
  <2>2. req[q] \in ActiveRequest
    BY <1>1, <2>1, SlotRecord DEF Updating, At
  <2>3. req[q].read = version[req[q].slug]
    BY <1>3, <2>1 DEF WikiInv, ReadsAreFresh
  <2>4. req[q].slug # s
    BY <2>1 DEF WikiInv, OverlapsAreNoticed, Updating, At, WriteSteps
  <2>5. req[q].slug \in Slugs
    BY <2>2 DEF ActiveRequest
  <2> QED BY <1>4, <2>1, <2>3, <2>4, <2>5
<1> QED
  BY <1>5, <1>6, <1>7, <1>8, <1>9, <1>10, <1>11 DEF WikiInv

(* The INSERT of a first version.                                          *)
LEMMA InsertPageStep ==
  ASSUME WikiInv, NEW p \in Requests, InsertPage(p)
  PROVE  WikiInv'
<1> DEFINE s == req[p].slug
<1>1. WikiTypeOK /\ At(p, "insert_page") /\ UNCHANGED <<raced, started, audit>>
  BY DEF WikiInv, InsertPage, Quietly
<1>2. s \in Slugs /\ version[s] \in Nat /\ writes[s] \in Nat
  BY <1>1, SlotRecord DEF At, ActiveRequest, WikiTypeOK
<1>3. CASE repo = 0 \/ version[s] # 0
  <2>1. Answer(p) /\ UNCHANGED <<repo, made, stale, version, writes>>
    BY <1>3 DEF InsertPage, TableUnchanged, RepositoryUnchanged
  <2> QED BY <1>1, <2>1, AnswerStep DEF WikiTypeOK
<1>4. CASE repo # 0 /\ version[s] = 0
  <2>1. /\ version' = [version EXCEPT ![s] = 1]
        /\ writes' = [writes EXCEPT ![s] = 1]
        /\ Touch(p) /\ GoTo(p, "audit")
    BY <1>4 DEF InsertPage
  <2>2. CASE repo \notin stale
    <3>1. writes[s] = 0
      BY <1>2, <1>4, <2>2 DEF WikiInv, VersionIsBounded
    <3>2. writes' = [writes EXCEPT ![s] = @ + 1]
      BY <2>1, <3>1
    <3> HIDE DEF s
    <3>3. /\ 1 \in Nat \ {0} /\ 1 <= writes[s] + 1
          /\ 1 = version[s] + 1
      BY <1>4, <3>1
    <3> QED
      BY <1>1, <1>2, <1>4, <2>1, <3>2, <3>3, WriteStep DEF At, WriteSteps, s
  <2>3. CASE repo \in stale
    <3>1. /\ repo' = repo /\ repo' \in stale'
          /\ made' = made /\ stale' \subseteq Nat
      BY <1>1, <2>1, <2>3 DEF Touch, WikiTypeOK
    <3>2. /\ req' \in [Requests -> Request]
          /\ req'[p].step = "audit"
          /\ req'[p].seen = req[p].seen
          /\ \A q \in Requests \ {p} : req'[q] = req[q]
      BY <1>1, <2>1, GoToSlot DEF Steps, At
    <3>3. WikiTypeOK'
      BY <1>1, <1>2, <2>1, <3>1, <3>2 DEF WikiTypeOK
    <3>4. Checked' /\ Incarnations'
      BY <1>1, <1>4, <3>1, <3>2 DEF WikiInv, Checked, Incarnations, At
    <3>5. OverlapsAreNoticed'
      BY <1>1, <3>2 DEF WikiInv, OverlapsAreNoticed, WriteSteps
    <3> QED
      BY <3>1, <3>3, <3>4, <3>5
         DEF WikiInv, VersionIsBounded, ReadsAreBounded, VersionCountsWrites,
             ReadsAreFresh
  <2> QED BY <2>2, <2>3
<1> QED BY <1>3, <1>4

(* The UPDATE to the version read plus one.                                *)
LEMMA UpdatePageStep ==
  ASSUME WikiInv, NEW p \in Requests, UpdatePage(p)
  PROVE  WikiInv'
<1> DEFINE s == req[p].slug
<1>1. /\ WikiTypeOK /\ At(p, "update_page") /\ GoTo(p, "audit")
      /\ UNCHANGED <<raced, started, audit>>
  BY DEF WikiInv, UpdatePage, Quietly
<1>2. /\ s \in Slugs /\ version[s] \in Nat /\ writes[s] \in Nat
      /\ req[p].read \in Nat
  BY <1>1, SlotRecord DEF At, ActiveRequest, WikiTypeOK
<1>3. CASE version[s] = 0
  <2>1. UNCHANGED <<repo, made, stale, version, writes>>
    BY <1>3 DEF UpdatePage, TableUnchanged, RepositoryUnchanged
  <2>2. ~At(p, "idle") /\ ~At(p, "visible")
    BY <1>1 DEF At
  <2>3. started \in Nat /\ audit \subseteq {"wiki.upsert"}
    BY <1>1 DEF WikiTypeOK
  <2> QED BY <1>1, <2>1, <2>2, <2>3, GoToStep DEF Steps, WriteSteps
<1>4. CASE version[s] # 0
  <2>1. /\ version' = [version EXCEPT ![s] = req[p].read + 1]
        /\ writes' = [writes EXCEPT ![s] = @ + 1]
        /\ Touch(p)
    BY <1>4 DEF UpdatePage, NextVersion
  <2>2. repo # 0
    BY <1>2, <1>4 DEF WikiInv, Incarnations, NoPages
  <2>3. repo \notin stale' => repo \notin stale /\ req[p].seen = repo
    BY <2>1 DEF Touch
  <2>4. repo \notin stale' =>
          /\ req[p].read + 1 <= writes[s] + 1
          /\ s \notin raced => req[p].read + 1 = version[s] + 1
    BY <1>1, <1>2, <2>3 DEF WikiInv, ReadsAreBounded, ReadsAreFresh, Updating
  <2>5. req[p].read + 1 \in Nat \ {0}
    BY <1>2
  <2>6. ~At(p, "idle") /\ ~At(p, "visible") /\ req[p].step \in WriteSteps
    BY <1>1 DEF At, WriteSteps
  <2> QED BY <1>1, <1>2, <2>1, <2>2, <2>4, <2>5, <2>6, WriteStep
<1> QED BY <1>3, <1>4

(* The repository comes: nobody has seen it yet.                           *)
LEMMA CreateRepositoryStep ==
  ASSUME WikiInv, CreateRepository
  PROVE  WikiInv'
<1>1. /\ repo = 0 /\ repo' = made + 1 /\ made' = made + 1
      /\ UNCHANGED <<stale, req, started, audit, version, writes, raced>>
  BY DEF CreateRepository, Incarnate, TableUnchanged
<1>2. WikiTypeOK /\ version = NoPages /\ writes = NoPages
  BY <1>1 DEF WikiInv, Incarnations
<1>3. WikiTypeOK' /\ made \in Nat
  BY <1>1, <1>2 DEF WikiTypeOK
<1>4. \A p \in Requests : req[p] # Idle => req[p].seen \in Nat
  BY <1>2 DEF WikiTypeOK, Request
<1>5. \A p \in Requests : ~Updating(p)'
  BY <1>1, <1>3, <1>4 DEF WikiInv, Checked, Updating, At, Idle
<1>6. Checked'
  BY <1>1, <1>3, <1>4 DEF WikiInv, Checked, Idle
<1>7. VersionIsBounded' /\ VersionCountsWrites'
  BY <1>1, <1>2 DEF VersionIsBounded, VersionCountsWrites, NoPages
<1> QED
  BY <1>1, <1>3, <1>5, <1>6, <1>7
     DEF WikiInv, Incarnations, ReadsAreBounded, ReadsAreFresh,
         OverlapsAreNoticed

(* The repository goes, and its pages with it.                             *)
LEMMA DeleteRepositoryStep ==
  ASSUME WikiInv, DeleteRepository
  PROVE  WikiInv'
<1>1. /\ repo' = 0 /\ version' = NoPages /\ writes' = NoPages
      /\ UNCHANGED <<made, stale, req, started, audit, raced>>
  BY DEF DeleteRepository, Discard
<1>2. WikiTypeOK' /\ made \in Nat
  BY <1>1 DEF WikiInv, WikiTypeOK, NoPages
<1>3. \A p \in Requests : ~Updating(p)'
  BY <1>1 DEF WikiInv, Checked, Updating, At
<1>4. Checked' /\ OverlapsAreNoticed'
  BY <1>1 DEF WikiInv, Checked, OverlapsAreNoticed
<1>5. VersionIsBounded' /\ VersionCountsWrites'
  BY <1>1 DEF VersionIsBounded, VersionCountsWrites, NoPages
<1> QED
  BY <1>1, <1>2, <1>3, <1>4, <1>5
     DEF WikiInv, Incarnations, ReadsAreBounded, ReadsAreFresh
-----------------------------------------------------------------------------
(* Every step keeps the invariant.                                         *)
LEMMA NextInv == WikiInv /\ [WikiNext]_wikiVars => WikiInv'
<1> SUFFICES ASSUME WikiInv, [WikiNext]_wikiVars PROVE WikiInv'
  OBVIOUS
<1>1. started \in Nat /\ audit \subseteq {"wiki.upsert"}
  BY DEF WikiInv, WikiTypeOK
<1>2. ASSUME NEW p \in Requests, ReadPage(p) \/ Fail(p) \/ Audit(p)
      PROVE  WikiInv'
  <2>1. /\ Answer(p)
        /\ UNCHANGED <<repo, made, stale, version, writes, raced, started>>
        /\ audit' = audit \/ audit' = audit \cup {"wiki.upsert"}
    BY <1>2 DEF ReadPage, Fail, Audit, Drop, Record, OnlyRequests,
                RepositoryUnchanged, TableUnchanged, Quietly
  <2> QED BY <1>1, <2>1, AnswerStep
<1>3. ASSUME NEW p \in Requests, Writable(p)
      PROVE  WikiInv'
  <2>1. /\ At(p, "writable")
        /\ GoTo(p, "find_page") \/ Answer(p)
        /\ UNCHANGED <<repo, made, stale, version, writes, raced, started,
                       audit>>
    BY <1>3 DEF Writable, WritableRepository, RepositoryUnchanged,
                TableUnchanged, Quietly
  <2>2. ~At(p, "idle") /\ ~At(p, "visible")
    BY <2>1 DEF At
  <2> QED
    BY <1>1, <2>1, <2>2, AnswerStep, GoToStep DEF Steps, WriteSteps
<1>4. CASE UNCHANGED wikiVars
  BY <1>4 DEF wikiVars, WikiInv, WikiTypeOK, Checked, Incarnations,
              VersionIsBounded, ReadsAreBounded, OverlapsAreNoticed,
              VersionCountsWrites, ReadsAreFresh, Updating, At
<1> QED
  BY <1>2, <1>3, <1>4, CreateRepositoryStep, DeleteRepositoryStep, StartStep,
     VisibleStep, FindPageStep, InsertPageStep, UpdatePageStep
     DEF WikiNext, Upsert

(* The invariant holds in every state of every execution.                  *)
THEOREM Invariant == WikiSpec => []WikiInv
<1> QED BY InitInv, NextInv, PTL DEF WikiSpec

(* Types of the wiki model, for any number of requests and pages.          *)
THEOREM Typing == WikiSpec => []WikiTypeOK
<1>1. WikiInv => WikiTypeOK
  BY DEF WikiInv
<1> QED BY <1>1, Invariant, PTL

(* Overlapping upserts never make a version larger than the number of      *)
(* writes, whatever their number and however they interleave.              *)
THEOREM VersionIsBoundedAlways == WikiSpec => []VersionIsBounded
<1>1. WikiInv => VersionIsBounded
  BY DEF WikiInv
<1> QED BY <1>1, Invariant, PTL

(* A version counts the writes of its page, unless two upserts of it       *)
(* overlapped or one came from an earlier repository.                      *)
THEOREM VersionCountsWritesAlways == WikiSpec => []VersionCountsWrites
<1>1. WikiInv => VersionCountsWrites
  BY DEF WikiInv
<1> QED BY <1>1, Invariant, PTL
=============================================================================
