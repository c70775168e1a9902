------------------------------ MODULE Webhooks ------------------------------
(***************************************************************************)
(* The webhooks of one repository and their deliveries.  A dispatch reads  *)
(* the webhooks that want the event and then, one after the other, posts   *)
(* to the endpoint and inserts a delivery; the endpoint may answer, refuse *)
(* or not be there.  Meanwhile the repository may go, its webhooks and     *)
(* deliveries with it, and come back without them.  A webhook that is not  *)
(* active subscribes to nothing here; its url and secret are left out.     *)
(***************************************************************************)
EXTENDS RepositoryServing, FiniteSets

CONSTANT Events   \* the events a webhook may subscribe to

VARIABLES
  hooks,       \* the webhooks table: id -> events it subscribes to
  created,     \* webhooks that were ever created; ids are not used again
  deliveries,  \* webhook_deliveries: id -> how many succeeded and failed
  posts,       \* history: posts to the endpoint of each webhook
  unrecorded   \* history: posts whose request stopped before the INSERT

webhooksVars == <<req, started, audit, repo, made, stale, hooks, created,
                  deliveries, posts, unrecorded>>

(* A request creates at most one webhook.                                  *)
HookIds == 1..MaxRequests
Outcomes == {"success", "failure"}

Steps == {"visible", "writable", "list", "insert", "find_hook", "select",
          "send", "record", "audit"}

(* todo holds the webhooks still to be served, outcome what the endpoint   *)
(* of the first of them did with the post.                                 *)
Request ==
  {Idle} \cup
  [step : Steps, op : {"list", "create", "ping", "dispatch"}, actor : Users,
   events : SUBSET Events, hook : Nat, seen : Nat, outcome : Outcomes,
   todo : SUBSET HookIds]

NoRows == [h \in {} |-> 0]
NoDelivery == [o \in Outcomes |-> 0]
HooksUnchanged == UNCHANGED <<hooks, created, deliveries>>
HistoryUnchanged == UNCHANGED <<posts, unrecorded>>
OnlyRequests ==
  RepositoryUnchanged /\ Quietly /\ HooksUnchanged /\ HistoryUnchanged

(* SELECT ... ORDER BY created_at: the first is the oldest.                *)
First(ids) == CHOOSE h \in ids : \A k \in ids : h <= k
-----------------------------------------------------------------------------
WebhooksInit ==
  /\ ServingInit
  /\ RepositoryInit
  /\ hooks = NoRows
  /\ created = 0
  /\ deliveries = NoRows
  /\ posts = [h \in HookIds |-> 0]
  /\ unrecorded = [h \in HookIds |-> 0]

CreateRepository == Incarnate /\ HooksUnchanged /\ HistoryUnchanged

DeleteRepository ==
  /\ Discard
  /\ hooks' = NoRows
  /\ deliveries' = NoRows
  /\ UNCHANGED created /\ HistoryUnchanged

Start(p, op, u, events, h) ==
  /\ CASE op = "create" -> TRUE
       [] op = "dispatch" -> Cardinality(events) = 1
       [] OTHER -> events = {}
  /\ IF op = "ping" THEN h # 0 ELSE h = 0
  /\ Arrive(p, [step |-> IF op = "ping" THEN "find_hook" ELSE "visible",
                op |-> op, actor |-> u, events |-> events, hook |-> h,
                seen |-> 0, outcome |-> "failure", todo |-> {}])
  /\ RepositoryUnchanged /\ HooksUnchanged /\ HistoryUnchanged

(* recordWebhookPing: findWebhook, before the repository is checked        *)
FindHook(p) ==
  LET h == req[p].hook IN
  /\ At(p, "find_hook")
  /\ IF h \in DOMAIN hooks
       THEN Becomes(p, [req[p] EXCEPT !.step = "visible", !.todo = {h}])
       ELSE Answer(p)                                           \* 404
  /\ OnlyRequests

Visible(p) ==
  /\ VisibleRepository(p, "writable")
  /\ HooksUnchanged /\ HistoryUnchanged

AfterWritable(op) == CASE op = "list" -> "list"
                       [] op = "create" -> "insert"
                       [] op = "ping" -> "send"
                       [] OTHER -> "select"

Writable(p) ==
  /\ WritableRepository(p, AfterWritable(req[p].op))
  /\ HooksUnchanged /\ HistoryUnchanged

(* listWebhooks                                                            *)
ListWebhooks(p) ==
  /\ At(p, "list")
  /\ Answer(p)
  /\ OnlyRequests

(* createWebhook: INSERT, refused without the repository (foreign key)     *)
InsertHook(p) ==
  LET h == created + 1 IN
  /\ At(p, "insert")
  /\ IF repo = 0
       THEN Answer(p) /\ RepositoryUnchanged /\ HooksUnchanged  \* 500
       ELSE /\ created' = h
            /\ hooks' = [k \in DOMAIN hooks \cup {h} |->
                           IF k = h THEN req[p].events ELSE hooks[k]]
            /\ deliveries' = [k \in DOMAIN deliveries \cup {h} |->
                                IF k = h THEN NoDelivery ELSE deliveries[k]]
            /\ Touch(p)
            /\ GoTo(p, "audit")
  /\ Quietly /\ HistoryUnchanged
-----------------------------------------------------------------------------
(* dispatchWebhookEvent: listWebhooks, filtered by the event ...           *)
Select(p) ==
  LET ids == {h \in DOMAIN hooks : req[p].events \subseteq hooks[h]} IN
  /\ At(p, "select")
  /\ Becomes(p, [req[p] EXCEPT
                   !.todo = ids,
                   !.step = IF ids = {} THEN "audit" ELSE "send"])
  /\ OnlyRequests

(* ... and for each of them sendWebhook, which never throws ...            *)
Send(p) ==
  /\ At(p, "send")
  /\ posts' = [posts EXCEPT ![First(req[p].todo)] = @ + 1]
  /\ \E outcome \in Outcomes :
        Becomes(p, [req[p] EXCEPT !.step = "record", !.outcome = outcome])
  /\ RepositoryUnchanged /\ Quietly /\ HooksUnchanged /\ UNCHANGED unrecorded

(* Mutant: an endpoint that fails ends the loop.                           *)
AfterRecordStopping(q) ==
  IF q.todo = {First(q.todo)} \/ q.outcome = "failure" THEN "audit" ELSE "send"

AfterRecord(q) == IF q.todo = {First(q.todo)} THEN "audit" ELSE "send"

Stop(p) ==
  /\ Answer(p)
  /\ unrecorded' = [unrecorded EXCEPT ![First(req[p].todo)] = @ + 1]

(* ... then recordWebhookDelivery, refused without the webhook (foreign    *)
(* key), which ends the request.                                           *)
RecordDelivery(p) ==
  LET h == First(req[p].todo) IN
  /\ At(p, "record")
  /\ IF h \notin DOMAIN hooks
       THEN Stop(p) /\ RepositoryUnchanged /\ UNCHANGED deliveries \* 500
       ELSE /\ deliveries' = [deliveries EXCEPT ![h][req[p].outcome] = @ + 1]
            /\ Becomes(p, [req[p] EXCEPT !.todo = @ \ {h},
                                         !.step = AfterRecord(req[p])])
            /\ Touch(p)
            /\ UNCHANGED unrecorded
  /\ Quietly /\ UNCHANGED <<hooks, created, posts>>

Action(op) == CASE op = "create" -> "webhook.create"
                [] op = "ping" -> "webhook.ping"
                [] OTHER -> "webhook.event.dispatch"

Audit(p) ==
  /\ At(p, "audit")
  /\ Record(p, Action(req[p].op))
  /\ RepositoryUnchanged /\ HooksUnchanged /\ HistoryUnchanged

Fail(p) ==
  /\ IF At(p, "record") THEN Stop(p) /\ Quietly
                        ELSE Drop(p) /\ UNCHANGED unrecorded
  /\ RepositoryUnchanged /\ HooksUnchanged /\ UNCHANGED posts

Deliver(p) == Select(p) \/ Send(p) \/ RecordDelivery(p)

WebhooksNext ==
  \/ CreateRepository
  \/ DeleteRepository
  \/ \E p \in Requests, op \in {"list", "create", "ping", "dispatch"},
        u \in Users, events \in SUBSET Events, h \in 0..created :
        Start(p, op, u, events, h)
  \/ \E p \in Requests : \/ FindHook(p) \/ Visible(p) \/ Writable(p)
                         \/ ListWebhooks(p) \/ InsertHook(p) \/ Deliver(p)
                         \/ Audit(p) \/ Fail(p)

WebhooksSpec == WebhooksInit /\ [][WebhooksNext]_webhooksVars
-----------------------------------------------------------------------------
WebhooksTypeOK ==
  /\ repo \in Nat
  /\ made \in Nat
  /\ stale \subseteq Nat
  /\ DOMAIN hooks \subseteq HookIds
  /\ hooks \in [DOMAIN hooks -> SUBSET Events]
  /\ created \in 0..MaxRequests
  /\ deliveries \in [DOMAIN hooks -> [Outcomes -> Nat]]
  /\ posts \in [HookIds -> Nat]
  /\ unrecorded \in [HookIds -> Nat]
  /\ req \in [Requests -> Request]
  /\ started \in Nat

Recorded(h) == deliveries[h]["success"] + deliveries[h]["failure"]

Posted(h) == {p \in Requests : At(p, "record") /\ First(req[p].todo) = h}

(* Every post to an endpoint becomes exactly one delivery, whatever the    *)
(* endpoint did, unless its request stopped between the two; and a request *)
(* gets to its audit entry only when each webhook it selected was served.  *)
DispatchIsComplete ==
  /\ \A h \in DOMAIN hooks :
        posts[h] = Recorded(h) + Cardinality(Posted(h)) + unrecorded[h]
  /\ \A p \in Requests : At(p, "audit") => req[p].todo = {}
=============================================================================
