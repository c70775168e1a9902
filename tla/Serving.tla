------------------------------ MODULE Serving ------------------------------
(***************************************************************************)
(* What every component of the server shares: a request is a state machine *)
(* in a slot that runs from one awaited call to the next, many of them     *)
(* interleaved, until it is answered; and the audit log it writes to.      *)
(***************************************************************************)
EXTENDS Access, Naturals

CONSTANTS
  Requests,     \* slots for requests being served at the same time
  MaxRequests   \* bound: requests that ever arrive

ASSUME ServingAssumption == MaxRequests \in Nat

VARIABLES
  req,      \* the request in each slot
  started,  \* how many requests arrived
  audit     \* audit_logs: what was recorded, without the time

Idle == [step |-> "idle"]

ServingInit ==
  /\ req = [p \in Requests |-> Idle]
  /\ started = 0
  /\ audit = {}

At(p, step) == req[p].step = step

Becomes(p, record) == req' = [req EXCEPT ![p] = record]

GoTo(p, step) == Becomes(p, [req[p] EXCEPT !.step = step])

Answer(p) == Becomes(p, Idle)

Quietly == UNCHANGED <<started, audit>>

Arrive(p, record) ==
  /\ At(p, "idle")
  /\ started < MaxRequests
  /\ started' = started + 1
  /\ Becomes(p, record)
  /\ UNCHANGED audit

(* The last call of a request that changed something.                      *)
Record(p, entry) ==
  /\ At(p, "audit")
  /\ audit' = audit \cup {entry}
  /\ Answer(p)
  /\ UNCHANGED started

(* The awaited call throws, a field fails its validation, or the process   *)
(* stops.                                                                  *)
Drop(p) ==
  /\ ~At(p, "idle")
  /\ Answer(p)
  /\ Quietly
=============================================================================
