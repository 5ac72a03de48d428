----------------------------- MODULE HttpServer -----------------------------
(***************************************************************************)
(* POST /v1/data at the gateway (internal/httpsrv): the rate gate, the     *)
(* max_pending gate, the request itself, and what each of them counts.     *)
(*                                                                         *)
(* The max_pending gate compares a gauge with MaxPending.  The gauge is    *)
(* what transaction.Manager publishes: Create and remove compute the size  *)
(* of the map under its lock and store it after they have unlocked, so two *)
(* handlers may store in the other order.                                  *)
(*                                                                         *)
(* How a request gets its outcome is in TxService, of which it keeps here  *)
(* one transaction, opened and removed, and the answer: the status that    *)
(* Logic gave, passed on, or an error with its status and its reason.      *)
(***************************************************************************)
EXTENDS Metrics

CONSTANTS MaxReq,      \* bound: requests
          MaxPending,  \* cfg.HTTP.MaxPending
          LogicStatuses,  \* bound: for each request, the DataResponse.status
                          \* that Logic may give
          Errors          \* bound: for each, the errors that may happen

Requests == 1..MaxReq

\* What serveData, writeTxError and mapLogicError make of an error.
Error(s, r) == [status |-> s, reason |-> r]
TxErrors ==
    {Error(400, r) : r \in {"missing_message_id", "invalid_body", "invalid_node",
                            "invalid_request"}}
    \cup {Error(502, r) : r \in {"empty_response", "udp_send_failed",
                                 "manager_closed", "logic_error", "unknown"}}
    \cup {Error(413, "body_too_large"), Error(499, "canceled"),
          Error(503, "no_routing_target"), Error(504, "timeout")}

\* Those of a request that never got a transaction.
Untracked == {"missing_message_id", "invalid_body", "body_too_large",
              "invalid_request", "manager_closed", "canceled"}

\* The status of a DATA_RESPONSE, and its reason.
Passed(s) == IF s \in 100..599 THEN s ELSE 200
ReasonOf(s) == IF s >= 400 THEN "logic_error" ELSE "ok"

ASSUME ServerAssumption ==
    /\ MaxReq \in Nat /\ MaxPending \in Nat \ {0}
    /\ {200, 429} \subseteq Statuses
    /\ \A h \in Requests :
         /\ LogicStatuses[h] \subseteq Nat /\ Errors[h] \subseteq TxErrors
         /\ \A s \in LogicStatuses[h] : Passed(s) \in Statuses
         /\ \A e \in Errors[h] : e.status \in Statuses

VARIABLES
    hpc,       \* where the handler of each request is
    status,    \* the status it answers with, 0 before
    reason,    \* and the reason, for Observe
    gone,      \* requests whose client has left: r.Context() is cancelled
    waiters,   \* requests whose transaction is in Manager.wait
    seen,      \* the size each handler computed under the lock, to be stored
    met,       \* the Metrics
    rejected,  \* history: a request was refused by the max_pending gate
    exceeded   \* history: there were more than MaxPending waiters

serverVars == <<hpc, status, reason, gone, waiters, seen, met, rejected, exceeded>>

ServerInit ==
    /\ hpc = [h \in Requests |-> "none"]
    /\ status = [h \in Requests |-> 0]
    /\ reason = [h \in Requests |-> "ok"]
    /\ gone = {}
    /\ waiters = {}
    /\ seen = [h \in Requests |-> 0]
    /\ met = New
    /\ rejected = FALSE
    /\ exceeded = FALSE

Move(h, a, b) == hpc[h] = a /\ hpc' = [hpc EXCEPT ![h] = b]

\* The response has been written; it leaves when the handler returns.
Write(h, s, r) ==
    /\ status' = [status EXCEPT ![h] = s]
    /\ reason' = [reason EXCEPT ![h] = r]

-----------------------------------------------------------------------------
(* handleData.                                                             *)

\* observeArrival and rps.allow(): the limiter, if there is one, may refuse.
Arrive(h) ==
    /\ \/ /\ Move(h, "none", "gate")
          /\ met' = AddHTTPReceived(met)
          /\ UNCHANGED <<status, reason>>
       \/ /\ Move(h, "none", "observe")
          /\ met' = AddHTTPRateLimited(AddHTTPReceived(met))
          /\ Write(h, 429, "rate_limited")
    /\ UNCHANGED <<gone, waiters, seen, rejected, exceeded>>

\* A slip: the gate closes at the limit, not above it.
OverLimitAtLimit(n) == n >= MaxPending

OverLimit(n) == n > MaxPending

\* A slip: the handler returns from the max_pending gate without Observe.
GateUnobserved(h) ==
    /\ IF OverLimit(met.managerPending)
       THEN /\ Move(h, "gate", "done")
            /\ met' = AddHTTPRateLimited(met)
            /\ Write(h, 429, "rate_limited")
            /\ rejected' = TRUE
       ELSE /\ Move(h, "gate", "create")
            /\ met' = AddInFlight(met, 1)
            /\ UNCHANGED <<status, reason, rejected>>
    /\ UNCHANGED <<gone, waiters, seen, exceeded>>

\* The max_pending gate reads the gauge; AddInFlight(1).
Gate(h) ==
    /\ IF OverLimit(met.managerPending)
       THEN /\ Move(h, "gate", "observe")
            /\ met' = AddHTTPRateLimited(met)
            /\ Write(h, 429, "rate_limited")
            /\ rejected' = TRUE
       ELSE /\ Move(h, "gate", "create")
            /\ met' = AddInFlight(met, 1)
            /\ UNCHANGED <<status, reason, rejected>>
    /\ UNCHANGED <<gone, waiters, seen, exceeded>>

\* The size of the map, computed under its lock.
Sized(h, W) ==
    /\ waiters' = W
    /\ seen' = [seen EXCEPT ![h] = Cardinality(W)]

\* Manager.Create up to its Unlock.
Create(h) ==
    /\ Move(h, "create", "created")
    /\ Sized(h, waiters \cup {h})
    /\ exceeded' = (exceeded \/ Cardinality(waiters') > MaxPending)
    /\ UNCHANGED <<status, reason, gone, met, rejected>>

\* SetManagerPending after Create.
CreatePublish(h) ==
    /\ Move(h, "created", "waiting")
    /\ met' = SetManagerPending(met, seen[h])
    /\ UNCHANGED <<status, reason, gone, waiters, seen, rejected, exceeded>>

\* Manager.remove up to its Unlock, from Wait or from Cancel.
Remove(h) ==
    /\ Move(h, "waiting", "removed")
    /\ Sized(h, waiters \ {h})
    /\ UNCHANGED <<status, reason, gone, met, rejected, exceeded>>

\* An error e is written: the budget spent, which is counted, or an ERROR of
\* Logic that means the same, which is not; the context cancelled.
Fail(h, e, m) ==
    /\ e.reason = "canceled" => h \in gone
    /\ Write(h, e.status, e.reason)
    /\ \/ met' = m
       \/ e.reason = "timeout" /\ met' = AddHTTP504(m)

\* What Request returned: the status of Logic is passed on, an error mapped.
Outcome(h, m) ==
    \/ \E s \in LogicStatuses[h] :
         Write(h, Passed(s), ReasonOf(Passed(s))) /\ met' = m
    \/ \E e \in Errors[h] : Fail(h, e, m)

\* No transaction: the body cannot be read, Request refuses; AddInFlight(-1).
Refuse(h) ==
    /\ Move(h, "create", "observe")
    /\ \E e \in Errors[h] : e.reason \in Untracked /\ Fail(h, e, AddInFlight(met, -1))
    /\ UNCHANGED <<gone, waiters, seen, rejected, exceeded>>

\* SetManagerPending after remove; the response; AddInFlight(-1).
RemovePublish(h) ==
    /\ Move(h, "removed", "observe")
    /\ Outcome(h, AddInFlight(SetManagerPending(met, seen[h]), -1))
    /\ UNCHANGED <<gone, waiters, seen, rejected, exceeded>>

\* Observe, and the handler returns; its response is forgotten when nobody is
\* there to read it.
Finish(h) ==
    /\ Move(h, "observe", "done")
    /\ met' = Observe(met, status[h], reason[h])
    /\ seen' = [seen EXCEPT ![h] = 0]
    /\ Write(h, IF h \in gone THEN 0 ELSE status[h], "ok")
    /\ gone' = gone \ {h}
    /\ UNCHANGED <<waiters, rejected, exceeded>>

Handler(h) ==
    \/ Gate(h) \/ Refuse(h) \/ Create(h) \/ CreatePublish(h)
    \/ Remove(h) \/ RemovePublish(h) \/ Finish(h)

Inside == {h \in Requests : hpc[h] \notin {"none", "done"}}
Serving == {h \in Inside : hpc[h] \notin {"gate", "observe"}}

-----------------------------------------------------------------------------
(* Properties.                                                             *)

\* The gate refuses nobody before there were, at some moment, more than
\* MaxPending open transactions: no order of the stores makes the gauge show
\* a number that was never true.
NeverOverNeverRefused == rejected => exceeded
=============================================================================
