------------------------------ MODULE Metrics ------------------------------
(***************************************************************************)
(* metrics.Metrics (internal/metrics), as far as requests are concerned:   *)
(* the counters that /metrics.json shows and the gauge of open             *)
(* transactions, which is also what admission decides on.  A value of the  *)
(* module is the struct; every operator is one critical section of m.mu,   *)
(* or one atomic store, and gives the struct after it.                     *)
(*                                                                         *)
(* Prometheus has a second copy of each, written after the unlock; nothing *)
(* reads it but the scraper, and it is left out, with the latencies.       *)
(***************************************************************************)
EXTENDS Integers, FiniteSets

CONSTANT Statuses   \* the statuses requests end with

ASSUME StatusAssumption == Statuses \subseteq 100..599

\* Why a request failed; a request that did not has the reason "ok".
Reasons == {"missing_message_id", "invalid_body", "body_too_large",
            "invalid_request", "invalid_node", "canceled", "empty_response",
            "udp_send_failed", "manager_closed", "no_routing_target", "timeout",
            "rate_limited", "logic_error", "unknown"}

New == [received |-> 0,         \* http_received_total
        rateLimited |-> 0,      \* http_rate_limited_total
        http504 |-> 0,          \* http_504_total
        inFlight |-> 0,
        total |-> 0, ok |-> 0, fail |-> 0,
        byStatus |-> [s \in Statuses |-> 0],
        failByReason |-> [r \in Reasons |-> 0],
        managerPending |-> 0]   \* manager_pending

AddHTTPReceived(m) == [m EXCEPT !.received = @ + 1]
AddHTTPRateLimited(m) == [m EXCEPT !.rateLimited = @ + 1]
AddHTTP504(m) == [m EXCEPT !.http504 = @ + 1]

\* Never shown below zero.
AddInFlight(m, d) == [m EXCEPT !.inFlight = IF @ + d < 0 THEN 0 ELSE @ + d]

\* A request is over.  (failByCode is byStatus without the good ones.)
Observe(m, s, r) ==
    LET good == s \in 200..399
        why == IF r = "ok" THEN "unknown" ELSE r
    IN [m EXCEPT !.total = @ + 1,
                 !.byStatus[s] = @ + 1,
                 !.ok = IF good THEN @ + 1 ELSE @,
                 !.fail = IF good THEN @ ELSE @ + 1,
                 !.failByReason[why] = IF good THEN @ ELSE @ + 1]

SetManagerPending(m, n) == [m EXCEPT !.managerPending = n]
=============================================================================
