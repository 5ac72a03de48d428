------------------------------ MODULE LoadTest ------------------------------
(***************************************************************************)
(* The load client against the gateway's HTTP server: the numbers the      *)
(* workers draw are the requests, one HTTP/2 stream each.  A worker whose  *)
(* call fails, for its timeout at the latest, leaves a handler behind that *)
(* goes on with a cancelled context.  The response of a handler leaves     *)
(* when the handler returns; that of a large body may begin to before.     *)
(***************************************************************************)
EXTENDS HttpServer, LoadClient

\* MaxReq bounds the numbers that are drawn, and the client has a counter for
\* every status.
ASSUME LoadAssumption ==
    /\ MaxSeq <= MaxReq /\ \A c \in Commands : Merged(c).n <= MaxReq
    /\ Statuses \subseteq Codes

vars == <<serverVars, clientVars>>

Init == ServerInit /\ ClientInit

\* The request arrives, or there is no connection.
Call(w) == Send(w) /\ (Arrive(cur[w]) \/ UNCHANGED serverVars)

\* The call is over for the client: what is left of the stream.
Left(h) ==
    /\ IF h \in Inside THEN gone' = gone \cup {h} /\ UNCHANGED <<status, reason>>
       ELSE Write(h, 0, "ok") /\ UNCHANGED gone
    /\ UNCHANGED <<hpc, waiters, seen, met, rejected, exceeded>>

\* The status as it comes over HTTP/2: a 1xx is informational, the response
\* that follows it a 200.
Wire(s) == IF s \in 100..199 THEN 200 ELSE s

Answered(w) ==
    /\ wpc[w] = "call" /\ hpc[cur[w]] = "done"
    /\ CallEnds(w, Wire(status[cur[w]]), FALSE)
    /\ Left(cur[w])

\* The headers came, the rest did not.
Torn(w) ==
    /\ wpc[w] = "call" /\ hpc[cur[w]] \in {"observe", "done"}
    /\ CallEnds(w, Wire(status[cur[w]]), TRUE)
    /\ Left(cur[w])


\* No connection, the client's timeout, or the end of ctx.
CallFails(w) ==
    /\ wpc[w] = "call"
    /\ CallEnds(w, 0, TRUE)
    /\ Left(cur[w])

ClientStep(w) ==
    \/ (Draw(w) \/ Limit(w)) /\ UNCHANGED serverVars
    \/ Call(w)

MainStep == (WriteLine \/ WaitWorkers \/ CloseLog) /\ UNCHANGED serverVars

Next ==
    \/ \E h \in Requests : Handler(h) /\ UNCHANGED clientVars
    \/ \E w \in Workers : ClientStep(w) \/ Answered(w) \/ Torn(w) \/ CallFails(w)
    \/ MainStep
    \/ (Interrupt \/ DeadlinePasses) /\ UNCHANGED serverVars

Spec == Init /\ [][Next]_vars

\* Calls end by the client's timer, if it has one, or with its context.
CallBounded == opt.timeout > 0 \/ ctxDone

\* The client's goroutines are scheduled, its timer fires, tokens and the
\* deadline come.  Of the gateway nothing is asked.
FairSpec ==
    /\ Spec
    /\ \A w \in Workers : /\ WF_vars(ClientStep(w))
                         /\ WF_vars(CallBounded /\ CallFails(w))
    /\ WF_vars(MainStep)
    /\ WF_vars(DeadlinePasses /\ UNCHANGED serverVars)

-----------------------------------------------------------------------------
(* Properties.                                                             *)

\* The two reports of one load test agree.  At the gateway every request that
\* arrived is counted once, whichever of the gates, the answer or the timeout
\* ended it, and shown as in flight meanwhile; those it counts as rate limited
\* are what its gates refused, whatever 429s Logic answers with, and its own
\* timeouts are among the failures with that reason.  Once both sides are done,
\* the client has not seen a status more often than the gateway gave it, but
\* for the 200 that a 1xx of Logic becomes, a failure of unknown reason at the
\* gateway; and a call without a status is the only difference.
ReportsAgree ==
    /\ met.received = met.total + Cardinality(Inside)
    /\ met.inFlight = Cardinality(Serving)
    /\ met.total = met.ok + met.fail
    /\ (runLoad = "returned" /\ Inside = {}) =>
         /\ met.failByReason["rate_limited"] = met.rateLimited
         /\ met.http504 <= met.failByReason["timeout"]
         /\ \A s \in Statuses \ {200} : st.byStatus[s] <= met.byStatus[s]
         /\ st.byStatus[200] <= met.byStatus[200] + met.failByReason["unknown"]
         /\ met.total <= issued
         /\ issued - met.total <= st.byStatus[-1]

=============================================================================
