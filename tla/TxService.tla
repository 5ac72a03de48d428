------------------------------ MODULE TxService ------------------------------
(***************************************************************************)
(* transaction.Service.request (internal/transaction/service.go) and the   *)
(* HTTP handler over it: a DATA_REQUEST is routed, sent to a Logic node    *)
(* and awaited, with one failover after a failed Send.                     *)
(*                                                                         *)
(* Here the concurrency is that of the parts: requests, their deadlines,   *)
(* the registry, the network, the Logic nodes, the shutdown.  The Manager  *)
(* is what module TxManager shows of it when no pending is recycled under  *)
(* a late delivery: the first result for an id is the one its Wait gives.  *)
(* A Send gives what module SendBatcher shows: written; not written, with  *)
(* an error; or either, with the context's error; and when the transport   *)
(* closes during it, possibly nothing at all, for ever.                    *)
(***************************************************************************)
EXTENDS Naturals, FiniteSets

CONSTANTS Requests,    \* POST /v1/data requests
          Nodes,       \* Logic nodes
          NoNode,
          Codes,       \* codes of the ERRORs Logic nodes answer with
          MaxId        \* bound: transaction ids handed out

ASSUME ServiceAssumption ==
    MaxId \in Nat /\ NoNode \notin Nodes /\ Codes \subseteq {"TIMEOUT", "OVERLOAD"}

maxRouteAttempts == 2
Ids == 1..MaxId

\* What a waiter is handed, and what a Request gives back besides.
Answers == {"data"} \cup Codes
Errors == {"ErrManagerClosed", "ErrNoEligibleNode", "ErrTransactionTimeout",
           "ErrInvalidNode", "send", "DeadlineExceeded", "Canceled"}
None == "none"

VARIABLES
    pc,       \* where each request is
    ctx,      \* its reqCtx: live, DeadlineExceeded, Canceled
    attempt,  \* the loop's attempt
    exclude,  \* nodes a Send failed to
    lastErr,
    id,       \* transaction id of the attempt, 0 before the first
    node,     \* node of the attempt
    result,   \* what request returned
    wait,     \* Manager.wait: the open ids
    box,      \* the result each id was handed
    nextID,
    closed,   \* the Manager is closed
    connOpen, \* the transport is open
    stranded, \* requests whose Send the closing transport never answers
    active,   \* ACTIVE nodes
    net,      \* datagrams: DATA_REQUESTs and what answers them
    puts      \* history: datagrams the gateway wrote for each request

reqVars == <<pc, ctx, attempt, exclude, lastErr, id, node, result>>
mgrVars == <<wait, box, nextID>>
vars == <<reqVars, mgrVars, closed, connOpen, stranded, active, net, puts>>

Datagrams ==
    [type : {"DATA_REQUEST"}, id : Ids, body : {None}]
      \cup [type : {"RESPONSE"}, id : Ids, body : Answers]

Init ==
    /\ pc = [r \in Requests |-> "new"]
    /\ ctx = [r \in Requests |-> "live"]
    /\ attempt = [r \in Requests |-> 0]
    /\ exclude = [r \in Requests |-> {}]
    /\ lastErr = [r \in Requests |-> None]
    /\ id = [r \in Requests |-> 0]
    /\ node = [r \in Requests |-> NoNode]
    /\ result = [r \in Requests |-> None]
    /\ wait = {}
    /\ box = [i \in Ids |-> None]
    /\ nextID = 0
    /\ closed = FALSE
    /\ connOpen = TRUE
    /\ stranded = {}
    /\ active \in SUBSET Nodes
    /\ net = {}
    /\ puts = [r \in Requests |-> 0]

-----------------------------------------------------------------------------
(* One Request.                                                            *)

Running(r) == pc[r] \notin {"new", "done"}

\* serveData calls Request; the budget of s.timeout starts.
Begin(r) ==
    /\ pc[r] = "new"
    /\ pc' = [pc EXCEPT ![r] = "loop"]
    /\ UNCHANGED <<ctx, attempt, exclude, lastErr, id, node, result, mgrVars, closed,
                   connOpen, stranded, active, net, puts>>

\* The budget runs out, or the client goes away.
CtxEnds(r, why) ==
    /\ Running(r) /\ ctx[r] = "live"
    /\ ctx' = [ctx EXCEPT ![r] = why]
    /\ UNCHANGED <<pc, attempt, exclude, lastErr, id, node, result, mgrVars, closed,
                   connOpen, stranded, active, net, puts>>

\* request returns res; W is what is left of Manager.wait.
Return(r, res, W) ==
    /\ pc' = [pc EXCEPT ![r] = "done"]
    /\ result' = [result EXCEPT ![r] = res]
    /\ wait' = W
    /\ UNCHANGED <<ctx, attempt, exclude, lastErr, id, node, box, nextID, closed,
                   connOpen, stranded, active, net, puts>>

\* The head of the loop: a context that ended stops it.
LoopStops(r) ==
    /\ pc[r] = "loop" /\ ctx[r] # "live"
    /\ Return(r, IF lastErr[r] # None THEN lastErr[r] ELSE ctx[r], wait)

CreateFails(r) ==
    /\ pc[r] = "loop" /\ ctx[r] = "live"
    /\ closed
    /\ Return(r, "ErrManagerClosed", wait)

\* Manager.Create: every attempt has an id of its own.
Create(r) ==
    /\ pc[r] = "loop" /\ ctx[r] = "live"
    /\ ~closed /\ nextID < MaxId
    /\ nextID' = nextID + 1
    /\ wait' = wait \cup {nextID'}
    /\ id' = [id EXCEPT ![r] = nextID']
    /\ pc' = [pc EXCEPT ![r] = "route"]
    /\ UNCHANGED <<ctx, attempt, exclude, lastErr, node, result, box, closed, connOpen,
                   stranded, active, net, puts>>

\* A slip: the id is not cancelled.
RouteFailsLeaky(r) ==
    /\ pc[r] = "route"
    /\ \/ ctx[r] # "live" /\ Return(r, ctx[r], wait)
       \/ /\ ctx[r] = "live" /\ active \ exclude[r] = {}
          /\ Return(r, "ErrNoEligibleNode", wait)
       \/ /\ ctx[r] = "live" /\ active \ exclude[r] # {}
          /\ Return(r, "ErrInvalidNode", wait)

\* RouteExcluding looks at the context first, then for a candidate; udpAddr may
\* refuse the address of the one it found.
RouteFails(r) ==
    /\ pc[r] = "route"
    /\ \/ ctx[r] # "live" /\ Return(r, ctx[r], wait \ {id[r]})
       \/ /\ ctx[r] = "live" /\ active \ exclude[r] = {}
          /\ Return(r, "ErrNoEligibleNode", wait \ {id[r]})
       \/ /\ ctx[r] = "live" /\ active \ exclude[r] # {}
          /\ Return(r, "ErrInvalidNode", wait \ {id[r]})

Route(r) ==
    /\ pc[r] = "route" /\ ctx[r] = "live"
    /\ \E n \in active \ exclude[r] : node' = [node EXCEPT ![r] = n]
    /\ pc' = [pc EXCEPT ![r] = "send"]
    /\ UNCHANGED <<ctx, attempt, exclude, lastErr, id, result, mgrVars, closed,
                   connOpen, stranded, active, net, puts>>

\* The datagram is written.
Put(r) ==
    /\ connOpen
    /\ net' = net \cup {[type |-> "DATA_REQUEST", id |-> id[r], body |-> None]}
    /\ puts' = [puts EXCEPT ![r] = @ + 1]

Send(r) ==
    /\ pc[r] = "send" /\ r \notin stranded
    /\ Put(r)
    /\ pc' = [pc EXCEPT ![r] = "wait"]
    /\ UNCHANGED <<ctx, attempt, exclude, lastErr, id, node, result, mgrVars, closed,
                   connOpen, stranded, active>>

\* After a Send that gave err: Cancel, and another attempt if one is left.
Failed(r, err) ==
    /\ wait' = wait \ {id[r]}
    /\ lastErr' = [lastErr EXCEPT ![r] = err]
    /\ exclude' = [exclude EXCEPT ![r] = @ \cup {node[r]}]
    /\ attempt' = [attempt EXCEPT ![r] = @ + 1]
    /\ IF attempt[r] + 1 < maxRouteAttempts
       THEN pc' = [pc EXCEPT ![r] = "loop"] /\ UNCHANGED result
       ELSE /\ pc' = [pc EXCEPT ![r] = "done"]
            /\ result' = [result EXCEPT ![r] = err]
    /\ UNCHANGED <<ctx, id, node, box, nextID, closed, connOpen, stranded, active>>

\* A slip: an error of a later datagram of the batch is given to this one.
SendFailsBatch(r) ==
    /\ pc[r] = "send" /\ r \notin stranded
    /\ Failed(r, "send")
    /\ Put(r) \/ UNCHANGED <<net, puts>>

\* An encode or write error, or a closed transport: nothing was written.
SendFails(r) ==
    /\ pc[r] = "send" /\ r \notin stranded
    /\ Failed(r, "send")
    /\ UNCHANGED <<net, puts>>

\* The context ended before Send, or while the batch was pending: Send
\* gives its error although the datagram may have been written.
SendCtx(r) ==
    /\ pc[r] = "send" /\ r \notin stranded /\ ctx[r] # "live"
    /\ Failed(r, ctx[r])
    /\ Put(r) \/ UNCHANGED <<net, puts>>

\* Wait: the id was handed a result.
WaitDone(r) ==
    /\ pc[r] = "wait"
    /\ box[id[r]] # None
    /\ Return(r, box[id[r]], wait \ {id[r]})

\* Wait: the Manager was closed before Wait looked the id up.
WaitClosed(r) ==
    /\ pc[r] = "wait"
    /\ closed
    /\ Return(r, "ErrManagerClosed", wait)

\* A slip: an ended context wins over a result already handed over.
WaitTimesOutAnyway(r) ==
    /\ pc[r] = "wait"
    /\ ctx[r] # "live"
    /\ Return(r, IF ctx[r] = "DeadlineExceeded"
                 THEN "ErrTransactionTimeout" ELSE ctx[r],
              wait \ {id[r]})

\* A slip: Wait looks only for the client's cancellation.
WaitTimesOutNever(r) ==
    /\ pc[r] = "wait"
    /\ box[id[r]] = None /\ ctx[r] = "Canceled"
    /\ Return(r, ctx[r], wait \ {id[r]})

\* Wait: the context ended and nothing was handed to the id.
WaitTimesOut(r) ==
    /\ pc[r] = "wait"
    /\ box[id[r]] = None /\ ctx[r] # "live"
    /\ Return(r, IF ctx[r] = "DeadlineExceeded"
                 THEN "ErrTransactionTimeout" ELSE ctx[r],
              wait \ {id[r]})

-----------------------------------------------------------------------------
(* Its surroundings.                                                       *)

\* A Logic node answers a request; the network may keep a copy of it.
LogicAnswers(d, a) ==
    /\ d \in net /\ d.type = "DATA_REQUEST"
    /\ \E left \in {net, net \ {d}} :
         net' = left \cup {[type |-> "RESPONSE", id |-> d.id, body |-> a]}
    /\ UNCHANGED <<reqVars, mgrVars, closed, connOpen, stranded, active, puts>>

\* Service.OnResponse: Complete or Fail; an id that is not open, or that was
\* handed a result before, gives an error and the datagram is dropped.
OnResponse(d) ==
    /\ connOpen
    /\ d \in net /\ d.type = "RESPONSE"
    /\ net' \in {net, net \ {d}}
    /\ box' = IF d.id \in wait /\ ~closed /\ box[d.id] = None
              THEN [box EXCEPT ![d.id] = d.body] ELSE box
    /\ UNCHANGED <<reqVars, wait, nextID, closed, connOpen, stranded, active, puts>>

Lose(d) ==
    /\ d \in net
    /\ net' = net \ {d}
    /\ UNCHANGED <<reqVars, mgrVars, closed, connOpen, stranded, active, puts>>

\* The registry: nodes come and go.
ActiveChanges(n) ==
    /\ active' = IF n \in active THEN active \ {n} ELSE active \cup {n}
    /\ UNCHANGED <<reqVars, mgrVars, closed, connOpen, stranded, net, puts>>

\* gateway.Run at its end: conn.Close(), then txSvc.Close().  A Send under way
\* may be left in the batcher's channel, where its context does not reach it.
ConnClose ==
    /\ connOpen
    /\ connOpen' = FALSE
    /\ stranded' \in SUBSET {r \in Requests : pc[r] = "send"}
    /\ UNCHANGED <<reqVars, mgrVars, closed, active, net, puts>>

ManagerClose ==
    /\ ~connOpen /\ ~closed
    /\ closed' = TRUE
    /\ box' = [i \in Ids |-> IF i \in wait /\ box[i] = None THEN "ErrManagerClosed"
                             ELSE box[i]]
    /\ wait' = {}
    /\ UNCHANGED <<reqVars, nextID, connOpen, stranded, active, net, puts>>

-----------------------------------------------------------------------------
Step(r) ==
    \/ LoopStops(r) \/ CreateFails(r) \/ Create(r)
    \/ RouteFails(r) \/ Route(r)
    \/ Send(r) \/ SendFails(r) \/ SendCtx(r)
    \/ WaitDone(r) \/ WaitClosed(r) \/ WaitTimesOut(r)

Next ==
    \/ \E r \in Requests :
         \/ Begin(r) \/ Step(r)
         \/ \E why \in {"DeadlineExceeded", "Canceled"} : CtxEnds(r, why)
    \/ \E d \in net :
         \/ \E a \in Answers : LogicAnswers(d, a)
         \/ OnResponse(d) \/ Lose(d)
    \/ \E n \in Nodes : ActiveChanges(n)
    \/ ConnClose \/ ManagerClose

Spec == Init /\ [][Next]_vars

\* A request's goroutine runs and its deadline comes; nothing is asked of
\* the network, of Logic or of the registry.
FairSpec ==
    /\ Spec
    /\ \A r \in Requests :
         WF_vars(Step(r)) /\ WF_vars(CtxEnds(r, "DeadlineExceeded"))

-----------------------------------------------------------------------------
(* The HTTP answer.                                                        *)

\* writeTxError and mapLogicError; 200 stands for the status Logic gave with its
\* data (module HttpServer).
Status(res) ==
    CASE res = "data" -> 200
      [] res \in {"TIMEOUT", "ErrTransactionTimeout", "DeadlineExceeded"} -> 504
      [] res \in {"OVERLOAD", "ErrNoEligibleNode"} -> 503
      [] res = "Canceled" -> 499
      [] res \in {"ErrManagerClosed", "send"} -> 502
      [] res = "ErrInvalidNode" -> 400

-----------------------------------------------------------------------------
(* Properties.                                                             *)

\* Every variable has its type.
TypeOK ==
    /\ pc \in [Requests -> {"new", "loop", "route", "send", "wait", "done"}]
    /\ ctx \in [Requests -> {"live", "DeadlineExceeded", "Canceled"}]
    /\ attempt \in [Requests -> 0..maxRouteAttempts]
    /\ exclude \in [Requests -> SUBSET Nodes]
    /\ lastErr \in [Requests -> Errors \cup {None}]
    /\ id \in [Requests -> 0..MaxId] /\ node \in [Requests -> Nodes \cup {NoNode}]
    /\ result \in [Requests -> Errors \cup Answers \cup {None}]
    /\ wait \subseteq Ids /\ box \in [Ids -> Answers \cup {"ErrManagerClosed", None}]
    /\ nextID \in 0..MaxId
    /\ closed \in BOOLEAN /\ connOpen \in BOOLEAN
    /\ stranded \subseteq Requests
    /\ active \subseteq Nodes
    /\ net \subseteq Datagrams
    /\ puts \in [Requests -> 0..maxRouteAttempts]

\* The gateway writes a request to the network at most once, failover
\* included: after a Send that may have written it the context has ended,
\* and no further attempt is made.  Logic does not run a request twice
\* because of the gateway.
WrittenOnce == \A r \in Requests : puts[r] <= 1

\* Whatever way a request ends, none of its ids stays in the Manager.
NothingLeft ==
    \A i \in wait : \E r \in Requests : id[r] = i /\ pc[r] \in {"route", "send", "wait"}

\* A request that got as far as Wait and whose waiter was handed an answer,
\* other than a timeout of Logic's own, is not a 504 at the client, although the
\* deadline may have passed before the answer or before Wait looked.
NoFake504 ==
    \A r \in Requests :
        /\ pc[r] = "done" /\ id[r] # 0 /\ node[r] \notin exclude[r]
        /\ box[id[r]] \in Answers \ {"TIMEOUT"}
        => Status(result[r]) # 504

\* Every request returns within its budget, whatever the network, the registry
\* and the shutdown do, except one whose Send met the closing transport and is
\* never answered: it is still in that Send.
RequestReturns ==
    \A r \in Requests :
        pc[r] = "loop" ~> (pc[r] = "done" \/ (r \in stranded /\ pc[r] = "send"))
=============================================================================
