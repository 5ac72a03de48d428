-------------------------- MODULE TxServiceProofs --------------------------
(***************************************************************************)
(* Proofs about TxService: its types, that a request is written at most    *)
(* once, that no id stays in the Manager, and that an answer handed over   *)
(* is not turned into a 504; for any number of requests, nodes and ids.    *)
(***************************************************************************)
EXTENDS TxService, TLAPS

-----------------------------------------------------------------------------
(* The inductive invariant, in named parts.                                *)

Holding == {"route", "send", "wait"}

\* The attempt a request is in, and the ids it had so far.
Attempts ==
    \A r \in Requests :
        /\ id[r] <= nextID
        /\ pc[r] \in Holding => id[r] # 0
        /\ pc[r] \in {"send", "wait"} => node[r] \in Nodes
        /\ pc[r] = "new" => id[r] = 0
        /\ pc[r] # "done" => attempt[r] < maxRouteAttempts
        /\ pc[r] = "loop" /\ id[r] # 0 => node[r] \in exclude[r]

\* Until its Send nothing was written of a request, except in the loop of one
\* whose context has ended.
Once ==
    \A r \in Requests :
        /\ puts[r] <= 1
        /\ pc[r] \in {"new", "route", "send"} => puts[r] = 0
        /\ pc[r] = "loop" => puts[r] = 0 \/ ctx[r] # "live"

\* Ids are handed out in order, each to one request; one that was not handed
\* out is unknown to the Manager and to the network.
Issued ==
    /\ \A q, r \in Requests : id[q] = id[r] /\ id[q] # 0 => q = r
    /\ \A i \in Ids : i > nextID => box[i] = None /\ i \notin wait
    /\ \A d \in net : d.id <= nextID

\* The Manager's map and the requests that wait or will.
Owned ==
    /\ NothingLeft
    /\ closed => wait = {}
    /\ \A r \in Requests : pc[r] \notin Holding => id[r] \notin wait

\* Before the Send there is no answer.
Unanswered ==
    \A r \in Requests : pc[r] \in {"route", "send"} =>
        /\ box[id[r]] \notin Answers
        /\ \A d \in net : d.id # id[r]

IInv == TypeOK /\ Attempts /\ Once /\ Issued /\ Owned /\ Unanswered /\ NoFake504

-----------------------------------------------------------------------------
(* Lemmas.                                                                 *)

\* The kinds of results differ.
LEMMA Kinds ==
    /\ None \notin Answers /\ "ErrManagerClosed" \notin Answers
    /\ Answers \subseteq {"data", "TIMEOUT", "OVERLOAD"}
    /\ None \notin Errors /\ "ErrManagerClosed" \in Errors
    /\ {"DeadlineExceeded", "Canceled", "send", "ErrNoEligibleNode", "ErrInvalidNode",
        "ErrTransactionTimeout"} \subseteq Errors
  BY ServiceAssumption DEF Answers, Errors, None

\* Only a timeout, the gateway's or Logic's own, is a 504.
LEMMA StatusOfAnswers ==
    /\ \A x \in Answers \ {"TIMEOUT"} : Status(x) # 504
    /\ Status("ErrManagerClosed") # 504
  <1>1. Status("data") = 200
    BY DEF Status
  <1>2. Status("OVERLOAD") = 503
    BY DEF Status
  <1>3. Status("ErrManagerClosed") = 502
    BY DEF Status
  <1> QED BY <1>1, <1>2, <1>3, Kinds

\* The invariant holds at the start.
LEMMA InitIInv == Init => IInv
  <1> SUFFICES ASSUME Init PROVE IInv
    OBVIOUS
  <1>1. TypeOK
    <2>1. /\ pc \in [Requests -> {"new", "loop", "route", "send", "wait", "done"}]
          /\ ctx \in [Requests -> {"live", "DeadlineExceeded", "Canceled"}]
          /\ exclude \in [Requests -> SUBSET Nodes]
          /\ lastErr \in [Requests -> Errors \cup {None}]
          /\ node \in [Requests -> Nodes \cup {NoNode}]
          /\ result \in [Requests -> Errors \cup Answers \cup {None}]
          /\ wait \subseteq Ids /\ box \in [Ids -> Answers \cup {"ErrManagerClosed", None}]
          /\ active \subseteq Nodes /\ net \subseteq Datagrams /\ stranded \subseteq Requests
      BY DEF Init
    <2>2. /\ attempt \in [Requests -> 0..maxRouteAttempts]
          /\ puts \in [Requests -> 0..maxRouteAttempts]
          /\ id \in [Requests -> 0..MaxId] /\ nextID \in 0..MaxId
      BY ServiceAssumption DEF Init, maxRouteAttempts
    <2>3. closed \in BOOLEAN /\ connOpen \in BOOLEAN
      BY DEF Init
    <2> QED BY <2>1, <2>2, <2>3 DEF TypeOK
  <1> QED
    BY <1>1, ServiceAssumption
       DEF Init, IInv, Attempts, Once, Issued, Owned, NothingLeft, Unanswered, NoFake504,
           Holding, maxRouteAttempts, Ids

\* request returns.
LEMMA ReturnStep ==
    ASSUME IInv, NEW r \in Requests, NEW res \in Errors \cup Answers, NEW W \in SUBSET Ids,
           pc[r] \in {"loop", "route", "wait"},
           Return(r, res, W),
           W = wait \/ W = wait \ {id[r]},
           id[r] \notin W,
           id[r] # 0 /\ node[r] \notin exclude[r] /\ box[id[r]] \in Answers \ {"TIMEOUT"}
             => Status(res) # 504
    PROVE  IInv'
  <1>1. TypeOK'
    BY DEF IInv, TypeOK, Return
  <1>2. Attempts' /\ Once'
    BY DEF IInv, TypeOK, Return, Attempts, Once, Holding
  <1>3. Issued' /\ Unanswered'
    BY DEF IInv, TypeOK, Return, Issued, Unanswered
  <1>4. Owned'
    <2>1. NothingLeft'
      BY DEF IInv, TypeOK, Return, Owned, NothingLeft, Holding
    <2>2. (closed => wait = {})'
      BY DEF IInv, Return, Owned
    <2>3. \A q \in Requests : pc'[q] \notin Holding => id'[q] \notin wait'
      BY DEF IInv, TypeOK, Return, Owned, Holding
    <2> QED BY <2>1, <2>2, <2>3 DEF Owned
  <1>5. NoFake504'
    BY DEF IInv, TypeOK, Return, NoFake504
  <1> QED BY <1>1, <1>2, <1>3, <1>4, <1>5 DEF IInv

\* A Send gave an error: nothing was written, or the context has ended.
LEMMA FailedStep ==
    ASSUME IInv, NEW r \in Requests, NEW err \in Errors,
           pc[r] = "send", Failed(r, err),
           UNCHANGED <<net, puts>> \/ (ctx[r] # "live" /\ Put(r))
    PROVE  IInv'
  <1>t. TypeOK /\ attempt[r] \in {0, 1} /\ id[r] \in Ids /\ puts[r] = 0 /\ node[r] \in Nodes
    <2>1. TypeOK /\ attempt[r] \in 0..2 /\ attempt[r] < 2
      BY DEF IInv, TypeOK, Attempts, maxRouteAttempts
    <2>2. id[r] \in 0..MaxId /\ id[r] # 0
      BY DEF IInv, TypeOK, Attempts, Holding
    <2>3. puts[r] = 0 /\ node[r] \in Nodes
      BY DEF IInv, Once, Attempts
    <2>4. id[r] \in Ids
      BY <2>2, ServiceAssumption DEF Ids
    <2> QED BY <2>1, <2>3, <2>4
  <1>n. /\ net' \subseteq Datagrams
        /\ \A d \in net' : d \in net \/ d.id = id[r]
        /\ puts' \in [Requests -> 0..2] /\ puts'[r] <= 1
        /\ puts'[r] = 0 \/ ctx[r] # "live"
        /\ \A q \in Requests \ {r} : puts'[q] = puts[q]
    BY <1>t DEF TypeOK, Put, Datagrams, maxRouteAttempts
  <1>1. TypeOK'
    <2>1. /\ pc' \in [Requests -> {"new", "loop", "route", "send", "wait", "done"}]
          /\ exclude' \in [Requests -> SUBSET Nodes]
          /\ lastErr' \in [Requests -> Errors \cup {None}]
          /\ result' \in [Requests -> Errors \cup Answers \cup {None}]
          /\ wait' \subseteq Ids
      BY <1>t DEF TypeOK, Failed
    <2>2. attempt' \in [Requests -> 0..maxRouteAttempts]
      BY <1>t DEF TypeOK, Failed, maxRouteAttempts
    <2>3. puts' \in [Requests -> 0..maxRouteAttempts]
      BY <1>n DEF maxRouteAttempts
    <2> QED BY <1>t, <1>n, <2>1, <2>2, <2>3 DEF TypeOK, Failed
  <1>p. /\ pc'[r] \in {"loop", "done"} /\ node'[r] \in exclude'[r]
        /\ pc'[r] = "loop" => attempt'[r] < maxRouteAttempts
        /\ \A q \in Requests \ {r} :
             pc'[q] = pc[q] /\ exclude'[q] = exclude[q] /\ attempt'[q] = attempt[q]
               /\ result'[q] = result[q]
        /\ wait' = wait \ {id[r]}
        /\ UNCHANGED <<ctx, id, node, box, nextID, closed>>
    BY <1>t DEF TypeOK, Failed, maxRouteAttempts
  <1>2. Attempts'
    BY <1>t, <1>p DEF IInv, Attempts, Holding
  <1>o. Once'
    BY <1>t, <1>n, <1>p DEF IInv, Once
  <1>3. Issued' /\ Unanswered'
    BY <1>t, <1>n, <1>p DEF IInv, TypeOK, Issued, Attempts, Unanswered, Holding
  <1>4. Owned'
    BY <1>t, <1>p DEF IInv, TypeOK, Owned, NothingLeft, Holding
  <1>5. NoFake504'
    BY <1>t, <1>p DEF IInv, TypeOK, NoFake504
  <1> QED BY <1>1, <1>2, <1>o, <1>3, <1>4, <1>5 DEF IInv

\* Datagrams come and go; none for an id that was not sent.
LEMMA NetStep ==
    ASSUME IInv, UNCHANGED <<reqVars, mgrVars, closed, puts>>,
           active' \subseteq Nodes, connOpen' \in BOOLEAN, stranded' \subseteq Requests,
           net' \subseteq Datagrams,
           \A d \in net' : \E e \in net : d.id = e.id
    PROVE  IInv'
  BY DEF IInv, TypeOK, Attempts, Once, Issued, Owned, NothingLeft, Unanswered, NoFake504,
         reqVars, mgrVars

\* Every step keeps the invariant.
LEMMA StepIInv == IInv /\ [Next]_vars => IInv'
  <1> SUFFICES ASSUME IInv, [Next]_vars PROVE IInv'
    OBVIOUS
  <1>t. TypeOK
    BY DEF IInv
  <1>i. \A r \in Requests : id[r] \in 0..MaxId /\ (id[r] # 0 => id[r] \in Ids)
    BY <1>t, ServiceAssumption DEF TypeOK, Ids
  <1>c. \A r \in Requests : ctx[r] # "live" => ctx[r] \in Errors
    BY <1>t, Kinds DEF TypeOK
  <1>w. wait \in SUBSET Ids /\ \A r \in Requests : wait \ {id[r]} \in SUBSET Ids
    BY <1>t DEF TypeOK
  <1>u. CASE UNCHANGED vars
    BY <1>u DEF vars, reqVars, mgrVars, IInv, TypeOK, Attempts, Once, Issued, Owned,
                NothingLeft, Unanswered, NoFake504
  <1>1. ASSUME NEW r \in Requests, Begin(r) PROVE IInv'
    <2>1. TypeOK'
      BY <1>1, <1>t DEF Begin, TypeOK, mgrVars
    <2> QED
      BY <1>1, <1>t, <2>1
         DEF Begin, IInv, TypeOK, Attempts, Once, Issued, Owned, NothingLeft, Unanswered,
             NoFake504, mgrVars, Holding
  <1>2. ASSUME NEW r \in Requests, NEW why \in {"DeadlineExceeded", "Canceled"},
               CtxEnds(r, why)
        PROVE  IInv'
    <2>1. TypeOK'
      BY <1>2, <1>t DEF CtxEnds, TypeOK, mgrVars
    <2> QED
      BY <1>2, <1>t, <2>1
         DEF CtxEnds, IInv, TypeOK, Attempts, Once, Issued, Owned, NothingLeft, Unanswered,
             NoFake504, mgrVars, Holding
  <1>3. ASSUME NEW r \in Requests, LoopStops(r) \/ CreateFails(r) PROVE IInv'
    <2>1. /\ pc[r] = "loop" /\ id[r] \notin wait
          /\ id[r] # 0 => node[r] \in exclude[r]
      BY <1>3 DEF LoopStops, CreateFails, IInv, Attempts, Owned, Holding
    <2>2. PICK res \in Errors : Return(r, res, wait)
      <3>1. CASE LoopStops(r)
        BY <3>1, <1>c, <1>t DEF LoopStops, TypeOK
      <3>2. CASE CreateFails(r)
        BY <3>2, Kinds DEF CreateFails
      <3> QED BY <1>3, <3>1, <3>2
    <2> QED BY <2>1, <2>2, <1>w, ReturnStep
  <1>4. ASSUME NEW r \in Requests, Create(r) PROVE IInv'
    <2>0. nextID \in Nat /\ nextID' = nextID + 1 /\ nextID' \in Ids /\ MaxId \in Nat
      BY <1>4, <1>t, ServiceAssumption DEF Create, TypeOK, Ids
    <2>1. TypeOK'
      <3>1. nextID' \in 0..MaxId /\ id' \in [Requests -> 0..MaxId]
        BY <1>4, <1>t, <2>0 DEF Create, TypeOK, Ids
      <3>2. wait' \subseteq Ids
           /\ pc' \in [Requests -> {"new", "loop", "route", "send", "wait", "done"}]
        BY <1>4, <1>t, <2>0 DEF Create, TypeOK
      <3> QED BY <1>4, <1>t, <3>1, <3>2 DEF Create, TypeOK
    <2>2. /\ id'[r] = nextID + 1 /\ pc'[r] = "route" /\ pc[r] = "loop" /\ ctx[r] = "live"
          /\ wait' = wait \cup {nextID + 1} /\ ~closed
          /\ \A q \in Requests \ {r} : id'[q] = id[q] /\ pc'[q] = pc[q]
          /\ UNCHANGED <<ctx, attempt, exclude, lastErr, node, result, box, closed, net, puts>>
      BY <1>4, <1>t, <2>0 DEF Create, TypeOK
    <2>3. \A q \in Requests : id[q] \in Nat /\ id[q] <= nextID
      BY <1>t DEF IInv, TypeOK, Attempts
    <2>4. Attempts'
      BY <2>0, <2>2, <2>3 DEF IInv, Attempts, Holding
    <2>5. Once'
      BY <2>2 DEF IInv, Once
    <2>6. Issued'
      <3>1. \A p, q \in Requests : id'[p] = id'[q] /\ id'[p] # 0 => p = q
        BY <2>0, <2>2, <2>3 DEF IInv, Issued
      <3>2. \A i \in Ids : i > nextID' => box'[i] = None /\ i \notin wait'
        BY <2>0, <2>2 DEF IInv, Issued, Ids
      <3>3. \A d \in net' : d.id <= nextID'
        <4> SUFFICES ASSUME NEW d \in net PROVE d.id <= nextID + 1
          BY <2>0, <2>2
        <4>1. d.id \in Ids
          BY <1>t DEF TypeOK, Datagrams
        <4> QED BY <2>0, <4>1 DEF IInv, Issued, Ids
      <3> QED BY <3>1, <3>2, <3>3 DEF Issued
    <2>7. Owned'
      <3>1. NothingLeft'
        BY <2>2 DEF IInv, Owned, NothingLeft
      <3>2. \A q \in Requests : pc'[q] \notin Holding => id'[q] \notin wait'
        BY <2>0, <2>2, <2>3 DEF IInv, Owned, Holding
      <3> QED BY <2>2, <3>1, <3>2 DEF Owned
    <2>8. Unanswered'
      <3>1. box[nextID + 1] = None
        BY <2>0 DEF IInv, Issued, Ids
      <3>2. \A d \in net : d.id # nextID + 1
        BY <2>0 DEF IInv, Issued
      <3> QED BY <2>2, <3>1, <3>2, Kinds DEF IInv, Unanswered
    <2>9. NoFake504'
      BY <2>2 DEF IInv, NoFake504
    <2> QED BY <2>1, <2>4, <2>5, <2>6, <2>7, <2>8, <2>9 DEF IInv
  <1>5. ASSUME NEW r \in Requests, RouteFails(r) PROVE IInv'
    <2>1. PICK res \in Errors : Return(r, res, wait \ {id[r]})
      BY <1>5, <1>c, Kinds DEF RouteFails
    <2>2. pc[r] = "route" /\ box[id[r]] \notin Answers
      BY <1>5 DEF RouteFails, IInv, Unanswered
    <2> QED BY <2>1, <2>2, <1>w, ReturnStep
  <1>6. ASSUME NEW r \in Requests, Route(r) PROVE IInv'
    <2>1. PICK n \in Nodes : node' = [node EXCEPT ![r] = n]
      BY <1>6, <1>t DEF Route, TypeOK
    <2>2. TypeOK'
      BY <1>6, <1>t, <2>1 DEF Route, TypeOK, mgrVars
    <2> QED
      BY <1>6, <1>t, <2>1, <2>2
         DEF Route, IInv, TypeOK, Attempts, Once, Issued, Owned, NothingLeft, Unanswered,
             NoFake504, mgrVars, Holding
  <1>7. ASSUME NEW r \in Requests, Send(r) PROVE IInv'
    <2>0. id[r] \in Ids /\ puts[r] = 0 /\ pc[r] = "send" /\ node[r] \in Nodes
      BY <1>7, <1>i DEF Send, IInv, Attempts, Once, Holding
    <2>1. /\ net' \subseteq Datagrams
          /\ \A d \in net' : d \in net \/ d.id = id[r]
          /\ puts' = [puts EXCEPT ![r] = 1]
          /\ pc' = [pc EXCEPT ![r] = "wait"]
          /\ UNCHANGED <<ctx, attempt, exclude, lastErr, id, node, result, mgrVars, closed,
                         connOpen, stranded, active>>
      BY <1>7, <1>t, <2>0 DEF Send, Put, TypeOK, Datagrams
    <2>2. TypeOK'
      <3>1. puts' \in [Requests -> 0..maxRouteAttempts]
        BY <1>t, <2>1 DEF TypeOK, maxRouteAttempts
      <3> QED BY <1>t, <2>1, <3>1 DEF TypeOK, mgrVars
    <2>3. Attempts' /\ Once'
      BY <1>t, <2>0, <2>1 DEF IInv, TypeOK, Attempts, Once, mgrVars, Holding
    <2>4. Issued' /\ Unanswered'
      BY <1>t, <2>0, <2>1 DEF IInv, TypeOK, Attempts, Issued, Unanswered, mgrVars,
                               Holding
    <2>5. Owned' /\ NoFake504'
      BY <1>t, <2>0, <2>1 DEF IInv, TypeOK, Owned, NothingLeft, NoFake504, mgrVars, Holding
    <2> QED BY <2>2, <2>3, <2>4, <2>5 DEF IInv
  <1>8. ASSUME NEW r \in Requests, SendFails(r) PROVE IInv'
    BY <1>8, Kinds, FailedStep DEF SendFails
  <1>9. ASSUME NEW r \in Requests, SendCtx(r) PROVE IInv'
    BY <1>9, <1>c, FailedStep DEF SendCtx
  <1>10. ASSUME NEW r \in Requests, WaitDone(r) PROVE IInv'
    <2>1. pc[r] = "wait" /\ id[r] \in Ids
      BY <1>10, <1>i DEF WaitDone, IInv, Attempts, Holding
    <2>2. box[id[r]] \in Errors \cup Answers
      BY <1>10, <1>t, <2>1, Kinds DEF WaitDone, TypeOK
    <2> QED BY <1>10, <2>1, <2>2, <1>w, StatusOfAnswers, ReturnStep DEF WaitDone
  <1>11. ASSUME NEW r \in Requests, WaitClosed(r) PROVE IInv'
    <2>1. id[r] \notin wait
      BY <1>11 DEF WaitClosed, IInv, Owned
    <2> QED BY <1>11, <2>1, <1>w, Kinds, StatusOfAnswers, ReturnStep DEF WaitClosed
  <1>12. ASSUME NEW r \in Requests, WaitTimesOut(r) PROVE IInv'
    <2>1. PICK res \in Errors : Return(r, res, wait \ {id[r]})
      BY <1>12, <1>c, Kinds DEF WaitTimesOut
    <2>2. pc[r] = "wait" /\ box[id[r]] \notin Answers
      BY <1>12, Kinds DEF WaitTimesOut
    <2> QED BY <2>1, <2>2, <1>w, ReturnStep
  <1>13. ASSUME NEW d \in net, NEW a \in Answers, LogicAnswers(d, a) PROVE IInv'
    <2>1. /\ d.id \in Ids
          /\ net' \subseteq net \cup {[type |-> "RESPONSE", id |-> d.id, body |-> a]}
      BY <1>13, <1>t DEF LogicAnswers, TypeOK, Datagrams
    <2>2. net' \subseteq Datagrams /\ \A e \in net' : \E f \in net : e.id = f.id
      BY <1>13, <1>t, <2>1 DEF TypeOK, Datagrams
    <2> QED BY <1>13, <1>t, <2>2, NetStep DEF LogicAnswers, TypeOK
  <1>14. ASSUME NEW d \in net, Lose(d) PROVE IInv'
    BY <1>14, <1>t, NetStep DEF Lose, TypeOK
  <1>15. ASSUME NEW d \in net, OnResponse(d) PROVE IInv'
    <2>0. /\ d.id \in Ids /\ d.body \in Answers /\ net' \subseteq net
          /\ \/ box' = box
             \/ /\ d.id \in wait /\ box[d.id] = None
                /\ box' = [box EXCEPT ![d.id] = d.body]
          /\ UNCHANGED <<reqVars, wait, nextID, closed, connOpen, stranded, active, puts>>
      BY <1>15, <1>t DEF OnResponse, TypeOK, Datagrams
    <2>1. TypeOK'
      BY <1>t, <2>0 DEF TypeOK, reqVars
    <2>2. Attempts' /\ Once' /\ Owned'
      BY <2>0 DEF IInv, Attempts, Once, Owned, NothingLeft, reqVars
    <2>3. Issued' /\ Unanswered'
      BY <1>t, <1>i, <2>0 DEF IInv, TypeOK, Issued, Unanswered, Attempts, Holding, reqVars
    <2>4. NoFake504'
      BY <1>t, <1>i, <2>0 DEF IInv, TypeOK, NoFake504, Owned, Holding, reqVars
    <2> QED BY <2>1, <2>2, <2>3, <2>4 DEF IInv
  <1>16. ASSUME NEW n \in Nodes, ActiveChanges(n) PROVE IInv'
    BY <1>16, <1>t, NetStep DEF ActiveChanges, TypeOK
  <1>17. CASE ConnClose
    BY <1>17, <1>t, NetStep DEF ConnClose, TypeOK
  <1>18. CASE ManagerClose
    <2>0. /\ closed' = TRUE /\ wait' = {}
          /\ UNCHANGED <<reqVars, nextID, connOpen, stranded, active, net, puts>>
          /\ box' \in [Ids -> Answers \cup {"ErrManagerClosed", None}]
          /\ \A i \in Ids : box'[i] = box[i] \/ (i \in wait /\ box'[i] = "ErrManagerClosed")
      BY <1>18, <1>t DEF ManagerClose, TypeOK
    <2>1. TypeOK'
      BY <1>t, <2>0 DEF TypeOK, reqVars
    <2>2. Attempts' /\ Once' /\ Owned'
      BY <2>0 DEF IInv, Attempts, Once, Owned, NothingLeft, reqVars
    <2>3. Issued' /\ Unanswered'
      BY <1>t, <1>i, <2>0, Kinds
         DEF IInv, TypeOK, Issued, Unanswered, Attempts, Holding, reqVars
    <2>4. NoFake504'
      BY <1>t, <1>i, <2>0, Kinds DEF IInv, TypeOK, NoFake504, reqVars
    <2> QED BY <2>1, <2>2, <2>3, <2>4 DEF IInv
  <1> QED
    BY <1>u, <1>1, <1>2, <1>3, <1>4, <1>5, <1>6, <1>7, <1>8, <1>9, <1>10, <1>11, <1>12,
       <1>13, <1>14, <1>15, <1>16, <1>17, <1>18
       DEF Next, Step

\* The inductive invariant holds for every number of requests, nodes and ids.
THEOREM InvariantHolds == Spec => []IInv
  BY InitIInv, StepIInv, PTL DEF Spec

\* Every variable has its type: no request goes beyond its two attempts.
THEOREM TypeCorrect == Spec => []TypeOK
  <1>1. IInv => TypeOK
    BY DEF IInv
  <1> QED BY InvariantHolds, <1>1, PTL

\* The gateway writes a request at most once, whatever the Sends, the
\* contexts and the registry do.
THEOREM AtMostOneWrite == Spec => []WrittenOnce
  <1>1. IInv => WrittenOnce
    BY DEF IInv, Once, WrittenOnce
  <1> QED BY InvariantHolds, <1>1, PTL

\* However a request ends, the Manager keeps none of its ids.
THEOREM NoIdLeft == Spec => []NothingLeft
  <1>1. IInv => NothingLeft
    BY DEF IInv, Owned
  <1> QED BY InvariantHolds, <1>1, PTL

\* An answer handed to a request in Wait is not a 504 at its client.
THEOREM AnsweredIsNo504 == Spec => []NoFake504
  <1>1. IInv => NoFake504
    BY DEF IInv
  <1> QED BY InvariantHolds, <1>1, PTL
=============================================================================
