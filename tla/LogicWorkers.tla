---------------------------- MODULE LogicWorkers ----------------------------
(***************************************************************************)
(* The DATA path of a Logic node (internal/logicnode): the receive loop    *)
(* hands DATA_REQUESTs to a fixed pool of workers through a bounded queue  *)
(* and answers OVERLOAD itself when the queue is full; at shutdown Run     *)
(* closes the transport and then the pool.                                 *)
(*                                                                         *)
(* Enqueue is cut where another goroutine can come between: RLock, the     *)
(* check of closing, the non-blocking send.  A request is its number; what *)
(* it carries (an echo or an unsupported message_id) does not change what  *)
(* happens to it.  A Send succeeds or fails while the transport is open    *)
(* and fails once it is closed; one that was under way when the transport  *)
(* closed may never return (SendBatcher shows which: its job was queued    *)
(* and the loop has gone), and its goroutine is stranded.  Of              *)
(* logicnode/metrics.go the counters the DATA path adds to are kept, each  *)
(* moved by the step that moves it (that of failed sends also counts       *)
(* heartbeats, of which there are none here); the gauges, whose last       *)
(* writer wins, and the histograms are not.                                *)
(***************************************************************************)
EXTENDS Naturals, Sequences, FiniteSets

CONSTANTS Receivers,  \* goroutines that call Enqueue: the receive loop
          Workers,    \* pool workers
          QueueCap,   \* cap(p.jobs)
          MaxReq      \* bound: DATA_REQUESTs received

ASSUME WorkersAssumption ==
    QueueCap \in Nat \ {0} /\ MaxReq \in Nat /\ Receivers \cap Workers = {}

Reqs == 1..MaxReq
Replies == {"none", "answered", "overload", "unsent"}

\* The counters of nodeMetrics: DATA_REQUESTs received, answers sent, sends
\* that failed, requests a worker began, requests a full queue turned away.
newNodeMetrics ==
    [requestRX |-> 0, responseTX |-> 0, sendError |-> 0, requests |-> 0, dropped |-> 0]

Inc(m, counter) == [m EXCEPT ![counter] = @ + 1]

VARIABLES
    jobs,      \* p.jobs
    jobsOpen,  \* p.jobs is not closed
    closing,   \* p.closing
    rpc,       \* where each receiver is; it holds p.mu for reading when
               \* "locked" or "checked"
    cur,       \* the request each goroutine has in hand, 0 for none
    wpc,       \* where each worker is
    closer,    \* where Run's shutdown is
    connOpen,  \* the transport is open
    stranded,  \* goroutines whose Send the closing transport never answers
    next,      \* requests received so far
    reply,     \* what became of each request's answer
    freed,     \* times each request's envelope went back to its pool
    met        \* nodeMetrics

poolVars == <<jobs, jobsOpen, closing>>
replyVars == <<reply, freed, met>>
vars == <<poolVars, rpc, cur, wpc, closer, connOpen, stranded, next, replyVars>>

Init ==
    /\ jobs = <<>>
    /\ jobsOpen = TRUE
    /\ closing = FALSE
    /\ rpc = [r \in Receivers |-> "idle"]
    /\ cur = [g \in Receivers \cup Workers |-> 0]
    /\ wpc = [w \in Workers |-> "idle"]
    /\ closer = "idle"
    /\ connOpen = TRUE
    /\ stranded = {}
    /\ next = 0
    /\ reply = [i \in Reqs |-> "none"]
    /\ freed = [i \in Reqs |-> 0]
    /\ met = newNodeMetrics

Reading == {r \in Receivers : rpc[r] \in {"locked", "checked"}}

-----------------------------------------------------------------------------
(* handleIncoming and Enqueue.                                             *)

\* receiveLoop gets a DATA_REQUEST (AddUDPDataRequestRX).
Receive(r) ==
    /\ rpc[r] = "idle"
    /\ connOpen
    /\ next < MaxReq
    /\ next' = next + 1
    /\ cur' = [cur EXCEPT ![r] = next + 1]
    /\ rpc' = [rpc EXCEPT ![r] = "enqueue"]
    /\ met' = Inc(met, "requestRX")
    /\ UNCHANGED <<poolVars, wpc, closer, connOpen, stranded, reply, freed>>

\* p.mu.RLock(): a waiting writer keeps new readers out.
RLock(r) ==
    /\ rpc[r] = "enqueue"
    /\ closer # "lock"
    /\ rpc' = [rpc EXCEPT ![r] = "locked"]
    /\ UNCHANGED <<poolVars, cur, wpc, closer, connOpen, stranded, next, replyVars>>

\* A slip: the early return on closing keeps the read lock.
CheckClosingKeepsLock(r) ==
    /\ rpc[r] = "locked"
    /\ rpc' = [rpc EXCEPT ![r] = IF closing THEN "locked" ELSE "checked"]
    /\ UNCHANGED <<poolVars, cur, wpc, closer, connOpen, stranded, next, replyVars>>

CheckClosing(r) ==
    /\ rpc[r] = "locked"
    /\ rpc' = [rpc EXCEPT ![r] = IF closing THEN "refused" ELSE "checked"]
    /\ UNCHANGED <<poolVars, cur, wpc, closer, connOpen, stranded, next, replyVars>>

\* The select with default, and the deferred RUnlock.
TrySend(r) ==
    /\ rpc[r] = "checked"
    /\ IF Len(jobs) < QueueCap
       THEN /\ jobs' = Append(jobs, cur[r])
            /\ cur' = [cur EXCEPT ![r] = 0]
            /\ rpc' = [rpc EXCEPT ![r] = "idle"]
            /\ UNCHANGED met
       ELSE /\ rpc' = [rpc EXCEPT ![r] = "refused"]
            /\ met' = Inc(met, "dropped")
            /\ UNCHANGED <<jobs, cur>>
    /\ UNCHANGED <<jobsOpen, closing, wpc, closer, connOpen, stranded, next, reply, freed>>

\* What a Send of an answer to request i makes of it.
Answer(i, kind) ==
    /\ \E x \in {kind, "unsent"} :
         /\ x = kind => connOpen
         /\ reply' = [reply EXCEPT ![i] = x]
         /\ met' = Inc(met, IF x = "unsent" THEN "sendError" ELSE "responseTX")
    /\ freed' = [freed EXCEPT ![i] = @ + 1]

\* A slip: the envelope is not released when the OVERLOAD is refused by a
\* closed transport.
OverloadLeaky(r) ==
    /\ rpc[r] = "refused"
    /\ r \notin stranded
    /\ Answer(cur[r], "overload") \/ UNCHANGED replyVars
    /\ cur' = [cur EXCEPT ![r] = 0]
    /\ rpc' = [rpc EXCEPT ![r] = "idle"]
    /\ UNCHANGED <<poolVars, wpc, closer, connOpen, stranded, next>>

\* Enqueue returned false: ERROR OVERLOAD, ReleaseEnvelope on both paths.
Overload(r) ==
    /\ rpc[r] = "refused"
    /\ r \notin stranded
    /\ Answer(cur[r], "overload")
    /\ cur' = [cur EXCEPT ![r] = 0]
    /\ rpc' = [rpc EXCEPT ![r] = "idle"]
    /\ UNCHANGED <<poolVars, wpc, closer, connOpen, stranded, next>>

-----------------------------------------------------------------------------
(* worker and handleDataRequest.                                           *)

Take(w) ==
    /\ wpc[w] = "idle"
    /\ jobs # <<>>
    /\ cur' = [cur EXCEPT ![w] = Head(jobs)]
    /\ jobs' = Tail(jobs)
    /\ wpc' = [wpc EXCEPT ![w] = "run"]
    /\ met' = Inc(met, "requests")
    /\ UNCHANGED <<jobsOpen, closing, rpc, closer, connOpen, stranded, next, reply, freed>>

Handle(w) ==
    /\ wpc[w] = "run"
    /\ w \notin stranded
    /\ Answer(cur[w], "answered")
    /\ cur' = [cur EXCEPT ![w] = 0]
    /\ wpc' = [wpc EXCEPT ![w] = "idle"]
    /\ UNCHANGED <<poolVars, rpc, closer, connOpen, stranded, next>>

\* A slip: a worker leaves as soon as it sees the pool closing.
ExitEarly(w) ==
    /\ wpc[w] = "idle"
    /\ ~jobsOpen
    /\ wpc' = [wpc EXCEPT ![w] = "exited"]
    /\ UNCHANGED <<poolVars, rpc, cur, closer, connOpen, stranded, next, replyVars>>

\* The range loop ends on a closed and empty channel.
Exit(w) ==
    /\ wpc[w] = "idle"
    /\ ~jobsOpen /\ jobs = <<>>
    /\ wpc' = [wpc EXCEPT ![w] = "exited"]
    /\ UNCHANGED <<poolVars, rpc, cur, closer, connOpen, stranded, next, replyVars>>

-----------------------------------------------------------------------------
(* Run returning: conn.Close(), then the deferred pool.Close().            *)

\* Those that may be inside tr.Send.
Sending == {r \in Receivers : rpc[r] = "refused"} \cup {w \in Workers : wpc[w] = "run"}

\* The batcher is closed, then the transport: any of the Sends under way may be
\* left in the batcher's channel, waiting for an answer on errCh.
ConnClose ==
    /\ closer = "idle"
    /\ connOpen' = FALSE
    /\ stranded' \in SUBSET Sending
    /\ closer' = "pool"
    /\ UNCHANGED <<poolVars, rpc, cur, wpc, next, replyVars>>

SetClosing ==
    /\ closer = "pool"
    /\ closing' = TRUE
    /\ closer' = "lock"
    /\ UNCHANGED <<jobs, jobsOpen, rpc, cur, wpc, connOpen, stranded, next, replyVars>>

\* A slip: the channel is closed without taking p.mu.
CloseJobsUnlocked ==
    /\ closer = "lock"
    /\ jobsOpen' = FALSE
    /\ closer' = "wait"
    /\ UNCHANGED <<jobs, closing, rpc, cur, wpc, connOpen, stranded, next, replyVars>>

\* p.mu.Lock(), close(p.jobs), p.mu.Unlock().
CloseJobs ==
    /\ closer = "lock"
    /\ Reading = {}
    /\ jobsOpen' = FALSE
    /\ closer' = "wait"
    /\ UNCHANGED <<jobs, closing, rpc, cur, wpc, connOpen, stranded, next, replyVars>>

\* p.wg.Wait() returns.
CloseDone ==
    /\ closer = "wait"
    /\ \A w \in Workers : wpc[w] = "exited"
    /\ closer' = "done"
    /\ UNCHANGED <<poolVars, rpc, cur, wpc, connOpen, stranded, next, replyVars>>

-----------------------------------------------------------------------------
ReceiverStep(r) == RLock(r) \/ CheckClosing(r) \/ TrySend(r) \/ Overload(r)
WorkerStep(w) == Take(w) \/ Handle(w) \/ Exit(w)
CloserStep == SetClosing \/ CloseJobs \/ CloseDone

Next ==
    \/ \E r \in Receivers : Receive(r) \/ ReceiverStep(r)
    \/ \E w \in Workers : WorkerStep(w)
    \/ ConnClose
    \/ CloserStep

Spec == Init /\ [][Next]_vars

\* Goroutines keep being scheduled; requests and the shutdown need not come.
FairSpec ==
    /\ Spec
    /\ \A r \in Receivers : WF_vars(ReceiverStep(r))
    /\ \A w \in Workers : WF_vars(WorkerStep(w))
    /\ WF_vars(CloserStep)

-----------------------------------------------------------------------------
(* Properties.                                                             *)

InHand(i) == \/ \E g \in Receivers \cup Workers : cur[g] = i
             \/ \E k \in DOMAIN jobs : jobs[k] = i

Became(kinds) == Cardinality({i \in Reqs : reply[i] \in kinds})

\* A request is in one place until it is settled, and settled once: its envelope
\* is released exactly when it has its answer, and nobody holds it after that.
\* The counters tell the same story: what was received is answered, failed to be
\* sent or still inside; what a worker began was not also turned away; and the
\* full queue turned away no more than were refused.
SettledOnce ==
    /\ \A i \in 1..next :
         /\ freed[i] = (IF reply[i] = "none" THEN 0 ELSE 1)
         /\ reply[i] = "none" <=> InHand(i)
    /\ met.requestRX = met.responseTX + met.sendError
                          + Cardinality({i \in Reqs : InHand(i)})
    /\ met.requests + met.dropped + Len(jobs) <= met.requestRX
    /\ Became({"answered"}) <= met.requests
    /\ Became({"overload"}) + met.requests + Len(jobs) <= met.requestRX

\* No goroutine is about to send on the closed channel, which would panic.
NoSendOnClosed == ~jobsOpen => \A r \in Receivers : rpc[r] # "checked"

\* Close gets the lock, the workers drain the queue, and pool.Close returns;
\* only a worker stranded in its Send can keep it in wg.Wait().
PoolCloseReturns ==
    closer = "pool" ~> (closer = "done" \/ stranded \cap Workers # {})

\* A request that was received is settled, also one that meets the shutdown,
\* unless the goroutine that has it is stranded, or it waits in the queue and
\* every worker is.
RequestSettled ==
    \A i \in Reqs : next = i ~>
        \/ reply[i] # "none"
        \/ \E g \in stranded : cur[g] = i
        \/ Workers \subseteq stranded /\ \E k \in DOMAIN jobs : jobs[k] = i
=============================================================================
