------------------------------ MODULE Dispatch ------------------------------
(***************************************************************************)
(* The gateway's only reader of its UDP socket (internal/dispatch): a      *)
(* receive loop that decodes into envelopes of a pool, a bounded queue it  *)
(* never blocks on, a fixed number of workers, one goroutine per           *)
(* DATA_REQUEST, and the drain when the transport closes.                  *)
(*                                                                         *)
(* An envelope is an object of decodeEnvPool: whoever holds it last puts   *)
(* it back, and the pool may give it to the next datagram.  A DATA_RESPONSE*)
(* goes on to a waiter of transaction.Manager and from there to the HTTP   *)
(* handler, which puts it back.  Whether a waiter takes it is TxManager's  *)
(* business: here OnResponse succeeds or not.  What REGISTER and HEARTBEAT *)
(* do to the registry is in module Membership.  A Send returns, except     *)
(* that one under way when the transport closes may wait in the batcher    *)
(* for ever (module SendBatcher): its goroutine is then stranded.          *)
(***************************************************************************)
EXTENDS Naturals, Sequences, FiniteSets

CONSTANTS Envs,            \* envelope objects
          NoEnv,
          InboundWorkers,  \* the workers
          QueueCap,        \* InboundQueueSize
          MaxRecv,         \* bound: datagrams received
          Debug            \* the log level is debug

ASSUME DispatchAssumption ==
    /\ QueueCap \in Nat \ {0} /\ MaxRecv \in Nat /\ Debug \in BOOLEAN
    /\ NoEnv \notin Envs /\ InboundWorkers # {}

\* Handled and released by the worker itself: REGISTER_REQUEST, HEARTBEAT_REQUEST,
\* HEARTBEAT_RESPONSE and the types nobody expects, which get an ERROR.
Kinds == {"CONTROL", "DATA_RESPONSE", "ERROR", "DATA_REQUEST"}

VARIABLES
    pool,      \* how often each envelope is in decodeEnvPool
    kind,      \* the message decoded into each envelope
    loopEnv,   \* the envelope the receive loop holds
    run,       \* where Run is: receive, sending, wait (queue closed), returned
    queue,     \* the channel between them
    curEnv,    \* the envelope each worker handles
    logs,      \* the envelope each worker still logs after OnResponse
    exited,    \* workers that have ended
    outbound,  \* envelopes of DATA_REQUEST goroutines, before their answer
    replies,   \* those that send the answer
    mailbox,   \* envelopes handed to a waiter of the Manager
    http,      \* envelopes HTTP handlers write from
    shutdown,  \* how far gateway.Run's shutdown is: 0 to 3
    stranded,  \* whose Send the closing transport never answers: workers,
               \* "loop", and outbound goroutines by their envelope
    rx, rxErrors, dropped, \* the counters of the metrics
    fatal,     \* history: receive errors that were no datagram
    handled    \* history: envelopes a worker is done with

envVars == <<pool, kind>>
workerVars == <<curEnv, logs, exited>>
laterVars == <<outbound, replies, mailbox, http>>
counters == <<rx, rxErrors, fatal, dropped, handled>>
dispatchVars ==
    <<envVars, loopEnv, run, queue, workerVars, laterVars, shutdown, stranded, counters>>

DispatchInit ==
    /\ pool = [e \in Envs |-> 0]
    /\ kind = [e \in Envs |-> "CONTROL"]
    /\ loopEnv = NoEnv
    /\ run = "receive"
    /\ queue = <<>>
    /\ curEnv = [w \in InboundWorkers |-> NoEnv]
    /\ logs = [w \in InboundWorkers |-> NoEnv]
    /\ exited = {}
    /\ outbound = {} /\ replies = {} /\ mailbox = {} /\ http = {}
    /\ shutdown = 0 /\ stranded = {}
    /\ rx = 0 /\ rxErrors = 0 /\ fatal = 0 /\ dropped = 0 /\ handled = 0

-----------------------------------------------------------------------------
(* Who holds an envelope.                                                  *)

Places(e) == {i \in DOMAIN queue : queue[i] = e}
Busy == {w \in InboundWorkers : curEnv[w] # NoEnv}

Holds(b) == IF b THEN 1 ELSE 0

\* The number of holders that will release e, hand it on or forget it.
Holders(e) ==
    Cardinality({w \in InboundWorkers : curEnv[w] = e}) + Cardinality(Places(e))
      + Holds(loopEnv = e) + Holds(e \in outbound) + Holds(e \in replies)
      + Holds(e \in mailbox) + Holds(e \in http)

\* Nobody refers to e: a new object, or one the collector took.
Unreferenced(e) ==
    Holders(e) = 0 /\ pool[e] = 0 /\ \A w \in InboundWorkers : logs[w] # e

\* sync.Pool.Get: one of the pool, or a new one.
Get(e) ==
    \/ pool[e] > 0 /\ pool' = [pool EXCEPT ![e] = @ - 1]
    \/ Unreferenced(e) /\ UNCHANGED pool

\* ReleaseEnvelope.
Release(e) == pool' = [pool EXCEPT ![e] = @ + 1]

-----------------------------------------------------------------------------
(* Run: the receive loop.                                                  *)

\* The transport is open and its context is not done.
Receiving == run = "receive" /\ loopEnv = NoEnv /\ shutdown = 0

Receive(e, k) ==
    /\ Receiving
    /\ rx < MaxRecv
    /\ Get(e)
    /\ kind' = [kind EXCEPT ![e] = k]
    /\ loopEnv' = e
    /\ rx' = rx + 1
    /\ UNCHANGED <<run, queue, workerVars, laterVars, shutdown, stranded, rxErrors,
                   fatal, dropped, handled>>

\* decode fails, and puts its envelope back; an ERROR goes to the sender.
ReceiveInvalid(e) ==
    /\ Receiving
    /\ rx < MaxRecv
    /\ \/ pool[e] > 0 /\ UNCHANGED pool
       \/ Unreferenced(e) /\ Release(e)
    /\ rx' = rx + 1 /\ rxErrors' = rxErrors + 1
    /\ run' = "sending"
    /\ UNCHANGED <<kind, loopEnv, queue, workerVars, laterVars, shutdown, stranded,
                   fatal, dropped, handled>>

\* sendError returned, and the loop goes on.
SendError ==
    /\ run = "sending"
    /\ "loop" \notin stranded
    /\ run' = "receive"
    /\ UNCHANGED <<envVars, loopEnv, queue, workerVars, laterVars, shutdown, stranded,
                   counters>>

\* The non-blocking send.
Enqueue ==
    /\ loopEnv # NoEnv
    /\ Len(queue) < QueueCap
    /\ queue' = Append(queue, loopEnv)
    /\ loopEnv' = NoEnv
    /\ UNCHANGED <<envVars, run, workerVars, laterVars, shutdown, stranded, counters>>

\* A slip: the drop is not counted.
DropUncounted ==
    /\ loopEnv # NoEnv
    /\ Len(queue) = QueueCap
    /\ loopEnv' = NoEnv
    /\ UNCHANGED <<envVars, run, queue, workerVars, laterVars, shutdown, stranded,
                   counters>>

\* Its default: the envelope is dropped, and left to the collector.
Drop ==
    /\ loopEnv # NoEnv
    /\ Len(queue) = QueueCap
    /\ loopEnv' = NoEnv
    /\ dropped' = dropped + 1
    /\ UNCHANGED <<envVars, run, queue, workerVars, laterVars, shutdown, stranded, rx,
                   rxErrors, fatal, handled>>

\* Receive reports the closed transport, or its context is done: close(queue),
\* then wg.Wait.
ReceiveEnds ==
    /\ run = "receive" /\ loopEnv = NoEnv
    /\ run' = "wait"
    /\ UNCHANGED <<envVars, loopEnv, queue, workerVars, laterVars, shutdown, stranded,
                   counters>>

\* Receive reports another error of the socket: it is counted as a receive
\* error, though nothing was received, and Run ends as well.
ReceiveFails ==
    /\ Receiving
    /\ run' = "wait"
    /\ rxErrors' = rxErrors + 1 /\ fatal' = fatal + 1
    /\ UNCHANGED <<envVars, loopEnv, queue, workerVars, laterVars, shutdown, stranded,
                   rx, dropped, handled>>

RunReturn ==
    /\ run = "wait" /\ exited = InboundWorkers
    /\ run' = "returned"
    /\ UNCHANGED <<envVars, loopEnv, queue, workerVars, laterVars, shutdown, stranded,
                   counters>>

-----------------------------------------------------------------------------
(* A worker, and handle.                                                   *)

Take(w) ==
    /\ curEnv[w] = NoEnv /\ logs[w] = NoEnv
    /\ queue # <<>>
    /\ curEnv' = [curEnv EXCEPT ![w] = Head(queue)]
    /\ queue' = Tail(queue)
    /\ UNCHANGED <<envVars, loopEnv, run, logs, exited, laterVars, shutdown, stranded,
                   counters>>

\* handle is over for worker w.
Done(w) ==
    /\ curEnv' = [curEnv EXCEPT ![w] = NoEnv]
    /\ handled' = handled + 1
    /\ UNCHANGED <<kind, loopEnv, run, queue, exited, shutdown, stranded, rx,
                   rxErrors, fatal, dropped>>

\* onRegister, onHeartbeat or an ERROR, and the release.
HandleControl(w) ==
    /\ curEnv[w] # NoEnv /\ kind[curEnv[w]] = "CONTROL"
    /\ w \notin stranded
    /\ Release(curEnv[w])
    /\ Done(w)
    /\ UNCHANGED <<logs, laterVars>>

\* OnResponse gave an error: no such transaction, or the Manager is closed.
HandleMiss(w) ==
    /\ curEnv[w] # NoEnv /\ kind[curEnv[w]] \in {"DATA_RESPONSE", "ERROR"}
    /\ Release(curEnv[w])
    /\ Done(w)
    /\ UNCHANGED <<logs, laterVars>>

\* A slip: the worker releases what it handed over.
HandoverReleases(w) ==
    /\ curEnv[w] # NoEnv /\ kind[curEnv[w]] = "DATA_RESPONSE" /\ shutdown < 2
    /\ mailbox' = mailbox \cup {curEnv[w]}
    /\ Release(curEnv[w])
    /\ Done(w)
    /\ UNCHANGED <<logs, outbound, replies, http>>

\* Complete gave the envelope to a waiter; at the debug level OnResponse
\* logs fields of it afterwards.
Handover(w) ==
    /\ curEnv[w] # NoEnv /\ kind[curEnv[w]] = "DATA_RESPONSE" /\ shutdown < 2
    /\ mailbox' = mailbox \cup {curEnv[w]}
    /\ logs' = [logs EXCEPT ![w] = IF Debug THEN curEnv[w] ELSE NoEnv]
    /\ Done(w)
    /\ UNCHANGED <<pool, outbound, replies, http>>

LogResponse(w) ==
    /\ logs[w] # NoEnv
    /\ logs' = [logs EXCEPT ![w] = NoEnv]
    /\ UNCHANGED <<envVars, loopEnv, run, queue, curEnv, exited, laterVars, shutdown,
                   stranded, counters>>

\* Fail gave the waiter a LogicError: nobody has the envelope any more.
HandleError(w) ==
    /\ curEnv[w] # NoEnv /\ kind[curEnv[w]] = "ERROR" /\ shutdown < 2
    /\ Done(w)
    /\ UNCHANGED <<pool, logs, laterVars>>

\* go func() { defer ReleaseEnvelope(env); onDataRequest }.
HandleDataRequest(w) ==
    /\ curEnv[w] # NoEnv /\ kind[curEnv[w]] = "DATA_REQUEST"
    /\ outbound' = outbound \cup {curEnv[w]}
    /\ Done(w)
    /\ UNCHANGED <<pool, logs, replies, mailbox, http>>

\* The range over the queue ends when it is closed and empty.
Exit(w) ==
    /\ curEnv[w] = NoEnv /\ logs[w] = NoEnv /\ w \notin exited
    /\ run = "wait" /\ queue = <<>>
    /\ exited' = exited \cup {w}
    /\ UNCHANGED <<envVars, loopEnv, run, queue, curEnv, logs, laterVars, shutdown,
                   stranded, counters>>

-----------------------------------------------------------------------------
(* After the worker: onDataRequest, the waiter and the HTTP handler.       *)

\* What onDataRequest answers is settled: DATA_RESPONSE, or an ERROR.
ForwardAnswered(e) ==
    /\ e \in outbound
    /\ outbound' = outbound \ {e}
    /\ replies' = replies \cup {e}
    /\ UNCHANGED <<envVars, loopEnv, run, queue, workerVars, mailbox, http, shutdown,
                   stranded, counters>>

\* No remote URL is configured, or the remote answered, or failed.
ForwardReturns(e) == ForwardAnswered(e)

\* A slip: Forward waits for as long as the gateway runs.
ForwardEndsWithRun(e) == shutdown = 3 /\ ForwardAnswered(e)

\* The timeout of Forward's own context, or the end of Run's, ends the call.
ForwardEnds(e) == ForwardAnswered(e)

\* send or sendError, refused when the transport is closed, and the deferred
\* release.
Reply(e) ==
    /\ e \in replies /\ e \notin stranded
    /\ replies' = replies \ {e}
    /\ Release(e)
    /\ UNCHANGED <<kind, loopEnv, run, queue, workerVars, outbound, mailbox, http,
                   shutdown, stranded, counters>>

\* Request returned the envelope to serveData.
Serve(e) ==
    /\ e \in mailbox
    /\ mailbox' = mailbox \ {e}
    /\ http' = http \cup {e}
    /\ UNCHANGED <<envVars, loopEnv, run, queue, workerVars, outbound, replies,
                   shutdown, stranded, counters>>

\* releasePending drained it: its waiter had left.
Abandon(e) ==
    /\ e \in mailbox
    /\ mailbox' = mailbox \ {e}
    /\ UNCHANGED <<envVars, loopEnv, run, queue, workerVars, outbound, replies, http,
                   shutdown, stranded, counters>>

\* serveData wrote the answer; its deferred ReleaseEnvelope.
ServeDone(e) ==
    /\ e \in http
    /\ http' = http \ {e}
    /\ Release(e)
    /\ UNCHANGED <<kind, loopEnv, run, queue, workerVars, outbound, replies, mailbox,
                   shutdown, stranded, counters>>

\* Those that may be inside a Send: workers that answer a CONTROL message,
\* outbound goroutines, the receive loop.
InSend ==
    {w \in Busy : kind[curEnv[w]] = "CONTROL"} \cup replies
      \cup (IF run = "sending" THEN {"loop"} ELSE {})

\* gateway.Run: conn.Close, which may leave Sends under way unanswered,
\* txSvc.Close, cancel.
Shutdown ==
    /\ shutdown < 3
    /\ shutdown' = shutdown + 1
    /\ IF shutdown = 0 THEN stranded' \in SUBSET InSend ELSE UNCHANGED stranded
    /\ UNCHANGED <<envVars, loopEnv, run, queue, workerVars, laterVars, counters>>

-----------------------------------------------------------------------------
LoopStep == Enqueue \/ Drop \/ SendError \/ RunReturn \/ (shutdown > 0 /\ ReceiveEnds)

WorkerStep(w) ==
    \/ Take(w) \/ HandleControl(w) \/ HandleMiss(w) \/ Handover(w)
    \/ LogResponse(w) \/ HandleError(w) \/ HandleDataRequest(w) \/ Exit(w)

DispatchNext ==
    \/ \E e \in Envs : ReceiveInvalid(e) \/ \E k \in Kinds : Receive(e, k)
    \/ LoopStep \/ ReceiveEnds \/ ReceiveFails
    \/ \E w \in InboundWorkers : WorkerStep(w)
    \/ \E e \in Envs :
         \/ ForwardReturns(e) \/ ForwardEnds(e) \/ Reply(e)
         \/ Serve(e) \/ Abandon(e) \/ ServeDone(e)
    \/ Shutdown

DispatchSpec == DispatchInit /\ [][DispatchNext]_dispatchVars

\* The loop and the workers keep running; a Receive of a closed transport returns,
\* and a timer fires whatever the remote does.
DispatchFairSpec ==
    /\ DispatchSpec
    /\ WF_dispatchVars(LoopStep)
    /\ \A w \in InboundWorkers : WF_dispatchVars(WorkerStep(w))
    /\ \A e \in Envs : WF_dispatchVars(ForwardEnds(e)) /\ WF_dispatchVars(Reply(e))

-----------------------------------------------------------------------------
(* Properties.                                                             *)

\* An envelope has one holder at most, and none once it is in the pool, where
\* it is once: it is never decoded into while a worker, a waiter, a handler
\* or an outbound goroutine has it, on no path through handle.
EnvExclusive == \A e \in Envs : Holders(e) + pool[e] <= 1

\* Every datagram read is accounted for: an error, a drop, or handled, but
\* for those on their way; a full queue loses nothing silently, and when Run
\* returns nothing is on its way any more.  Only an error of the socket itself,
\* after which Run ends, is counted among the errors without a datagram.
Accounted ==
    /\ rx + fatal = rxErrors + dropped + handled + Len(queue) + Cardinality(Busy)
                      + (IF loopEnv = NoEnv THEN 0 ELSE 1)
    /\ fatal <= 1 /\ (fatal = 1 => run \in {"wait", "returned"})
    /\ run = "returned" => rx + fatal = rxErrors + dropped + handled

\* Once the transport is closed, Run drains the queue and returns, and the
\* goroutines of the DATA_REQUESTs, for which nobody waits, end as well: with
\* or without an answer of the remote, and without the cancel that comes last
\* in gateway.Run, for Forward has a timeout of its own.  Only goroutines whose
\* Send the close has stranded stay, and only a worker or the loop among them
\* keeps Run from returning.
GoroutinesEnd ==
    shutdown > 0 ~>
        /\ outbound = {} /\ replies \subseteq stranded
        /\ run = "returned" \/ stranded \cap (InboundWorkers \cup {"loop"}) # {}
=============================================================================
