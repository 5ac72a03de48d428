----------------------------- MODULE TxManager -----------------------------
(***************************************************************************)
(* transaction.Manager (internal/transaction/manager.go): the table that   *)
(* correlates DATA_REQUEST and DATA_RESPONSE by transaction_id, with the   *)
(* sync.Pool its waiters are recycled through.                             *)
(*                                                                         *)
(* Three kinds of goroutine run here.  A requester (an HTTP handler inside *)
(* Service.request) runs Create, sends, then Wait or Cancel, again and     *)
(* again.  A worker (a dispatch worker inside Service.OnResponse) runs     *)
(* Complete or Fail for a response datagram; datagrams are lost, delayed,  *)
(* reordered and duplicated.  The closer runs Close once, at shutdown.     *)
(*                                                                         *)
(* A step is what a goroutine does without a visible interleaving point:   *)
(* a critical section of m.mu or of p.mu, one channel operation, or one    *)
(* unlocked access to a waiter.  Create is two steps, because              *)
(* acquirePending resets a recycled waiter without taking its p.mu;        *)
(* tryDeliver is two steps, because that reset does not wait for p.mu.     *)
(* The pending gauge set after each unlock is modelled in HttpServer.       *)
(***************************************************************************)
EXTENDS Naturals, FiniteSets

CONSTANTS Requesters, \* goroutines that call Service.request
          Workers,    \* dispatch workers that call Service.OnResponse
          Closer,     \* the goroutine that calls Service.Close
          Slots,      \* the *pending objects that can be allocated
          NoSlot,     \* the nil *pending
          MaxId,      \* bound: transaction ids handed out
          MaxResp     \* bound: response datagrams received per transaction

ASSUME ThreadAssumption ==
    /\ Requesters \cap Workers = {}
    /\ Closer \notin Requesters \cup Workers

ASSUME SlotAssumption == NoSlot \notin Slots

ASSUME BoundAssumption == MaxId \in Nat /\ MaxResp \in Nat

Threads == Requesters \cup Workers \cup {Closer}
Ids == 1..MaxId

\* What a waiter can be given: what a datagram for transaction id carried (the
\* envelope of a Complete, the LogicError of a Fail), or one of the three errors
\* the manager makes itself.
Responses == [kind : {"response"}, id : Ids]
Failures == [kind : {"ctx", "canceled", "closed"}, id : {0}]
Results == Responses \cup Failures
NoResult == [kind |-> "none", id |-> 0]
Failure(k) == [kind |-> k, id |-> 0]

\* The points between steps; Delivering is inside tryDeliver.
Delivering == {"deliver", "send"}
Mapped == {"created", "wait", "claim", "select", "timeout", "recv", "cancel",
           "forget", "remove"} \cup Delivering
RequesterPC == Mapped \cup {"idle", "acquire", "drain", "put"}
WorkerPC == {"idle"} \cup Delivering
CloserPC == {"idle", "next", "closed"} \cup Delivering

VARIABLES
    closed,   \* m.closed
    wait,     \* m.wait: id -> *pending, NoSlot where the map has no entry
    nextID,   \* m.nextID
    pool,     \* what pendingPool holds
    fresh,    \* waiters not allocated yet (pendingPool.New takes one)
    pid, done, waiting, ch,   \* the fields of each *pending; ch has capacity 1
    pc,       \* where each goroutine is
    at,       \* its local p
    txn,      \* a requester's current transaction id
    val,      \* the result a goroutine is delivering
    got,      \* what a requester's Wait received
    sent,     \* transactions whose DATA_REQUEST left the socket
    resp,     \* response datagrams received so far, per transaction
    snap,     \* Close's waiters slice
    raced     \* history: a waiter was recycled while a goroutine was still
              \* delivering to it

slotVars == <<pool, fresh, pid, done, waiting, ch>>
netVars == <<sent, resp>>
vars == <<closed, wait, nextID, slotVars, pc, at, txn, val, got, netVars,
          snap, raced>>

-----------------------------------------------------------------------------
\* m.mu is held across steps only by a Create; p.mu only by a tryDeliver.
MuFree == \A r \in Requesters : pc[r] # "acquire"
SlotFree(s) == \A t \in Threads : ~(pc[t] = "send" /\ at[t] = s)
BeingDelivered(s) == \E t \in Threads : pc[t] \in Delivering /\ at[t] = s

Goto(t, l) == pc' = [pc EXCEPT ![t] = l]
\* A request ends, and its locals go out of scope with it.
Returned(r) == /\ Goto(r, "idle")
               /\ at' = [at EXCEPT ![r] = NoSlot]
               /\ txn' = [txn EXCEPT ![r] = 0]
               /\ got' = [got EXCEPT ![r] = NoResult]

Init ==
    /\ closed = FALSE
    /\ wait = [i \in Ids |-> NoSlot]
    /\ nextID = 0
    /\ pool = {}
    /\ fresh = Slots
    /\ pid = [s \in Slots |-> 0]
    /\ done = [s \in Slots |-> FALSE]
    /\ waiting = [s \in Slots |-> FALSE]
    /\ ch = [s \in Slots |-> NoResult]
    /\ pc = [t \in Threads |-> "idle"]
    /\ at = [t \in Threads |-> NoSlot]
    /\ txn = [r \in Requesters |-> 0]
    /\ val = [t \in Threads |-> NoResult]
    /\ got = [r \in Requesters |-> NoResult]
    /\ sent = {}
    /\ resp = [i \in Ids |-> 0]
    /\ snap = {}
    /\ raced = FALSE

-----------------------------------------------------------------------------
(* Create.  The only caller passes id 0 (the HTTP server leaves            *)
(* transaction_id unset and a retry asks for a new one), so the id is the  *)
(* next one the map does not hold.                                         *)

FreshId == {i \in Ids : /\ i > nextID
                        /\ wait[i] = NoSlot
                        /\ \A j \in (nextID + 1)..(i - 1) : wait[j] # NoSlot}

\* Lock m.mu, check closed, allocate the id, Get a waiter and reset its
\* fields; m.mu stays locked until CreateInsert.
CreateAcquire(r) ==
    /\ pc[r] = "idle"
    /\ MuFree
    /\ ~closed
    /\ \E i \in FreshId, s \in pool \cup fresh :
         /\ nextID' = i
         /\ txn' = [txn EXCEPT ![r] = i]
         /\ at' = [at EXCEPT ![r] = s]
         /\ pool' = pool \ {s}
         /\ fresh' = fresh \ {s}
         /\ pid' = [pid EXCEPT ![s] = i]
         /\ done' = [done EXCEPT ![s] = FALSE]
         /\ waiting' = [waiting EXCEPT ![s] = FALSE]
         /\ raced' = (raced \/ BeingDelivered(s))
    /\ Goto(r, "acquire")
    /\ UNCHANGED <<closed, wait, ch, val, got, netVars, snap>>

\* A slip: the leftover result of a recycled waiter is not drained.
CreateInsertNoDrain(r) ==
    /\ pc[r] = "acquire"
    /\ wait' = [wait EXCEPT ![txn[r]] = at[r]]
    /\ Goto(r, "created")
    /\ UNCHANGED <<closed, nextID, pool, fresh, pid, done, waiting, ch, at, txn,
                   val, got, netVars, snap, raced>>

\* Drain the leftover result, insert the waiter, unlock m.mu.
CreateInsert(r) ==
    /\ pc[r] = "acquire"
    /\ ch' = [ch EXCEPT ![at[r]] = NoResult]
    /\ wait' = [wait EXCEPT ![txn[r]] = at[r]]
    /\ Goto(r, "created")
    /\ UNCHANGED <<closed, nextID, pool, fresh, pid, done, waiting, at, txn,
                   val, got, netVars, snap, raced>>

-----------------------------------------------------------------------------
(* What Service.request does between Create and Wait.                      *)

Send(r) ==
    /\ pc[r] = "created"
    /\ sent' = sent \cup {txn[r]}
    /\ Goto(r, "wait")
    /\ UNCHANGED <<closed, wait, nextID, slotVars, at, txn, val, got,
                   resp, snap, raced>>

\* No route, no address, or a Send error; a Send whose context ended while its
\* batch was pending fails although the datagram did leave.
SendFails(r) ==
    /\ pc[r] = "created"
    /\ sent' \in {sent, sent \cup {txn[r]}}
    /\ Goto(r, "cancel")
    /\ UNCHANGED <<closed, wait, nextID, slotVars, at, txn, val, got,
                   resp, snap, raced>>

-----------------------------------------------------------------------------
(* finish: look the waiter up under m.mu, unlock, then tryDeliver.         *)

\* The lookup of finish(i, x) by goroutine t; without a waiter t goes to l.
Finish(t, i, x, l) ==
    /\ MuFree
    /\ IF closed \/ wait[i] = NoSlot
       THEN Goto(t, l) /\ UNCHANGED <<at, val>>
       ELSE /\ at' = [at EXCEPT ![t] = wait[i]]
            /\ val' = [val EXCEPT ![t] = x]
            /\ Goto(t, "deliver")

\* Where t goes when its tryDeliver returns.
Return(t) ==
    /\ IF t \in Requesters
       THEN /\ Goto(t, IF val[t].kind = "canceled" THEN "forget" ELSE "recv")
            /\ UNCHANGED at
       ELSE /\ Goto(t, IF t = Closer THEN "next" ELSE "idle")
            /\ at' = [at EXCEPT ![t] = NoSlot]
    /\ val' = [val EXCEPT ![t] = NoResult]

\* A slip: no early return for a waiter that has its result.
TryDeliverTwice(t) ==
    /\ pc[t] = "deliver"
    /\ SlotFree(at[t])
    /\ IF FALSE
       THEN Return(t) /\ UNCHANGED done
       ELSE /\ done' = [done EXCEPT ![at[t]] = TRUE]
            /\ Goto(t, "send")
            /\ UNCHANGED <<at, val>>
    /\ UNCHANGED <<closed, wait, nextID, pool, fresh, pid, waiting, ch, txn, got,
                   netVars, snap, raced>>

\* tryDeliver up to p.done = true, or its early return.
TryDeliver(t) ==
    /\ pc[t] = "deliver"
    /\ SlotFree(at[t])
    /\ IF done[at[t]]
       THEN Return(t) /\ UNCHANGED done
       ELSE /\ done' = [done EXCEPT ![at[t]] = TRUE]
            /\ Goto(t, "send")
            /\ UNCHANGED <<at, val>>
    /\ UNCHANGED <<closed, wait, nextID, pool, fresh, pid, waiting, ch, txn, got,
                   netVars, snap, raced>>

\* The channel send of tryDeliver; it blocks, p.mu held, while ch is full.
DeliverSend(t) ==
    /\ pc[t] = "send"
    /\ ch[at[t]] = NoResult
    /\ ch' = [ch EXCEPT ![at[t]] = val[t]]
    /\ Return(t)
    /\ UNCHANGED <<closed, wait, nextID, pool, fresh, pid, done, waiting, txn, got,
                   netVars, snap, raced>>

-----------------------------------------------------------------------------
(* Wait and Cancel.                                                        *)

\* The lookup at the head of Wait.
WaitLookup(r) ==
    /\ pc[r] = "wait"
    /\ MuFree
    /\ IF closed \/ wait[txn[r]] = NoSlot
       THEN Returned(r)
       ELSE /\ at' = [at EXCEPT ![r] = wait[txn[r]]]
            /\ Goto(r, "claim")
            /\ UNCHANGED <<txn, got>>
    /\ UNCHANGED <<closed, wait, nextID, slotVars, val, netVars, snap, raced>>

ClaimWait(r) ==
    /\ pc[r] = "claim"
    /\ SlotFree(at[r])
    /\ IF waiting[at[r]]
       THEN Returned(r) /\ UNCHANGED waiting
       ELSE /\ waiting' = [waiting EXCEPT ![at[r]] = TRUE]
            /\ Goto(r, "select")
            /\ UNCHANGED <<at, txn, got>>
    /\ UNCHANGED <<closed, wait, nextID, pool, fresh, pid, done, ch, val,
                   netVars, snap, raced>>

\* case r := <-p.ch, and the unconditional receive after a timeout.
Receive(r) ==
    /\ pc[r] \in {"select", "recv"}
    /\ ch[at[r]] # NoResult
    /\ got' = [got EXCEPT ![r] = ch[at[r]]]
    /\ ch' = [ch EXCEPT ![at[r]] = NoResult]
    /\ Goto(r, "remove")
    /\ UNCHANGED <<closed, wait, nextID, pool, fresh, pid, done, waiting, at,
                   txn, val, netVars, snap, raced>>

\* case <-ctx.Done(): the deadline has passed, or the HTTP client has gone.
CtxDone(r) ==
    /\ pc[r] = "select"
    /\ Goto(r, "timeout")
    /\ UNCHANGED <<closed, wait, nextID, slotVars, at, txn, val, got,
                   netVars, snap, raced>>

\* A slip: the timeout path receives without finishing first.
TimeoutNoFinish(r) ==
    /\ pc[r] = "timeout"
    /\ Goto(r, "recv")
    /\ UNCHANGED <<at, val, closed, wait, nextID, slotVars, txn, got, netVars,
                   snap, raced>>

\* finish(id, nil, ctx.Err()) of Wait.
TimeoutFinish(r) ==
    /\ pc[r] = "timeout"
    /\ Finish(r, txn[r], Failure("ctx"), "recv")
    /\ UNCHANGED <<closed, wait, nextID, slotVars, txn, got, netVars,
                   snap, raced>>

\* finish(id, nil, context.Canceled) of Cancel.
CancelFinish(r) ==
    /\ pc[r] = "cancel"
    /\ Finish(r, txn[r], Failure("canceled"), "forget")
    /\ UNCHANGED <<closed, wait, nextID, slotVars, txn, got, netVars,
                   snap, raced>>

\* A slip: Wait releases its waiter but leaves it in the map.
RemoveNothing(r) ==
    /\ pc[r] = "remove"
    /\ MuFree
    /\ Goto(r, "drain")
    /\ UNCHANGED <<closed, wait, nextID, slotVars, at, txn, val, got, netVars,
                   snap, raced>>

\* remove(id), at the end of Wait and at the end of Cancel, which leaves the
\* waiter to the garbage collector.
Remove(r) ==
    /\ pc[r] = "remove"
    /\ MuFree
    /\ wait' = [wait EXCEPT ![txn[r]] = NoSlot]
    /\ Goto(r, "drain")
    /\ UNCHANGED <<closed, nextID, slotVars, at, txn, val, got, netVars, snap,
                   raced>>

\* A slip: Cancel finishes the waiter but leaves it in the map.
CancelRemoveNothing(r) ==
    /\ pc[r] = "forget"
    /\ MuFree
    /\ Returned(r)
    /\ UNCHANGED <<closed, wait, nextID, slotVars, val, netVars, snap, raced>>

CancelRemove(r) ==
    /\ pc[r] = "forget"
    /\ MuFree
    /\ wait' = [wait EXCEPT ![txn[r]] = NoSlot]
    /\ Returned(r)
    /\ UNCHANGED <<closed, nextID, slotVars, val, netVars, snap, raced>>

\* releasePending: drain, then reset under p.mu and Put.
ReleaseDrain(r) ==
    /\ pc[r] = "drain"
    /\ ch' = [ch EXCEPT ![at[r]] = NoResult]
    /\ Goto(r, "put")
    /\ UNCHANGED <<closed, wait, nextID, pool, fresh, pid, done, waiting, at,
                   txn, val, got, netVars, snap, raced>>

ReleasePut(r) ==
    /\ pc[r] = "put"
    /\ SlotFree(at[r])
    /\ pid' = [pid EXCEPT ![at[r]] = 0]
    /\ done' = [done EXCEPT ![at[r]] = FALSE]
    /\ waiting' = [waiting EXCEPT ![at[r]] = FALSE]
    /\ pool' = pool \cup {at[r]}
    /\ Returned(r)
    /\ UNCHANGED <<closed, wait, nextID, fresh, ch, val, netVars, snap, raced>>

-----------------------------------------------------------------------------
(* Complete and Fail, from a dispatch worker through OnResponse.           *)

OnResponse(w) ==
    /\ pc[w] = "idle"
    /\ \E i \in sent :
         /\ resp[i] < MaxResp
         /\ resp' = [resp EXCEPT ![i] = @ + 1]
         /\ Finish(w, i, [kind |-> "response", id |-> i], "idle")
    /\ UNCHANGED <<closed, wait, nextID, slotVars, txn, got, sent,
                   snap, raced>>

-----------------------------------------------------------------------------
(* Close.                                                                  *)

\* A slip: Close replaces the map without keeping its waiters.
CloseLockNoSnapshot ==
    /\ pc[Closer] = "idle"
    /\ MuFree
    /\ closed' = TRUE
    /\ snap' = {}
    /\ wait' = [i \in Ids |-> NoSlot]
    /\ Goto(Closer, "next")
    /\ UNCHANGED <<nextID, slotVars, at, txn, val, got, netVars, raced>>

\* A slip: Close collects nil waiters.
CloseLockNil ==
    /\ pc[Closer] = "idle"
    /\ MuFree
    /\ closed' = TRUE
    /\ snap' = {wait[i] : i \in Ids}
    /\ wait' = [i \in Ids |-> NoSlot]
    /\ Goto(Closer, "next")
    /\ UNCHANGED <<nextID, slotVars, at, txn, val, got, netVars, raced>>

CloseLock ==
    /\ pc[Closer] = "idle"
    /\ MuFree
    /\ closed' = TRUE
    /\ snap' = {wait[i] : i \in Ids} \ {NoSlot}
    /\ wait' = [i \in Ids |-> NoSlot]
    /\ Goto(Closer, "next")
    /\ UNCHANGED <<nextID, slotVars, at, txn, val, got, netVars, raced>>

CloseNext ==
    /\ pc[Closer] = "next"
    /\ \/ \E s \in snap :
            /\ snap' = snap \ {s}
            /\ at' = [at EXCEPT ![Closer] = s]
            /\ val' = [val EXCEPT ![Closer] = Failure("closed")]
            /\ Goto(Closer, "deliver")
       \/ snap = {} /\ Goto(Closer, "closed") /\ UNCHANGED <<at, val, snap>>
    /\ UNCHANGED <<closed, wait, nextID, slotVars, txn, got, netVars,
                   raced>>

-----------------------------------------------------------------------------
RequesterStep(r) ==
    \/ CreateInsert(r)
    \/ Send(r)
    \/ SendFails(r)
    \/ WaitLookup(r)
    \/ ClaimWait(r)
    \/ Receive(r)
    \/ CtxDone(r)
    \/ TimeoutFinish(r)
    \/ CancelFinish(r)
    \/ Remove(r)
    \/ CancelRemove(r)
    \/ ReleaseDrain(r)
    \/ ReleasePut(r)

DeliverStep(t) == TryDeliver(t) \/ DeliverSend(t)

Next ==
    \/ \E r \in Requesters : CreateAcquire(r) \/ RequesterStep(r)
    \/ \E w \in Workers : OnResponse(w)
    \/ CloseLock
    \/ CloseNext
    \/ \E t \in Threads : DeliverStep(t)

Spec == Init /\ [][Next]_vars

\* A goroutine inside an operation keeps being scheduled, and a context made by
\* WithTimeout ends.  Nothing forces a request, a response or a shutdown.
Fairness ==
    /\ \A r \in Requesters : WF_vars(RequesterStep(r))
    /\ \A t \in Threads : WF_vars(DeliverStep(t))
    /\ WF_vars(CloseNext)

FairSpec == Spec /\ Fairness

-----------------------------------------------------------------------------
(* Properties.                                                             *)

\* Every variable has its type.
TypeOK ==
    /\ closed \in BOOLEAN
    /\ wait \in [Ids -> Slots \cup {NoSlot}]
    /\ nextID \in 0..MaxId
    /\ pool \subseteq Slots
    /\ fresh \subseteq Slots
    /\ pid \in [Slots -> 0..MaxId]
    /\ done \in [Slots -> BOOLEAN]
    /\ waiting \in [Slots -> BOOLEAN]
    /\ ch \in [Slots -> Results \cup {NoResult}]
    /\ pc \in [Threads -> RequesterPC \cup CloserPC]
    /\ at \in [Threads -> Slots \cup {NoSlot}]
    /\ txn \in [Requesters -> 0..MaxId]
    /\ val \in [Threads -> Results \cup {NoResult}]
    /\ got \in [Requesters -> Results \cup {NoResult}]
    /\ sent \subseteq Ids
    /\ resp \in [Ids -> 0..MaxResp]
    /\ snap \subseteq Slots
    /\ raced \in BOOLEAN

Owns(r, s) == pc[r] # "idle" /\ at[r] = s

\* A waiter has one owner at a time: the pool never holds one that a request
\* still uses or that the map still names, and no two requests, nor two ids,
\* share one, whatever timeouts, cancellations and Close do around
\* releasePending and acquirePending.
SlotExclusive ==
    /\ \A r \in Requesters, s \in Slots : Owns(r, s) => s \notin pool \cup fresh
    /\ \A q, r \in Requesters, s \in Slots : Owns(q, s) /\ Owns(r, s) => q = r
    /\ \A i, j \in Ids : wait[i] # NoSlot =>
         wait[i] \notin pool /\ (wait[i] = wait[j] => i = j)

\* The map holds exactly the requests in flight: an entry belongs to a request
\* that has not reached its remove, and until Close a request between Create
\* and remove finds its own waiter under its id.
MapIsInFlight ==
    /\ \A i \in Ids : wait[i] # NoSlot =>
         \E r \in Requesters : pc[r] \in Mapped /\ txn[r] = i /\ at[r] = wait[i]
    /\ \A r \in Requesters :
         pc[r] \in Mapped /\ ~closed => wait[txn[r]] = at[r]

\* "correlate DATA_REQUEST / DATA_RESPONSE theo transaction_id": the response
\* Wait returns is a response to the transaction it waited for.
Correlated ==
    \A r \in Requesters : got[r] \in Responses => got[r].id = txn[r]

\* The same, as far as the code guarantees it: a response crosses to another
\* transaction only if pendingPool handed out a waiter that a finish, having
\* looked it up before, was still delivering to.
CorrelatedUnlessRaced == ~raced => Correlated

\* The receive that Wait does after its context ends, which nothing can
\* interrupt, has its result in the channel, on its way there, or still to
\* come from Close.
TimedOutWaitIsFed ==
    \A r \in Requesters : ~raced /\ pc[r] = "recv" =>
        \/ ch[at[r]] # NoResult
        \/ ~SlotFree(at[r])
        \/ at[r] \in snap
        \/ pc[Closer] = "deliver" /\ at[Closer] = at[r]

\* tryDeliver never blocks in its channel send, which it does holding p.mu.
DeliverNeverBlocks ==
    \A t \in Threads : ~raced /\ pc[t] = "send" => ch[at[t]] = NoResult

\* "Wait cho Complete, huy ctx, hoac Close": every request gets to the end of
\* its Wait or Cancel, because its context ends if nothing else does, and Close
\* gets through its waiters.  A recycled waiter that was still being delivered
\* to voids the promise: the delivery can set done, or take the channel, that
\* the next Wait depends on.
CallReturnsUnlessRaced ==
    \A t \in Requesters \cup {Closer} :
        pc[t] \notin {"idle", "closed"} ~> (pc[t] \in {"idle", "closed"} \/ raced)
=============================================================================
